SPECIFICATION SpecNet
CONSTANTS
  MaxRetry = 2
  MaxCalls = 4
  MaxDrops = 5
INVARIANTS TypeOKNet GivesUpOnlyAfterRetries
PROPERTIES WaitedOkMeansAddress StartReturns
