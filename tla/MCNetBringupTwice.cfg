SPECIFICATION SpecNet
CONSTANTS
  MaxRetry = 1
  MaxCalls = 2
  MaxDrops = 2
PROPERTIES OkMeansAddress
