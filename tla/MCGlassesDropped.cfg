SPECIFICATION SpecFair
CONSTANTS
  MaxBoots = 1
  ImgChunks = 1
  AudChunks = 1
  ChunkSize = 1
  LastChunk = 1
  SockBuf = 2
  Backlog = 1
  SilentLoss = TRUE
  ConnectAttempts = 1
  SizeT = 2
PROPERTIES
  DroppedLinkEndsConnection
