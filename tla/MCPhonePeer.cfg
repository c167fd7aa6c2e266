SPECIFICATION Spec
CONSTANTS
  MaxBoots = 2
  ImgChunks = 2
  AudChunks = 1
  ChunkSize = 1
  LastChunk = 1
  SockBuf = 1
  Backlog = 2
  SilentLoss = FALSE
  ClientFrames = 5
PROPERTIES AnalysedFromOneTransfer
