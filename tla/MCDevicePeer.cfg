SPECIFICATION Spec
CONSTANTS
  MaxBoots = 1
  ImgChunks = 1
  AudChunks = 2
  ChunkSize = 2
  LastChunk = 1
  SockBuf = 1
  Backlog = 1
  SilentLoss = FALSE
  ConnectAttempts = 1
  SizeT = 4
  PeerFrames = 5
INVARIANTS FrameBufferNeverLeaks NoSocketLeaks PlayedBytesArrivedOnce
PROPERTIES NothingAfterReturn TurnEnds
