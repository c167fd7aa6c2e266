SPECIFICATION SpecDeviceFair
CONSTANTS
  MaxBoots = 2
  ImgChunks = 2
  AudChunks = 1
  ChunkSize = 1
  LastChunk = 1
  SockBuf = 1
  Backlog = 1
  SilentLoss = TRUE
  ConnectAttempts = 2
  SizeT = 2
INVARIANTS
  TypeOK
  AnswerIsForThisTurn
  SpeechIsForThisTurn
  OkMeansAnsweredAndHeard
  OnlyIntactImagesAnalysed
  IInv
PROPERTIES
  ImplementsFairTurnService
  EveryConnectionServed
