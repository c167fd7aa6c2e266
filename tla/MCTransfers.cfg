SPECIFICATION Spec
CONSTANTS
  Byte = 4
  Digits = 2
  Word = 16
  KindJson = 1
  KindBinary = 2
  MaxFrame = 8
  Chunk = 2
  SockBytes = 3
  MaxDamage = 1
  Sizes = {0, 1, 3, 8}
  ImageSizes = {0, 3, 4}
  Rates = {0, 8}
  Channels = {0, 1, 2, 5, 8}
  NoFormat = NoFormat
  NoUtterance = NoUtterance
INVARIANTS
  TypeOK
  PlayedInItsFormat
  ReadsOnlySpeech
  NeverDividesByZero
  WritesInBuffer
  UndamagedPrefix
  UndamagedChunks
PROPERTIES
  UndamagedImageIsTaken
  UndamagedIsTaken
