SPECIFICATION Spec
CONSTANTS
  MaxDimension = 8
  Alphabet = {10, 34, 84, 88, 92, 110, 233, 8364, 128512}
  MaxAnswer = 3
  Pictures <- MCPictures
  Answers <- MCAnswers
  TextCap = 9
  ResponseCap = 6
  ControlCap = 45
  Clock = 4
  Durations = {0, 5}
INVARIANTS
  TypeOK
  AnswerReadsBack
  OnlyTypeIsUnreadable
  MetricsAreTrue
  CaptureFindsBufferFree
PROPERTIES
  SorryOnlyWhenUndecodable
