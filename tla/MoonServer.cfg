SPECIFICATION RpcSpec
CONSTANTS
  BUFFER_LEN = 12
  Frames <- MCFrames
  BrokenFrames <- MCBrokenFrames
  SEQUENCES = 4
  Calls <- MCCalls
  Answers <- MCAnswers
  FrameCrcs <- MCFrameCrcs
INVARIANTS
  TypeOK
  CompleteRequestIsCalled
  ReplyNamesRequest
  ArgumentsArrive
  CallsReturn
