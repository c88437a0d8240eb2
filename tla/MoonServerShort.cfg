SPECIFICATION RpcSpec
CONSTANTS
  BUFFER_LEN = 12
  Frames <- MCShortFrames
  BrokenFrames = {}
  SEQUENCES = 4
  Calls = {}
  Answers = {0}
  FrameCrcs <- MCFrameCrcs
INVARIANT
  CallsComeFromTheirFrame
