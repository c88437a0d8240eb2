SPECIFICATION FairLink
CONSTANTS
  RADIX = 4
  SLL_SYNC_SEQ_1 = 1
  SLL_SYNC_SEQ_2 = 3
  SLL_MAX_PAYLOD_LEN = 2
  crc_16ibm_update <- MCcrc_update
  Messages <- MCMessages
  AnswerTo <- MCAnswerTo
INVARIANTS
  LinkTypeOK
  DecodesExactlyFrames
  FrameBounded
  HostDecodesExactlyFrames
PROPERTIES
  DecodeStaysInPayload
  EncodersAgree
  GetsThrough
CHECK_DEADLOCK FALSE
