\* Well-formed frames; a read may end anywhere.
SPECIFICATION FrameSpec
CONSTANTS
  Stream <- PlainStream
  Start <- PlainStart
  NFrames = 2
  Malformed = {}
  NonceOnly = {}
  Chunks = {1, 2, 3}
  Allocated = 10
INVARIANTS
  OnlyDecodedDelivered
