\* Whole frames; the body of the second does not parse.
SPECIFICATION FrameSpec
CONSTANTS
  Stream <- PlainStream
  Start <- PlainStart
  NFrames = 2
  Malformed = {2}
  NonceOnly = {}
  Chunks = {7, 8}
  Allocated = 16
INVARIANTS
  OnlyDecodedDelivered
