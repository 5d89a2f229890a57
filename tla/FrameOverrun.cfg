\* Every frame fits the buffer; a read takes the end of one and the start of the next.
SPECIFICATION FrameSpec
CONSTANTS
  Stream <- PlainStream
  Start <- PlainStart
  NFrames = 2
  Malformed = {}
  NonceOnly = {}
  Chunks = {7, 8}
  Allocated = 8
INVARIANTS
  MaxSizeFits
