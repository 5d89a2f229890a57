\* Whole frames; the second CryptSetup only carries a nonce.
SPECIFICATION FrameSpec
CONSTANTS
  Stream <- ResyncStream
  Start <- ResyncStart
  NFrames = 2
  Malformed = {}
  NonceOnly = {2}
  Chunks = {7, 9}
  Allocated = 16
INVARIANTS
  ResyncAccepted
