\* OCB2 under every nonce; OCB3 with every shift of the offset.
SPECIFICATION OcbSpec
CONSTANTS
  ByteBits = 3
  BlockBytes = 2
  IvBytes = 1
  LowBits = 3
  Poly = {0, 1}
  Keys = {1, 2}
  Cipher <- SmallCipher
  Jobs <- AllJobs
INVARIANTS
  RoundTrip
  TagsMeet
  OffsetsDistinct
  Ocb3AsInRfc
