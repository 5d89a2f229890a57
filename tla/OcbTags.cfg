\* OCB2 on texts of two blocks and a half, as in test_ocb2_dec2.
SPECIFICATION OcbSpec
CONSTANTS
  ByteBits = 3
  BlockBytes = 2
  IvBytes = 1
  LowBits = 3
  Poly = {0, 1}
  Keys = {1, 2}
  Cipher <- SmallCipher
  Jobs <- HalfJobs
INVARIANT TagsAgree
