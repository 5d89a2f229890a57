\* Blocks and datagrams of the code's sizes; writes that fall short of a block,
\* fill it and overrun it; payloads on both sides of every limit; sequence
\* numbers that grow from one byte to two and then start again at 0.
SPECIFICATION SendSpec
CONSTANTS
  Size = 960
  Writes = {0, 958, 960, 1920, 1922}
  MaxFed = 2880
  Ends = {TRUE, FALSE}
  StackDepth = 3
  Targets = {0, 33}
  PayloadLens = {127, 957, 958}
  SequenceRange = 129
  Start = 127
  Tone = 1920
  AppMessages <- Texts
  RecordOverhead = 29
  MaxFrames = 1
INVARIANTS
  SendTypeOK
  NothingLost
  CrashNeedsRemainder
  EachBlockOnce
  VoiceFitsDatagram
PROPERTIES
  BoundaryEndIsFinal
