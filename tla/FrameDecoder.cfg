\* Frames of every kind, cut into reads of many sizes; one body does not parse.
SPECIFICATION FrameFairSpec
CONSTANTS
  Stream <- MixedStream
  Start <- MixedStart
  NFrames = 6
  Malformed = {4}
  NonceOnly = {}
  Chunks = {1, 2, 3, 5, 7, 8, 15}
  Allocated = 25
INVARIANTS
  FramingKept
  HandledByType
  KeysAreLatest
  OverrunOnlyByFront
PROPERTIES
  EventuallyAllHandled
