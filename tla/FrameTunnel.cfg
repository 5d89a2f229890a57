\* One frame of voice, read at once or in two halves.
SPECIFICATION FrameSpec
CONSTANTS
  Stream <- VoiceStream
  Start <- VoiceStart
  NFrames = 1
  Malformed = {}
  NonceOnly = {}
  Chunks = {8, 16}
  Allocated = 32
INVARIANTS
  AudioFrameAccepted
