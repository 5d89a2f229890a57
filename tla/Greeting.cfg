\* The connection opens.
SPECIFICATION SendSpec
CONSTANTS
  Size = 960
  Writes = {960}
  MaxFed = 960
  Ends = {FALSE}
  StackDepth = 3
  Targets = {0}
  PayloadLens = {127}
  SequenceRange = 65536
  Start = 0
  Tone = 960
  AppMessages = {}
  RecordOverhead = 29
  MaxFrames = 1
INVARIANTS
  VersionAnnounced
