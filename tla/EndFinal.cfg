\* A transmission ends inside a block; the stack is far smaller than the code's.
SPECIFICATION SendSpec
CONSTANTS
  Size = 960
  Writes = {958}
  MaxFed = 960
  Ends = {TRUE}
  StackDepth = 3
  Targets = {0}
  PayloadLens = {127}
  SequenceRange = 65536
  Start = 0
  Tone = 960
  AppMessages = {}
  RecordOverhead = 29
  MaxFrames = 1
PROPERTIES
  EndIsFinal
