\* Three packets of two speakers in any order, with payloads on both sides of
\* the limits of the assertions.
SPECIFICATION ReceiveSpec
CONSTANTS
  Sources <- Sessions
  Numbers <- Limits
  Lens = {4, 5, 478, 490}
  Samples = {480}
  Noise <- Garbled
  NoiseLens = {0, 40}
  MaxPackets = 3
INVARIANTS
  ReceiveTypeOK
  SelfDelimiting
  PlayedInOrder
  DropNeedsOvertaking
  OpusSurvives
