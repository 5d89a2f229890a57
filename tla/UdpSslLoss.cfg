\* A datagram may be lost.
SPECIFICATION UdpSpec
CONSTANTS
  N = 2
  Base = 2
  IvLen = 2
  EncNonce <- One
  DecNonce <- One
  MaxSetups = 1
  MaxSent = 2
  MaxWrites = 2
  Faults = {"lose"}
INVARIANTS
  PingRepliesRecognised
