\* Every fault, two keys; both nonces carry or wrap after a datagram or two.
SPECIFICATION UdpSpec
CONSTANTS
  N = 2
  Base = 2
  IvLen = 2
  EncNonce <- One
  DecNonce <- Topmost
  MaxSetups = 2
  MaxSent = 3
  MaxWrites = 3
  Faults = {"lose", "repeat", "reorder", "stray", "try_send"}
INVARIANTS
  UdpTypeOK
  UdpPoolSuffices
  InOrderDecrypts
  NonceNeverReused
