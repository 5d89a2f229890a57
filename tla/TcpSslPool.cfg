\* No fault; records that fill the read buffer exactly.
SPECIFICATION TcpSpec
CONSTANTS
  N = 4
  H = 2
  Records = 5
  Cap = 2
  MaxWrites = 1
  MaxPings = 0
  Faults = {}
INVARIANTS
  PoolNeverExhausted
