\* Every fault, and a read buffer that one record fills exactly.
SPECIFICATION TcpFairSpec
CONSTANTS
  N = 4
  H = 2
  Records = 5
  Cap = 3
  MaxWrites = 1
  MaxPings = 1
  Faults = {"dns", "connect", "stack_reuse", "handshake", "handshake_end", "tls_end",
            "tls_error", "big_record", "try_write", "close"}
INVARIANTS
  TcpTypeOK
  PoolBalanced
  ExhaustionNeedsLeaks
  DrainedWhenIdle
  ConnectOnce
  FailedHandshakeIsFatal
PROPERTIES
  EventuallyDelivered
