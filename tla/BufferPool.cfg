\* The TCP socket's pool: 4 buffers (uv_tcp_ssl.c:151).
SPECIFICATION PoolSpec
CONSTANT
  N = 4
INVARIANTS
  NoPointerTwice
  PrefixIsHeld
PROPERTY
  ImplementsAllocator
