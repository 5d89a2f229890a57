--------------------------- MODULE BufferAllocator ---------------------------
(***************************************************************************)
(* What a caller of the buffer pool relies on, and nothing of how the pool *)
(* keeps it: an acquire hands out some buffer that nobody holds, or NULL   *)
(* when every buffer is held; a release gives one buffer back.             *)
(*                                                                         *)
(* BufferPool implements this specification.                               *)
(***************************************************************************)
EXTENDS Integers

CONSTANT N          \* the number of buffers the pool was created with

Buf  == 0 .. N - 1  \* a buffer is named by the order of its allocation
NULL == -1          \* the pointer acquire returns when it has no buffer

VARIABLES
  held,             \* the buffers handed out and not yet released
  got               \* the pointer the last acquire returned

absVars == <<held, got>>

AbsInit ==
  /\ held = {}
  /\ got = NULL

AbsAcquire(b) ==
  /\ b \in Buf \ held
  /\ held' = held \cup {b}
  /\ got' = b

AbsRefuse ==
  /\ held = Buf
  /\ got' = NULL
  /\ UNCHANGED held

AbsRelease(b) ==
  /\ b \in held
  /\ held' = held \ {b}
  /\ UNCHANGED got

AbsNext ==
  \/ \E b \in Buf : AbsAcquire(b) \/ AbsRelease(b)
  \/ AbsRefuse

AbsSpec == AbsInit /\ [][AbsNext]_absVars
==============================================================================
