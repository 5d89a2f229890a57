------------------------------ MODULE BufferPool ------------------------------
(***************************************************************************)
(* lib/mumble/util/buffer_pool.c: a fixed set of buffers kept in one array *)
(* whose first in_use entries are the buffers handed out.  Acquire takes   *)
(* the entry at in_use; release looks the pointer up, swaps it with the    *)
(* last entry in use and shrinks the prefix.  Callers release in any       *)
(* order, so the array is permuted over time.                              *)
(*                                                                         *)
(* The operators on a pool record are also what TcpSsl and the UDP socket  *)
(* use for their own pools.                                                *)
(***************************************************************************)
EXTENDS Integers, FiniteSets

CONSTANT N                          \* pool->buffer_count

ASSUME PoolSizeAssumption == N \in Nat \ {0}

VARIABLES
  pool,   \* [buffers |-> array of pointers, in_use |-> length of the prefix]
  held,   \* history: what the callers hold
  got     \* the pointer the last acquire returned

poolVars == <<pool, held, got>>

Buf  == 0 .. N - 1
NULL == -1
Pool == [buffers : [Buf -> Buf], in_use : 0 .. N]

\* buffer_pool_init: malloc returns N different addresses, named 0 .. N-1.
buffer_pool_init == [buffers |-> [i \in Buf |-> i], in_use |-> 0]

\* Faulty variant of buffer_pool_acquire: the last buffer is never handed out.
CanAcquireShort(p) == p.in_use + 1 < N

\* buffer_pool_acquire: the pointer returned and the pool left behind.
CanAcquire(p) == p.in_use < N
Acquired(p)   == IF CanAcquire(p) THEN p.buffers[p.in_use] ELSE NULL
buffer_pool_acquire(p) ==
  IF CanAcquire(p) THEN [p EXCEPT !.in_use = @ + 1] ELSE p

\* buffer_pool_release: a pointer that is not in the array is ignored.  The
\* first assignment fills the slot of buf with the last entry in use, the
\* second puts buf at that end; the order decides when both are one slot.
IndexOf(p, buf) == CHOOSE i \in Buf : p.buffers[i] = buf
SwapOut(p, buf) ==
  LET i    == IndexOf(p, buf)
      last == p.in_use - 1
  IN  [[p.buffers EXCEPT ![i] = p.buffers[last]] EXCEPT ![last] = buf]

\* Faulty variants of buffer_pool_release: the second assignment of the swap
\* is missing; the prefix shrinks without any swap.
ReleaseHalfSwap(p, buf) ==
  [buffers |-> [p.buffers EXCEPT ![IndexOf(p, buf)] = p.buffers[p.in_use - 1]],
   in_use  |-> p.in_use - 1]
ReleaseNoSwap(p, buf) == [p EXCEPT !.in_use = @ - 1]

buffer_pool_release(p, buf) ==
  IF \E i \in Buf : p.buffers[i] = buf
    THEN [buffers |-> SwapOut(p, buf), in_use |-> p.in_use - 1]
    ELSE p

-------------------------------------------------------------------------------
PoolInit ==
  /\ pool = buffer_pool_init
  /\ held = {}
  /\ got = NULL

Acquire ==
  /\ pool' = buffer_pool_acquire(pool)
  /\ got' = Acquired(pool)
  /\ held' = held \cup ({Acquired(pool)} \ {NULL})

\* A caller gives back a buffer it holds, in any order.
Release(buf) ==
  /\ buf \in held
  /\ pool' = buffer_pool_release(pool, buf)
  /\ held' = held \ {buf}
  /\ UNCHANGED got

PoolNext == Acquire \/ \E buf \in Buf : Release(buf)

PoolSpec == PoolInit /\ [][PoolNext]_poolVars

-------------------------------------------------------------------------------
\* The pool keeps its types: in_use stays within the array, so neither the
\* read of buffers[in_use] nor the one of buffers[in_use - 1] leaves it.
PoolTypeOK ==
  /\ pool \in Pool
  /\ held \subseteq Buf
  /\ got \in Buf \cup {NULL}

\* The swaps of buffer_pool_release only permute the array: after any number
\* of releases in any order no pointer is stored twice, so none is lost.
NoPointerTwice ==
  \A i, j \in Buf : pool.buffers[i] = pool.buffers[j] => i = j

\* The prefix of length in_use is exactly what the callers hold.  It is what
\* makes acquire safe: the entry at in_use belongs to nobody.
PrefixIsHeld ==
  held = {pool.buffers[i] : i \in 0 .. pool.in_use - 1}

Abs == INSTANCE BufferAllocator

\* buffer_pool.c implements the allocator its callers rely on: an acquire
\* never returns a buffer that somebody holds, and returns NULL (which every
\* caller asserts against) only when all N are held.
ImplementsAllocator == Abs!AbsSpec
===============================================================================
