--------------------------- MODULE BufferPoolProofs ---------------------------
(***************************************************************************)
(* For a pool of any size: the array stays a permutation of the buffers,   *)
(* its first in_use entries are the held ones, and the pool implements     *)
(* BufferAllocator.                                                        *)
(***************************************************************************)
EXTENDS BufferPool, FiniteSetTheorems, TLAPS

\* The three facts are inductive only together: a release keeps the array
\* injective because the pointer it is given is inside the prefix.
PoolInv == PoolTypeOK /\ NoPointerTwice /\ PrefixIsHeld

\* The types of the two fields, and that they are integers in range.
LEMMA PoolFields ==
  ASSUME PoolInv
  PROVE  /\ N \in Nat \ {0}
         /\ pool.in_use \in 0 .. N
         /\ pool.buffers \in [Buf -> Buf]
         /\ held \subseteq Buf
BY PoolSizeAssumption DEF PoolInv, PoolTypeOK, Pool

\* A pool fresh from buffer_pool_init holds nothing.
LEMMA PoolInitInv == PoolInit => PoolInv
BY PoolSizeAssumption
   DEF PoolInit, PoolInv, PoolTypeOK, NoPointerTwice, PrefixIsHeld,
       buffer_pool_init, Pool, Buf, NULL

\* buffer_pool_acquire preserves the invariant, whether or not it has a
\* buffer to give.
LEMMA AcquireInv == PoolInv /\ Acquire => PoolInv'
<1> SUFFICES ASSUME PoolInv, Acquire PROVE PoolInv'
  OBVIOUS
<1> USE PoolSizeAssumption DEF Pool, Buf, NULL
<1>1. CASE CanAcquire(pool)
  <2>1. /\ pool' = [pool EXCEPT !.in_use = pool.in_use + 1]
        /\ got' = pool.buffers[pool.in_use]
        /\ held' = held \cup {pool.buffers[pool.in_use]}
    BY <1>1 DEF Acquire, buffer_pool_acquire, Acquired, CanAcquire, PoolInv, PoolTypeOK
  <2>2. /\ pool'.buffers = pool.buffers
        /\ pool'.in_use = pool.in_use + 1
        /\ pool.in_use \in 0 .. N - 1
    BY <1>1, <2>1 DEF CanAcquire, PoolInv, PoolTypeOK
  <2>3. PoolTypeOK'
    BY <2>1, <2>2 DEF PoolInv, PoolTypeOK
  <2>4. NoPointerTwice'
    BY <2>2 DEF PoolInv, NoPointerTwice
  <2>5. PrefixIsHeld'
    BY <2>1, <2>2 DEF PoolInv, PoolTypeOK, PrefixIsHeld
  <2> QED
    BY <2>3, <2>4, <2>5 DEF PoolInv
<1>2. CASE ~CanAcquire(pool)
  BY <1>2 DEF Acquire, buffer_pool_acquire, Acquired, PoolInv, PoolTypeOK,
              NoPointerTwice, PrefixIsHeld
<1> QED
  BY <1>1, <1>2

\* What the search of buffer_pool_release finds for a held pointer: its one
\* slot, and that slot is in the prefix.
LEMMA SlotOfHeld ==
  ASSUME PoolInv, NEW buf \in held
  PROVE  /\ IndexOf(pool, buf) \in 0 .. pool.in_use - 1
         /\ pool.buffers[IndexOf(pool, buf)] = buf
<1>1. PICK k \in 0 .. pool.in_use - 1 : pool.buffers[k] = buf
  BY DEF PoolInv, PrefixIsHeld
<1>2. k \in Buf
  BY PoolSizeAssumption DEF PoolInv, PoolTypeOK, Pool, Buf
<1>3. IndexOf(pool, buf) \in Buf /\ pool.buffers[IndexOf(pool, buf)] = buf
  BY <1>1, <1>2 DEF IndexOf
<1>4. IndexOf(pool, buf) = k
  BY <1>1, <1>2, <1>3 DEF PoolInv, NoPointerTwice
<1> QED
  BY <1>1, <1>3, <1>4

\* The swap of buffer_pool_release, slot by slot.
LEMMA ReleaseShape ==
  ASSUME PoolInv, NEW buf \in held, Release(buf)
  PROVE  LET i == IndexOf(pool, buf)
             last == pool.in_use - 1
         IN  /\ i \in 0 .. last
             /\ last \in Buf
             /\ pool'.in_use = last
             /\ pool'.buffers \in [Buf -> Buf]
             /\ pool' \in Pool
             /\ pool'.buffers[last] = buf
             /\ i # last => pool'.buffers[i] = pool.buffers[last]
             /\ \A k \in Buf \ {i, last} : pool'.buffers[k] = pool.buffers[k]
<1> DEFINE i == IndexOf(pool, buf)
           last == pool.in_use - 1
<1>1. i \in 0 .. last /\ pool.buffers[i] = buf
  BY SlotOfHeld
<1>2. last \in Buf /\ i \in Buf /\ buf \in Buf
  BY <1>1, PoolFields DEF Buf
<1>3. pool' = [buffers |-> [[pool.buffers EXCEPT ![i] = pool.buffers[last]]
                              EXCEPT ![last] = buf],
               in_use  |-> last]
  BY <1>1, <1>2 DEF Release, buffer_pool_release, SwapOut
<1>4. pool.buffers \in [Buf -> Buf]
  BY DEF PoolInv, PoolTypeOK, Pool
<1>5. last \in 0 .. N
  BY <1>1, PoolFields
<1> HIDE DEF i, last
<1>6. pool'.buffers \in [Buf -> Buf] /\ pool'.in_use = last
  BY <1>2, <1>3, <1>4
<1>7. pool' \in Pool
  BY <1>2, <1>3, <1>4, <1>5 DEF Pool
<1>8. /\ pool'.buffers[last] = buf
      /\ i # last => pool'.buffers[i] = pool.buffers[last]
      /\ \A k \in Buf \ {i, last} : pool'.buffers[k] = pool.buffers[k]
  BY <1>2, <1>3, <1>4
<1> QED
  BY <1>1, <1>2, <1>6, <1>7, <1>8 DEF i, last

\* buffer_pool_release of a held buffer preserves the invariant.
LEMMA ReleaseInv ==
  ASSUME PoolInv, NEW buf \in Buf, Release(buf)
  PROVE  PoolInv'
<1> DEFINE i == IndexOf(pool, buf)
           last == pool.in_use - 1
<1>0. buf \in held /\ held' = held \ {buf} /\ got' = got
  BY DEF Release
<1>1. /\ i \in 0 .. last /\ last \in Buf
      /\ pool'.in_use = last
      /\ pool' \in Pool
      /\ pool'.buffers[last] = buf
      /\ i # last => pool'.buffers[i] = pool.buffers[last]
      /\ \A k \in Buf \ {i, last} : pool'.buffers[k] = pool.buffers[k]
  BY <1>0, ReleaseShape
<1>2. pool.buffers[i] = buf
  BY <1>0, SlotOfHeld
<1>3. i \in Buf /\ pool.in_use = last + 1 /\ last \in Int
  BY <1>1, PoolFields DEF Buf
<1>4. \A j, k \in Buf : pool.buffers[j] = pool.buffers[k] => j = k
  BY DEF PoolInv, NoPointerTwice
<1>5. held = {pool.buffers[k] : k \in 0 .. last}
  BY <1>3 DEF PoolInv, PrefixIsHeld
<1> HIDE DEF i, last
<1>6. PoolTypeOK'
  BY <1>0, <1>1 DEF PoolInv, PoolTypeOK
<1>7. NoPointerTwice'
  \* the slot that each entry of the new array came from
  <2> DEFINE from(k) == IF k = last THEN i ELSE IF k = i THEN last ELSE k
  <2>1. ASSUME NEW k \in Buf
        PROVE  from(k) \in Buf /\ pool'.buffers[k] = pool.buffers[from(k)]
    <3>1. CASE k = last
      BY <1>1, <1>2, <1>3, <3>1
    <3>2. CASE k # last /\ k = i
      BY <1>1, <3>2
    <3>3. CASE k # last /\ k # i
      BY <1>1, <3>3
    <3> QED
      BY <3>1, <3>2, <3>3
  <2>2. ASSUME NEW j \in Buf, NEW k \in Buf, from(j) = from(k)
        PROVE  j = k
    BY <2>2
  <2> HIDE DEF from
  <2> QED
    BY <1>4, <2>1, <2>2 DEF NoPointerTwice
<1>8. held' = {pool'.buffers[k] : k \in 0 .. last - 1}
  <2>1. 0 .. last - 1 \subseteq Buf
    BY <1>1, <1>3, PoolSizeAssumption DEF Buf
  <2>2. ASSUME NEW k \in 0 .. last - 1
        PROVE  pool'.buffers[k] \in held \ {buf}
    <3>1. k # last /\ k \in Buf /\ k \in 0 .. last /\ last \in 0 .. last
      BY <1>1, <1>3, <2>1
    <3>2. CASE k = i
      BY <1>1, <1>2, <1>3, <1>4, <1>5, <3>1, <3>2
    <3>3. CASE k # i
      BY <1>1, <1>2, <1>3, <1>4, <1>5, <3>1, <3>3
    <3> QED
      BY <3>2, <3>3
  <2>3. ASSUME NEW b \in held \ {buf}
        PROVE  \E k \in 0 .. last - 1 : pool'.buffers[k] = b
    <3>1. PICK k \in 0 .. last : pool.buffers[k] = b
      BY <1>5
    <3>2. CASE k = last
      <4>1. i # last /\ i \in 0 .. last - 1
        BY <1>1, <1>2, <1>3, <3>1, <3>2
      <4> QED
        BY <1>1, <3>1, <3>2, <4>1
    <3>3. CASE k # last
      <4>1. k \in 0 .. last - 1 /\ k # i
        BY <1>2, <1>3, <3>1, <3>3
      <4> QED
        BY <1>1, <2>1, <3>1, <3>3, <4>1
    <3> QED
      BY <3>2, <3>3
  <2> QED
    BY <1>0, <2>2, <2>3
<1>9. PrefixIsHeld'
  BY <1>1, <1>8 DEF PrefixIsHeld
<1> QED
  BY <1>6, <1>7, <1>9 DEF PoolInv

\* Every step of the pool preserves the invariant.
LEMMA PoolNextInv == PoolInv /\ [PoolNext]_poolVars => PoolInv'
<1> SUFFICES ASSUME PoolInv, [PoolNext]_poolVars PROVE PoolInv'
  OBVIOUS
<1>1. CASE Acquire
  BY <1>1, AcquireInv
<1>2. ASSUME NEW buf \in Buf, Release(buf) PROVE PoolInv'
  BY <1>2, ReleaseInv
<1>3. CASE UNCHANGED poolVars
  BY <1>3 DEF poolVars, PoolInv, PoolTypeOK, NoPointerTwice, PrefixIsHeld
<1> QED
  BY <1>1, <1>2, <1>3 DEF PoolNext

\* The invariant holds in every state of a pool of any size.
THEOREM PoolCorrect == PoolSpec => []PoolInv
BY PoolInitInv, PoolNextInv, PTL DEF PoolSpec

\* No pointer is ever stored twice, for a pool of any size.
THEOREM PoolNoPointerTwice == PoolSpec => []NoPointerTwice
<1>1. PoolInv => NoPointerTwice
  BY DEF PoolInv
<1> QED
  BY <1>1, PoolCorrect, PTL

\* The in-use prefix of the array is what the callers hold, for a pool of any
\* size: buffer_pool_acquire never hands out a buffer twice.
THEOREM PoolPrefixIsHeld == PoolSpec => []PrefixIsHeld
<1>1. PoolInv => PrefixIsHeld
  BY DEF PoolInv
<1> QED
  BY <1>1, PoolCorrect, PTL

\* Every step of the array is a step of the abstract allocator.
LEMMA PoolStepRefines == PoolInv /\ [PoolNext]_poolVars => [Abs!AbsNext]_(Abs!absVars)
<1> SUFFICES ASSUME PoolInv, [PoolNext]_poolVars
             PROVE  [Abs!AbsNext]_(Abs!absVars)
  OBVIOUS
<1> USE DEF Abs!Buf, Abs!NULL, Abs!absVars, Abs!AbsNext
<1>1. CASE Acquire /\ CanAcquire(pool)
  <2>1. got' = pool.buffers[pool.in_use] /\ held' = held \cup {got'}
    BY <1>1, PoolSizeAssumption, SMTT(60)
       DEF Acquire, Acquired, CanAcquire, PoolInv, PoolTypeOK, Pool, Buf, NULL
  <2>2. pool.in_use \in Buf /\ got' \in 0 .. N - 1
    BY <1>1, <2>1, PoolSizeAssumption, SMTT(60)
       DEF CanAcquire, PoolInv, PoolTypeOK, Pool, Buf
  <2>3. got' \notin held
    <3>1. \A k \in 0 .. pool.in_use - 1 : k \in Buf /\ k # pool.in_use
      BY PoolFields DEF Buf
    <3> QED
      BY <2>1, <2>2, <3>1 DEF PoolInv, NoPointerTwice, PrefixIsHeld
  <2>4. Abs!AbsAcquire(got')
    BY <2>1, <2>2, <2>3 DEF Abs!AbsAcquire
  <2> QED
    BY <2>2, <2>4
<1>2. CASE Acquire /\ ~CanAcquire(pool)
  <2>1. got' = NULL /\ held' = held /\ pool.in_use = N
    BY <1>2, PoolFields DEF Acquire, Acquired, CanAcquire
  <2>2. held = {pool.buffers[k] : k \in Buf}
    BY <2>1 DEF PoolInv, PrefixIsHeld, Buf
  <2>3. pool.buffers \in Injection(Buf, Buf)
    BY PoolFields DEF PoolInv, NoPointerTwice, Injection, IsInjective
  <2>4. IsFiniteSet(Buf)
    BY PoolFields, FS_Interval DEF Buf
  <2>5. pool.buffers \in Surjection(Buf, Buf)
    BY <2>3, <2>4, FS_Injection
  <2>6. held = 0 .. N - 1
    BY <2>2, <2>5, PoolFields DEF Surjection, Buf
  <2>7. Abs!AbsRefuse
    BY <2>1, <2>6 DEF Abs!AbsRefuse, NULL
  <2> QED
    BY <2>7
<1>3. ASSUME NEW buf \in Buf, Release(buf) PROVE [Abs!AbsNext]_(Abs!absVars)
  <2>1. Abs!AbsRelease(buf)
    BY <1>3 DEF Release, Abs!AbsRelease
  <2> QED
    BY <2>1 DEF Buf
<1>4. CASE UNCHANGED poolVars
  BY <1>4 DEF poolVars
<1> QED
  BY <1>1, <1>2, <1>3, <1>4 DEF PoolNext

\* buffer_pool.c implements BufferAllocator, for a pool of any size: acquire
\* returns a buffer nobody holds, and NULL only when every buffer is held.
THEOREM PoolImplementsAllocator == PoolSpec => ImplementsAllocator
<1>1. PoolInit => Abs!AbsInit
  BY DEF PoolInit, Abs!AbsInit, NULL, Abs!NULL
<1> QED
  BY <1>1, PoolCorrect, PoolStepRefines, PTL
     DEF PoolSpec, ImplementsAllocator, Abs!AbsSpec
===============================================================================
