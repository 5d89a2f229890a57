----------------------------- MODULE FrameBuffer ------------------------------
(***************************************************************************)
(* lib/mumble/buffer.c: cuts PCM of any length into blocks of one size for *)
(* the Opus encoder.  mumble_buffer_write copies until the block is full,  *)
(* calls back, and starts the next; a write with the end bit pads and      *)
(* flushes what is left.  Bytes are counted, not stored: they are copied   *)
(* in order, so the byte at index i of the buffer is byte                  *)
(* blocks * Size + i of the input.  ClientSend composes it with its user.  *)
(***************************************************************************)
EXTENDS Integers

CONSTANTS
  Size,        \* buf_allocated
  Writes,      \* the lengths of writes
  MaxFed,      \* bound: bytes of all writes
  Ends,        \* values of the end bit that callers pass
  StackDepth   \* nested calls the C stack has room for

ASSUME FrameBufferAssumption ==
  /\ Size \in Nat \ {0} /\ Writes \subseteq Nat /\ MaxFed \in Nat
  /\ Ends \subseteq BOOLEAN
  /\ StackDepth \in Nat \ {0}

VARIABLES
  used,      \* buf_used
  active,    \* a call is running
  left,      \* end_ptr - incoming_ptr of the running write
  end,       \* its end bit
  depth,     \* calls of flush from write and of write from flush
  fed,       \* history: bytes copied in
  blocks,    \* history: callbacks made
  final,     \* history: the last call of a caller made a final callback
  flushed,   \* history: a caller has used mumble_buffer_flush
  crashed    \* the C stack overflowed

bufferVars == <<used, active, left, end, depth, fed, blocks, final, flushed, crashed>>

-------------------------------------------------------------------------------
\* mumble_buffer_create
BufferInit ==
  /\ used = 0 /\ active = FALSE /\ left = 0 /\ end = FALSE /\ depth = 0
  /\ fed = 0 /\ blocks = 0 /\ final = FALSE /\ flushed = FALSE /\ crashed = FALSE

\* mumble_buffer_write is called.
mumble_buffer_write(n, e) ==
  /\ ~active /\ ~crashed
  /\ n \in Writes /\ fed + n <= MaxFed
  /\ active' = TRUE /\ left' = n /\ end' = e /\ depth' = 0 /\ final' = FALSE
  /\ UNCHANGED <<used, fed, blocks, flushed, crashed>>

\* One round of its loop: copy what fits, call back when the block is full.
\* Faulty variant: the block is not emptied.
UsedKept(u) == u
UsedAfter(u) == IF u = Size THEN 0 ELSE u

Amount == IF left < Size - used THEN left ELSE Size - used

\* Faulty variant: the callback is made at the end of every write, too.
FillsOrEnds == used + Amount = Size \/ Amount = left
BlockDone == used + Amount = Size

\* final_write.  Faulty variant: compared before the pointer moves.
FinalBefore == end /\ left = 0
FinalWrite == end /\ left = Amount

CopyRound ==
  /\ active /\ ~crashed /\ left > 0
  /\ used' = UsedAfter(used + Amount)
  /\ left' = left - Amount
  /\ fed' = fed + Amount
  /\ IF BlockDone
       THEN /\ blocks' = blocks + 1
            /\ final' = (final \/ FinalWrite)
       ELSE UNCHANGED <<blocks, final>>
  /\ UNCHANGED <<active, end, depth, flushed, crashed>>

\* The test after the loop.  Faulty variant: an end bit always flushes.
FlushWheneverEnd == end
LeftOver == end /\ used > 0

WriteReturns ==
  /\ active /\ ~crashed /\ left = 0 /\ ~LeftOver
  /\ active' = FALSE
  /\ UNCHANGED <<used, left, end, depth, fed, blocks, final, flushed, crashed>>

\* mumble_buffer_flush pads the block and calls mumble_buffer_write(NULL, 0, 1):
\* no byte to copy, so no round of the loop, and the block is still full.
FlushFromWrite ==
  /\ active /\ ~crashed /\ left = 0 /\ LeftOver
  /\ used' = Size
  /\ left' = 0 /\ end' = TRUE
  /\ IF depth < StackDepth
       THEN depth' = depth + 1 /\ UNCHANGED crashed
       ELSE crashed' = TRUE /\ UNCHANGED depth
  /\ UNCHANGED <<active, fed, blocks, final, flushed>>

mumble_buffer_flush ==
  /\ TRUE \in Ends
  /\ ~active /\ ~crashed
  /\ active' = TRUE /\ left' = 0 /\ end' = TRUE /\ depth' = 1 /\ final' = FALSE
  /\ used' = Size
  /\ flushed' = TRUE
  /\ UNCHANGED <<fed, blocks, crashed>>

-------------------------------------------------------------------------------
\* Types; between calls the block always has room.
BufferTypeOK ==
  /\ used \in 0 .. Size /\ (~active => used < Size)
  /\ left \in 0 .. MaxFed /\ fed \in 0 .. MaxFed
  /\ blocks \in Nat /\ depth \in 0 .. StackDepth
  /\ {active, end, final, flushed, crashed} \subseteq BOOLEAN

\* Every byte written is in exactly one block handed to the callback, or still
\* in the buffer, until a flush pads it.
NothingLost == depth = 0 => fed = blocks * Size + used

\* The recursion of flush and write is entered only when an ending write leaves
\* a remainder, or a caller flushes.
CrashNeedsRemainder == crashed => fed % Size # 0 \/ flushed
===============================================================================
