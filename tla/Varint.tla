-------------------------------- MODULE Varint --------------------------------
(***************************************************************************)
(* The variable-length integers of lib/mumble/util.c: in voice packets the *)
(* sender, the sequence number and the payload's length follow each other, *)
(* in pings the time.                                                      *)
(*                                                                         *)
(* A uint64_t is its eight bytes, the most significant first.              *)
(* `buf[++position]' occurs several times in one expression; the compilers *)
(* of this build evaluate it from left to right, which is what the model   *)
(* does.                                                                   *)
(***************************************************************************)
EXTENDS Integers, Sequences

Byte   == 0 .. 255
UInt64 == [1 .. 8 -> Byte]

\* A number below 2^31, and whether a uint64_t is below another.
UInt(n) ==
  LET high == n \div 256
  IN  <<0, 0, 0, 0, (high \div 256) \div 256, (high \div 256) % 256, high % 256, n % 256>>
Below(a, b) == \E i \in 1 .. 8 : a[i] < b[i] /\ \A j \in 1 .. i - 1 : a[j] = b[j]

Complement(v) == [i \in 1 .. 8 |-> 255 - v[i]]

-------------------------------------------------------------------------------
(* Encoding.  The tests for negative numbers are never true of a uint64_t. *)
Clear(v, n) == \A i \in 1 .. n : v[i] = 0

\* The number is below the limit of the form of n bytes.
\* Faulty variant: the three-byte form is given a bit too many.
RoomOffByOne(v, n) ==
  \/ n = 1 /\ Clear(v, 7) /\ v[8] < 128
  \/ n = 2 /\ Clear(v, 6) /\ v[7] < 64
  \/ n = 3 /\ Clear(v, 5) /\ v[6] < 64
  \/ n = 4 /\ Clear(v, 4) /\ v[5] < 16
  \/ n = 5 /\ Clear(v, 4)
  \/ n = 9
Room(v, n) ==
  \/ n = 1 /\ Clear(v, 7) /\ v[8] < 128
  \/ n = 2 /\ Clear(v, 6) /\ v[7] < 64
  \/ n = 3 /\ Clear(v, 5) /\ v[6] < 32
  \/ n = 4 /\ Clear(v, 4) /\ v[5] < 16
  \/ n = 5 /\ Clear(v, 4)
  \/ n = 9

varint_encode_size(v) ==
  CHOOSE n \in {1, 2, 3, 4, 5, 9} : Room(v, n) /\ \A m \in {1, 2, 3, 4, 5, 9} : m < n => ~Room(v, m)

\* The bits that tell the forms apart, above the value's own in forms of up
\* to four bytes, in a byte of their own in the two others.
Marker == [n \in {1, 2, 3, 4, 5, 9} |->
             CASE n = 1 -> 0 [] n = 2 -> 128 [] n = 3 -> 192
               [] n = 4 -> 224 [] n = 5 -> 240 [] n = 9 -> 244]

varint_encode(v) ==
  LET n == varint_encode_size(v)
  IN  IF n <= 4 THEN [SubSeq(v, 9 - n, 8) EXCEPT ![1] = @ + Marker[n]]
                ELSE <<Marker[n]>> \o SubSeq(v, 10 - n, 8)

-------------------------------------------------------------------------------
(* Decoding: the bytes read and the value.  -1 bytes stand for a refusal,   *)
(* which is 0 in the code for an empty buffer (the callers assert more than *)
(* 0); 0 for a call that never returns.                                     *)
Padded(n, bytes) == [i \in 1 .. 8 |-> IF i <= 8 - n THEN 0 ELSE bytes[i - 8 + n]]

\* Four bytes shifted and joined as an int: widened with their sign.
SignExtended(bytes) ==
  [i \in 1 .. 8 |-> IF i > 4 THEN bytes[i - 4] ELSE IF bytes[1] >= 128 THEN 255 ELSE 0]

\* The nine-byte form joins four bytes of 64 bits with such an int.
Joined(bytes) ==
  [i \in 1 .. 8 |-> IF i <= 4 /\ bytes[5] >= 128 THEN 255 ELSE bytes[i]]

Decoded(n, v) == [read |-> n, value |-> v]

\* The forms of up to four bytes keep the value's top bits below their marker.
Short(b, n, limit) == Decoded(n, Padded(n, [SubSeq(b, 1, n) EXCEPT ![1] = @ % limit]))

varint_decode(b, size) ==
  LET none == Padded(0, <<>>)
  IN  CASE size = 0 -> Decoded(-1, none)
        [] size # 0 /\ b[1] < 128 -> Short(b, 1, 128)
        [] size # 0 /\ b[1] \in 128 .. 191 -> IF size < 2 THEN Decoded(-1, none) ELSE Short(b, 2, 64)
        [] size # 0 /\ b[1] \in 192 .. 223 -> Short(b, 3, 32)
        [] size # 0 /\ b[1] \in 224 .. 239 -> Short(b, 4, 16)
        [] size # 0 /\ b[1] \in 240 .. 243 -> Decoded(5, SignExtended(SubSeq(b, 2, 5)))
        [] size # 0 /\ b[1] \in 244 .. 247 -> Decoded(9, Joined(SubSeq(b, 2, 9)))
        [] size # 0 /\ b[1] \in 248 .. 251 -> Decoded(0, none)
        [] OTHER -> Decoded(1, Complement(Padded(1, <<b[1] % 4>>)))
===============================================================================
