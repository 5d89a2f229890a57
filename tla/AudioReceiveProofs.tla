-------------------------- MODULE AudioReceiveProofs --------------------------
(***************************************************************************)
(* Proofs about the receiving side: what varint_decode makes of the bytes  *)
(* of varint_encode, for every 64-bit number, and from it the properties   *)
(* of AudioReceive for every set of speakers, numbers and payloads.        *)
(***************************************************************************)
EXTENDS AudioReceive, SequenceTheorems, TLAPS

-------------------------------------------------------------------------------
(* The variable-length integers. *)
Forms == {1, 2, 3, 4, 5, 9}

\* The size of a number is the smallest form it has room in.
LEMMA SmallestForm ==
  ASSUME NEW v
  PROVE  /\ varint_encode_size(v) \in Forms
         /\ Room(v, varint_encode_size(v))
         /\ \A m \in Forms : m < varint_encode_size(v) => ~Room(v, m)
<1> DEFINE Fits(n) == Room(v, n) /\ \A m \in Forms : m < n => ~Room(v, m)
<1>1. \E n \in Forms : Fits(n)
  <2>1. Room(v, 9)
    BY DEF Room
  <2>2. /\ \A m \in Forms : ~(m < 1)
        /\ \A m \in Forms : m < 2 => m = 1
        /\ \A m \in Forms : m < 3 => m \in {1, 2}
        /\ \A m \in Forms : m < 4 => m \in {1, 2, 3}
        /\ \A m \in Forms : m < 5 => m \in {1, 2, 3, 4}
        /\ \A m \in Forms : m < 9 => m \in {1, 2, 3, 4, 5}
    BY DEF Forms
  <2>3. {1, 2, 3, 4, 5, 9} \subseteq Forms
    BY DEF Forms
  <2> QED
    BY <2>1, <2>2, <2>3, ZenonT(60)
<1>2. varint_encode_size(v) = CHOOSE n \in Forms : Fits(n)
  BY Zenon DEF varint_encode_size, Forms
<1> QED
  BY <1>1, <1>2, Zenon

\* A number is a sequence of eight bytes.
LEMMA NumberSeq ==
  ASSUME NEW v \in UInt64
  PROVE  v \in Seq(Byte) /\ Len(v) = 8 /\ \A i \in 1 .. 8 : v[i] \in Byte
<1>1. UInt64 = [1 .. 8 -> Byte] /\ 8 \in Nat
  BY DEF UInt64
<1>2. v \in Seq(Byte)
  BY <1>1, SeqDef
<1> QED
  BY <1>1, <1>2, LenProperties

\* The bytes of a number: the marker and the value's top bits, then the rest.
LEMMA EncodedBytes ==
  ASSUME NEW v \in UInt64, NEW n \in Forms, n = varint_encode_size(v)
  PROVE  /\ varint_encode(v) \in Seq(Byte)
         /\ Len(varint_encode(v)) = n
         /\ varint_encode(v)[1] = IF n <= 4 THEN v[9 - n] + Marker[n] ELSE Marker[n]
         /\ \A i \in 2 .. n : varint_encode(v)[i] = v[8 - n + i]
<1>1. \A i \in 1 .. 8 : v[i] \in 0 .. 255
  BY NumberSeq DEF Byte
<1>2. Marker[1] = 0 /\ Marker[2] = 128 /\ Marker[3] = 192 /\ Marker[4] = 224 /\ Marker[5] = 240 /\ Marker[9] = 244
  BY DEF Marker
<1>3. Room(v, n)
  BY SmallestForm
<1>4. CASE n <= 4
  <2>1. n \in {1, 2, 3, 4}
    BY <1>4 DEF Forms
  <2> DEFINE w == SubSeq(v, 9 - n, 8)
             x == v[9 - n] + Marker[n]
  <2>2. \A i \in 9 - n .. 8 : v[i] \in Byte
    BY <1>1, <2>1 DEF Byte
  <2>3. w \in Seq(Byte) /\ Len(w) = n /\ \A i \in 1 .. n : w[i] = v[8 - n + i]
    <3>1. 9 - n \in Int /\ 8 \in Int /\ 9 - n <= 8 /\ 8 - (9 - n) + 1 = n
      BY <2>1
    <3>2. \A i \in 1 .. n : (9 - n) + i - 1 = 8 - n + i
      BY <2>1
    <3> QED
      BY <2>2, <3>1, <3>2, SubSeqProperties
  <2>4. x \in Byte
    BY <1>1, <1>2, <1>3, <2>1, SMTT(60) DEF Room, Byte
  <2>5. varint_encode(v) = [w EXCEPT ![1] = x]
    <3>1. w[1] = v[9 - n]
      <4>1. 1 \in 1 .. n /\ 8 - n + 1 = 9 - n
        BY <2>1
      <4> QED
        BY <2>3, <4>1, Zenon
    <3> QED
      BY <1>4, <3>1, Zenon DEF varint_encode
  <2> HIDE DEF w, x
  <2>6. 1 \in 1 .. Len(w)
    BY <2>1, <2>3
  <2>7. /\ [w EXCEPT ![1] = x] \in Seq(Byte)
        /\ Len([w EXCEPT ![1] = x]) = n
        /\ \A j \in 1 .. n : [w EXCEPT ![1] = x][j] = IF j = 1 THEN x ELSE w[j]
    BY <2>3, <2>4, <2>6, ExceptSeq
  <2>8. \A i \in 2 .. n : i \in 1 .. n /\ i # 1
    BY <2>1
  <2>9. 1 \in 1 .. n
    BY <2>1
  <2> QED
    BY <1>4, <2>3, <2>5, <2>7, <2>8, <2>9, Zenon DEF x
<1>5. CASE ~(n <= 4)
  <2>1. n \in {5, 9}
    BY <1>5 DEF Forms
  <2> DEFINE w == SubSeq(v, 10 - n, 8)
             m == <<Marker[n]>>
  <2>2. \A i \in 10 - n .. 8 : v[i] \in Byte
    BY <1>1, <2>1 DEF Byte
  <2>3. w \in Seq(Byte) /\ Len(w) = n - 1 /\ \A i \in 1 .. n - 1 : w[i] = v[9 - n + i]
    <3>1. 10 - n \in Int /\ 8 \in Int /\ 10 - n <= 8 /\ 8 - (10 - n) + 1 = n - 1
      BY <2>1
    <3>2. \A i \in 1 .. n - 1 : (10 - n) + i - 1 = 9 - n + i
      BY <2>1
    <3> QED
      BY <2>2, <3>1, <3>2, SubSeqProperties
  <2>4. m \in Seq(Byte) /\ Len(m) = 1 /\ m[1] = Marker[n]
    <3>1. Marker[n] \in Byte
      BY <1>2, <2>1 DEF Byte
    <3> QED
      BY <3>1
  <2>5. varint_encode(v) = m \o w
    BY <1>5, Zenon DEF varint_encode
  <2> HIDE DEF w, m
  <2>6. /\ m \o w \in Seq(Byte)
        /\ Len(m \o w) = 1 + (n - 1)
        /\ \A i \in 1 .. 1 + (n - 1) : (m \o w)[i] = IF i <= 1 THEN m[i] ELSE w[i - 1]
    BY <2>3, <2>4, ConcatProperties, SMTT(60)
  <2>7. 1 + (n - 1) = n
    BY <2>1
  <2>8. \A i \in 2 .. n : i \in 1 .. n /\ ~(i <= 1) /\ i - 1 \in 1 .. n - 1 /\ 9 - n + (i - 1) = 8 - n + i
    BY <2>1
  <2>9. 1 \in 1 .. n /\ 1 <= 1
    BY <2>1
  <2> DEFINE e == m \o w
  <2>10. e \in Seq(Byte) /\ Len(e) = n /\ \A i \in 1 .. n : e[i] = IF i <= 1 THEN m[i] ELSE w[i - 1]
    BY <2>6, <2>7, Zenon
  <2>11. varint_encode(v) = e
    BY <2>5, Zenon
  <2> HIDE DEF e
  <2>12. e[1] = Marker[n]
    BY <2>4, <2>9, <2>10, Zenon
  <2>13. \A i \in 2 .. n : e[i] = w[i - 1]
    BY <2>8, <2>10, Zenon
  <2>14. \A i \in 2 .. n : e[i] = v[8 - n + i]
    BY <2>3, <2>8, <2>13, ZenonT(60)
  <2> QED
    BY <1>5, <2>10, <2>11, <2>12, <2>14, Zenon
<1> QED
  BY <1>4, <1>5

-------------------------------------------------------------------------------
\* What comes back of a number: the upper half of one with five bytes or more
\* and bit 31 is overwritten with the sign.
ReadBack(v) ==
  [i \in 1 .. 8 |-> IF i <= 4 /\ varint_encode_size(v) >= 5 /\ v[5] >= 128 THEN 255 ELSE v[i]]

\* The short forms: the top bits, freed of the marker, and the bytes behind them.
LEMMA ShortForm ==
  ASSUME NEW v \in UInt64, NEW b \in Seq(Byte), Len(b) = 9,
         NEW n \in {1, 2, 3, 4}, NEW limit \in Nat \ {0}, Clear(v, 8 - n),
         b[1] % limit = v[9 - n], \A i \in 2 .. n : b[i] = v[8 - n + i]
  PROVE  Short(b, n, limit) = Decoded(n, v)
<1> DEFINE w == SubSeq(b, 1, n)
           u == [w EXCEPT ![1] = w[1] % limit]
<1>1. \A i \in 1 .. 9 : b[i] \in Byte
  BY ElementOfSeq
<1>2. w \in Seq(Byte) /\ Len(w) = n /\ \A i \in 1 .. n : w[i] = b[i]
  <2>1. 1 \in Int /\ n \in Int /\ 1 <= n /\ n - 1 + 1 = n
    OBVIOUS
  <2>2. \A i \in 1 .. n : i \in 1 .. 9 /\ 1 + i - 1 = i
    OBVIOUS
  <2> QED
    BY <1>1, <2>1, <2>2, SubSeqProperties, SMTT(60)
<1> HIDE DEF w
<1>3. w[1] % limit = v[9 - n] /\ v[9 - n] \in Byte
  <2>1. 1 \in 1 .. n
    OBVIOUS
  <2>2. w[1] = b[1]
    BY <1>2, <2>1, Zenon
  <2>3. 9 - n \in 1 .. 8
    OBVIOUS
  <2>4. v[9 - n] \in Byte
    BY <2>3, NumberSeq
  <2> QED
    BY <2>2, <2>4, Zenon
<1>4. \A i \in 1 .. n : u[i] = IF i = 1 THEN v[9 - n] ELSE b[i]
  <2>1. 1 \in 1 .. Len(w)
    BY <1>2
  <2>2. w[1] % limit \in Byte
    BY <1>3, Zenon
  <2>3. \A i \in 1 .. Len(w) : u[i] = IF i = 1 THEN w[1] % limit ELSE w[i]
    BY <1>2, <2>1, <2>2, ExceptSeq
  <2> QED
    BY <1>2, <1>3, <2>3, ZenonT(60)
<1>5. \A i \in 1 .. n : u[i] = v[8 - n + i]
  <2>1. 8 - n + 1 = 9 - n /\ \A i \in 1 .. n : i = 1 \/ i \in 2 .. n
    OBVIOUS
  <2> QED
    BY <1>4, <2>1, Zenon
<1> HIDE DEF u
<1>6. \A i \in 1 .. 8 : Padded(n, u)[i] = v[i]
  <2> TAKE i \in 1 .. 8
  <2>1. CASE i <= 8 - n
    <3>1. i \in 1 .. 8 - n
      BY <2>1
    <3>2. v[i] = 0
      BY <3>1 DEF Clear
    <3> QED
      BY <2>1, <3>2 DEF Padded
  <2>2. CASE ~(i <= 8 - n)
    <3>1. i - 8 + n \in 1 .. n /\ 8 - n + (i - 8 + n) = i
      BY <2>2
    <3>2. u[i - 8 + n] = v[i]
      BY <1>5, <3>1, Zenon
    <3> QED
      BY <2>2, <3>2 DEF Padded
  <2> QED
    BY <2>1, <2>2
<1>7. Padded(n, u) = v
  <2>1. v = [i \in 1 .. 8 |-> v[i]]
    BY DEF UInt64
  <2>2. Padded(n, u) = [i \in 1 .. 8 |-> Padded(n, u)[i]]
    BY DEF Padded
  <2> QED
    BY <1>6, <2>1, <2>2
<1> QED
  BY <1>7, Zenon DEF Short, u, w

\* What the number's form says of its top byte.
LEMMA RoomTop ==
  ASSUME NEW v
  PROVE  /\ Room(v, 1) => Clear(v, 7) /\ v[8] < 128
         /\ Room(v, 2) => Clear(v, 6) /\ v[7] < 64
         /\ Room(v, 3) => Clear(v, 5) /\ v[6] < 32
         /\ Room(v, 4) => Clear(v, 4) /\ v[5] < 16
         /\ Room(v, 5) => Clear(v, 4)
<1>1. 1 # 2 /\ 1 # 3 /\ 1 # 4 /\ 1 # 5 /\ 1 # 9 /\ 2 # 3 /\ 2 # 4 /\ 2 # 5 /\ 2 # 9
      /\ 3 # 4 /\ 3 # 5 /\ 3 # 9 /\ 4 # 5 /\ 4 # 9 /\ 5 # 9
  OBVIOUS
<1> QED
  BY <1>1, Zenon DEF Room

\* The first byte selects the form.
LEMMA FormSelected ==
  ASSUME NEW b, NEW size \in Int, b[1] \in Byte
  PROVE  /\ size = 0 => varint_decode(b, size) = Decoded(-1, Padded(0, <<>>))
         /\ size # 0 /\ b[1] < 128 => varint_decode(b, size) = Short(b, 1, 128)
         /\ size # 0 /\ b[1] \in 128 .. 191 /\ size < 2 => varint_decode(b, size) = Decoded(-1, Padded(0, <<>>))
         /\ size # 0 /\ b[1] \in 128 .. 191 /\ size >= 2 => varint_decode(b, size) = Short(b, 2, 64)
         /\ size # 0 /\ b[1] \in 192 .. 223 => varint_decode(b, size) = Short(b, 3, 32)
         /\ size # 0 /\ b[1] \in 224 .. 239 => varint_decode(b, size) = Short(b, 4, 16)
         /\ size # 0 /\ b[1] \in 240 .. 243 => varint_decode(b, size) = Decoded(5, SignExtended(SubSeq(b, 2, 5)))
         /\ size # 0 /\ b[1] \in 244 .. 247 => varint_decode(b, size) = Decoded(9, Joined(SubSeq(b, 2, 9)))
         /\ size # 0 /\ b[1] \in 248 .. 251 => varint_decode(b, size) = Decoded(0, Padded(0, <<>>))
         /\ size # 0 /\ b[1] \in 252 .. 255 => varint_decode(b, size) = Decoded(1, Complement(Padded(1, <<b[1] % 4>>)))
<1> DEFINE refused == Decoded(-1, Padded(0, <<>>))
           form1 == Short(b, 1, 128)
           form2 == Short(b, 2, 64)
           form3 == Short(b, 3, 32)
           form4 == Short(b, 4, 16)
           form5 == Decoded(5, SignExtended(SubSeq(b, 2, 5)))
           form9 == Decoded(9, Joined(SubSeq(b, 2, 9)))
           hung  == Decoded(0, Padded(0, <<>>))
           small == Decoded(1, Complement(Padded(1, <<b[1] % 4>>)))
<1>1. varint_decode(b, size) =
        CASE size = 0 -> refused
          [] size # 0 /\ b[1] < 128 -> form1
          [] size # 0 /\ b[1] \in 128 .. 191 -> IF size < 2 THEN refused ELSE form2
          [] size # 0 /\ b[1] \in 192 .. 223 -> form3
          [] size # 0 /\ b[1] \in 224 .. 239 -> form4
          [] size # 0 /\ b[1] \in 240 .. 243 -> form5
          [] size # 0 /\ b[1] \in 244 .. 247 -> form9
          [] size # 0 /\ b[1] \in 248 .. 251 -> hung
          [] OTHER -> small
  BY Zenon DEF varint_decode
<1> DEFINE x == b[1]
<1> HIDE DEF refused, form1, form2, form3, form4, form5, form9, hung, small
<1>2. x \in 0 .. 255
  BY DEF Byte
<1>3. varint_decode(b, size) =
        CASE size = 0 -> refused
          [] size # 0 /\ x < 128 -> form1
          [] size # 0 /\ x \in 128 .. 191 -> IF size < 2 THEN refused ELSE form2
          [] size # 0 /\ x \in 192 .. 223 -> form3
          [] size # 0 /\ x \in 224 .. 239 -> form4
          [] size # 0 /\ x \in 240 .. 243 -> form5
          [] size # 0 /\ x \in 244 .. 247 -> form9
          [] size # 0 /\ x \in 248 .. 251 -> hung
          [] OTHER -> small
  BY <1>1, Zenon
<1> HIDE DEF x
<1>4. /\ size = 0 => varint_decode(b, size) = refused
      /\ size # 0 /\ x < 128 => varint_decode(b, size) = form1
      /\ size # 0 /\ x \in 128 .. 191 /\ size < 2 => varint_decode(b, size) = refused
      /\ size # 0 /\ x \in 128 .. 191 /\ size >= 2 => varint_decode(b, size) = form2
      /\ size # 0 /\ x \in 192 .. 223 => varint_decode(b, size) = form3
      /\ size # 0 /\ x \in 224 .. 239 => varint_decode(b, size) = form4
      /\ size # 0 /\ x \in 240 .. 243 => varint_decode(b, size) = form5
      /\ size # 0 /\ x \in 244 .. 247 => varint_decode(b, size) = form9
      /\ size # 0 /\ x \in 248 .. 251 => varint_decode(b, size) = hung
      /\ size # 0 /\ x \in 252 .. 255 => varint_decode(b, size) = small
  BY <1>2, <1>3
<1> QED
  BY <1>4, Zenon DEF refused, form1, form2, form3, form4, form5, form9, hung, small, x

\* Two of these cases once more, by themselves.
LEMMA MiddleForms ==
  ASSUME NEW b, NEW size \in Int, b[1] \in Byte
  PROVE  /\ size # 0 /\ b[1] \in 128 .. 191 /\ size >= 2 => varint_decode(b, size) = Short(b, 2, 64)
         /\ size # 0 /\ b[1] \in 192 .. 223 => varint_decode(b, size) = Short(b, 3, 32)
BY FormSelected, ZenonT(60)

\* A buffer that begins with the bytes of a number is read as that number, as far
\* as the sign lets it, and no further than it was written.
LEMMA DecodesEncoded ==
  ASSUME NEW v \in UInt64, NEW b \in Seq(Byte), Len(b) = 9,
         NEW size \in Int, size >= varint_encode_size(v),
         \A i \in 1 .. varint_encode_size(v) : b[i] = varint_encode(v)[i]
  PROVE  varint_decode(b, size) = Decoded(varint_encode_size(v), ReadBack(v))
<1> DEFINE n == varint_encode_size(v)
<1>1. n \in Forms /\ Room(v, n)
  BY SmallestForm
<1>2. /\ \A i \in 1 .. 8 : v[i] \in 0 .. 255
      /\ \A i \in 1 .. 9 : b[i] \in Byte
  BY NumberSeq, ElementOfSeq, ZenonT(60) DEF Byte
<1>3. /\ b[1] = IF n <= 4 THEN v[9 - n] + Marker[n] ELSE Marker[n]
      /\ \A i \in 2 .. n : b[i] = v[8 - n + i]
  <2>1. /\ varint_encode(v)[1] = IF n <= 4 THEN v[9 - n] + Marker[n] ELSE Marker[n]
        /\ \A i \in 2 .. n : varint_encode(v)[i] = v[8 - n + i]
    BY <1>1, EncodedBytes
  <2>2. 1 \in 1 .. n /\ \A i \in 2 .. n : i \in 1 .. n
    BY <1>1 DEF Forms
  <2> QED
    BY <2>1, <2>2, Zenon
<1>4. Marker[1] = 0 /\ Marker[2] = 128 /\ Marker[3] = 192 /\ Marker[4] = 224 /\ Marker[5] = 240 /\ Marker[9] = 244
  BY DEF Marker
<1>5. v = [i \in 1 .. 8 |-> v[i]]
  BY DEF UInt64
<1>6. n >= 5 \/ ReadBack(v) = v
  <2>1. n \in Int
    BY <1>1 DEF Forms
  <2>2. CASE ~(n >= 5)
    <3>1. ReadBack(v) = [i \in 1 .. 8 |-> v[i]]
      BY <2>2, Zenon DEF ReadBack
    <3> QED
      BY <1>5, <3>1, Zenon
  <2> QED
    BY <2>2
<1>7. n >= 5 => ReadBack(v) = [i \in 1 .. 8 |-> IF i <= 4 /\ v[5] >= 128 THEN 255 ELSE v[i]]
  BY Zenon DEF ReadBack
<1> HIDE DEF n
<1>8. CASE n \in {1, 2, 3, 4}
  <2>1. Clear(v, 8 - n)
    BY <1>1, <1>8 DEF Room
  <2>2. ReadBack(v) = v /\ {5, 6, 7, 8} \subseteq 1 .. 8
    BY <1>6, <1>8
  <2>3. CASE n = 1
    <3> DEFINE t == v[8]
    <3>1. t \in Nat
      <4>1. t \in 0 .. 255
        BY <1>2
      <4> HIDE DEF t
      <4> QED
        BY <4>1
    <3>2. t < 128
      BY <1>1, <2>3, RoomTop, ZenonT(60)
    <3>3. b[1] = v[9 - 1] + 0 /\ 9 - 1 = 8
      BY <1>3, <1>4, <2>3
    <3> HIDE DEF t
    <3>4. b[1] = t
      BY <3>1, <3>3 DEF t
    <3>5. size # 0
      BY <2>3 DEF n
    <3>6. b[1] \in Byte /\ b[1] < 128
      BY <3>1, <3>2, <3>4 DEF Byte
    <3>7. varint_decode(b, size) = Short(b, 1, 128)
      BY <3>5, <3>6, FormSelected, Zenon
    <3>8. b[1] % 128 = v[9 - 1]
      <4>1. t % 128 = t
        BY <3>1, <3>2
      <4> QED
        BY <3>3, <3>4, <4>1, Zenon DEF t
    <3>9. Short(b, 1, 128) = Decoded(1, v)
      BY <1>3, <2>1, <2>3, <3>8, ShortForm
    <3> QED
      BY <2>2, <2>3, <3>7, <3>9, Zenon DEF n
  <2>4. CASE n = 2
    <3> DEFINE t == v[7]
    <3>1. t \in Nat
      <4>1. t \in 0 .. 255
        BY <1>2
      <4> HIDE DEF t
      <4> QED
        BY <4>1
    <3>2. t < 64
      BY <1>1, <2>4, RoomTop, Zenon
    <3>3. b[1] = v[9 - 2] + 128 /\ 9 - 2 = 7
      BY <1>3, <1>4, <2>4
    <3> HIDE DEF t
    <3>4. b[1] = t + 128
      BY <3>1, <3>3 DEF t
    <3>5. size # 0 /\ size >= 2
      BY <2>4 DEF n
    <3>6. b[1] \in Byte /\ b[1] \in 128 .. 191
      BY <3>1, <3>2, <3>4 DEF Byte
    <3>7. varint_decode(b, size) = Short(b, 2, 64)
      BY <3>5, <3>6, MiddleForms, Zenon
    <3>8. b[1] % 64 = v[9 - 2]
      <4>1. (t + 128) % 64 = t
        BY <3>1, <3>2
      <4> QED
        BY <3>3, <3>4, <4>1, Zenon DEF t
    <3>9. Short(b, 2, 64) = Decoded(2, v)
      BY <1>3, <2>1, <2>4, <3>8, ShortForm
    <3> QED
      BY <2>2, <2>4, <3>7, <3>9, Zenon DEF n
  <2>5. CASE n = 3
    <3> DEFINE t == v[6]
    <3>1. t \in Nat
      <4>1. t \in 0 .. 255
        BY <1>2
      <4> HIDE DEF t
      <4> QED
        BY <4>1
    <3>2. t < 32
      BY <1>1, <2>5, RoomTop, Zenon
    <3>3. b[1] = v[9 - 3] + 192 /\ 9 - 3 = 6
      BY <1>3, <1>4, <2>5
    <3> HIDE DEF t
    <3>4. b[1] = t + 192
      BY <3>1, <3>3 DEF t
    <3>5. size # 0
      BY <2>5 DEF n
    <3>6. b[1] \in Byte /\ b[1] \in 192 .. 223
      BY <3>1, <3>2, <3>4 DEF Byte
    <3>7. varint_decode(b, size) = Short(b, 3, 32)
      BY <3>5, <3>6, MiddleForms, ZenonT(60)
    <3>8. b[1] % 32 = v[9 - 3]
      <4>1. (t + 192) % 32 = t
        BY <3>1, <3>2
      <4> QED
        BY <3>3, <3>4, <4>1, Zenon DEF t
    <3>9. Short(b, 3, 32) = Decoded(3, v)
      BY <1>3, <2>1, <2>5, <3>8, ShortForm
    <3> QED
      BY <2>2, <2>5, <3>7, <3>9, Zenon DEF n
  <2>6. CASE n = 4
    <3> DEFINE t == v[5]
    <3>1. t \in Nat
      <4>1. t \in 0 .. 255
        BY <1>2
      <4> HIDE DEF t
      <4> QED
        BY <4>1
    <3>2. t < 16
      BY <1>1, <2>6, RoomTop, Zenon
    <3>3. b[1] = v[9 - 4] + 224 /\ 9 - 4 = 5
      BY <1>3, <1>4, <2>6
    <3> HIDE DEF t
    <3>4. b[1] = t + 224
      BY <3>1, <3>3 DEF t
    <3>5. size # 0
      BY <2>6 DEF n
    <3>6. b[1] \in Byte /\ b[1] \in 224 .. 239
      BY <3>1, <3>2, <3>4 DEF Byte
    <3>7. varint_decode(b, size) = Short(b, 4, 16)
      BY <3>5, <3>6, FormSelected, ZenonT(60)
    <3>8. b[1] % 16 = v[9 - 4]
      <4>1. (t + 224) % 16 = t
        BY <3>1, <3>2
      <4> QED
        BY <3>3, <3>4, <4>1, Zenon DEF t
    <3>9. Short(b, 4, 16) = Decoded(4, v)
      BY <1>3, <2>1, <2>6, <3>8, ShortForm
    <3> QED
      BY <2>2, <2>6, <3>7, <3>9, Zenon DEF n
  <2> QED
    BY <1>8, <2>3, <2>4, <2>5, <2>6
<1>9. CASE n = 5
  <2>1. Clear(v, 4) /\ b[1] = 240 /\ size # 0
    BY <1>1, <1>3, <1>4, <1>9 DEF Room, n
  <2> DEFINE w == SubSeq(b, 2, 5)
  <2>2. \A i \in 1 .. 4 : w[i] = v[4 + i]
    <3>1. \A i \in 2 .. 5 : b[i] \in Byte
      BY <1>2
    <3>2. \A i \in 1 .. 5 - 2 + 1 : w[i] = b[2 + i - 1]
      BY <3>1, SubSeqProperties
    <3>3. \A i \in 1 .. 4 : i \in 1 .. 5 - 2 + 1 /\ 2 + i - 1 = i + 1 /\ i + 1 \in 2 .. 5 /\ 8 - 5 + (i + 1) = 4 + i
      OBVIOUS
    <3>4. \A i \in 2 .. 5 : b[i] = v[8 - 5 + i]
      BY <1>3, <1>9, Zenon
    <3> TAKE i \in 1 .. 4
    <3>5. w[i] = b[2 + i - 1]
      BY <3>2, <3>3, Zenon
    <3>6. b[i + 1] = v[8 - 5 + (i + 1)]
      BY <3>3, <3>4, Zenon
    <3> QED
      BY <3>3, <3>5, <3>6, Zenon
  <2>3. varint_decode(b, size) = Decoded(5, SignExtended(w))
    <3>1. b[1] \in Byte /\ b[1] \in 240 .. 243
      BY <2>1 DEF Byte
    <3> QED
      BY <2>1, <3>1, FormSelected, Zenon
  <2> HIDE DEF w
  <2>4. SignExtended(w) = [i \in 1 .. 8 |-> IF i <= 4 /\ v[5] >= 128 THEN 255 ELSE v[i]]
    <3>1. \A i \in 1 .. 4 : v[i] = 0
      BY <2>1 DEF Clear
    <3>2. w[1] = v[5]
      BY <2>2
    <3>3. \A i \in 1 .. 8 : i > 4 => w[i - 4] = v[i]
      BY <2>2
    <3>4. \A i \in 1 .. 8 : (IF i > 4 THEN w[i - 4] ELSE IF w[1] >= 128 THEN 255 ELSE 0)
                              = (IF i <= 4 /\ v[5] >= 128 THEN 255 ELSE v[i])
      BY <3>1, <3>2, <3>3
    <3> QED
      BY <3>4, ZenonT(60) DEF SignExtended
  <2> QED
    BY <1>7, <1>9, <2>3, <2>4, SMTT(60) DEF n
<1>10. CASE n = 9
  <2>1. b[1] = 244 /\ size # 0
    BY <1>1, <1>3, <1>4, <1>10 DEF n
  <2> DEFINE w == SubSeq(b, 2, 9)
  <2>2. \A i \in 1 .. 8 : w[i] = v[i]
    <3>1. \A i \in 2 .. 9 : b[i] \in Byte
      BY <1>2
    <3>2. \A i \in 1 .. 9 - 2 + 1 : w[i] = b[2 + i - 1]
      BY <3>1, SubSeqProperties
    <3>3. \A i \in 1 .. 8 : i \in 1 .. 9 - 2 + 1 /\ 2 + i - 1 = i + 1 /\ i + 1 \in 2 .. 9 /\ 8 - 9 + (i + 1) = i
      OBVIOUS
    <3>4. \A i \in 2 .. 9 : b[i] = v[8 - 9 + i]
      BY <1>3, <1>10, Zenon
    <3> TAKE i \in 1 .. 8
    <3>5. w[i] = b[2 + i - 1]
      BY <3>2, <3>3, Zenon
    <3>6. b[i + 1] = v[8 - 9 + (i + 1)]
      BY <3>3, <3>4, Zenon
    <3> QED
      BY <3>3, <3>5, <3>6, Zenon
  <2>3. varint_decode(b, size) = Decoded(9, Joined(w))
    <3>1. b[1] \in Byte /\ b[1] \in 244 .. 247
      BY <2>1 DEF Byte
    <3> QED
      BY <2>1, <3>1, FormSelected, Zenon
  <2> HIDE DEF w
  <2>4. Joined(w) = [i \in 1 .. 8 |-> IF i <= 4 /\ v[5] >= 128 THEN 255 ELSE v[i]]
    BY <2>2 DEF Joined
  <2>5. ReadBack(v) = Joined(w)
    <3>1. n >= 5
      BY <1>10
    <3> QED
      BY <1>7, <2>4, <3>1, Zenon
  <2> QED
    BY <1>10, <2>3, <2>5, Zenon DEF n
<1> QED
  BY <1>1, <1>8, <1>9, <1>10 DEF Forms

\* Whatever the bytes are: how many were read, and a 64-bit number.
Reads == {-1, 0, 1, 2, 3, 4, 5, 9}

\* The bytes of a short form, padded, are a number.
LEMMA PaddedType ==
  ASSUME NEW n \in 0 .. 4, NEW w, \A i \in 1 .. n : w[i] \in Byte
  PROVE  Padded(n, w) \in UInt64
<1>1. ASSUME NEW i \in 1 .. 8
      PROVE  (IF i <= 8 - n THEN 0 ELSE w[i - 8 + n]) \in Byte
  <2>1. CASE i <= 8 - n
    BY <2>1 DEF Byte
  <2>2. CASE ~(i <= 8 - n)
    <3>1. i - 8 + n \in 1 .. n
      BY <2>2
    <3> QED
      BY <2>2, <3>1, Zenon
  <2> QED
    BY <2>1, <2>2
<1> QED
  BY <1>1 DEF Padded, UInt64

\* A short form gives a number and its own length.
LEMMA ShortType ==
  ASSUME NEW b \in Seq(Byte), Len(b) = 9, NEW n \in {1, 2, 3, 4}, NEW limit \in 1 .. 128
  PROVE  Short(b, n, limit).read = n /\ Short(b, n, limit).value \in UInt64
<1> DEFINE w == SubSeq(b, 1, n)
           x == w[1] % limit
           u == [w EXCEPT ![1] = x]
<1>1. \A i \in 1 .. 9 : b[i] \in Byte
  BY ElementOfSeq
<1>2. w \in Seq(Byte) /\ Len(w) = n /\ \A i \in 1 .. n : w[i] \in Byte
  <2>1. 1 \in Int /\ n \in Int /\ 1 <= n /\ n - 1 + 1 = n
    OBVIOUS
  <2>2. \A i \in 1 .. n : i \in 1 .. 9
    OBVIOUS
  <2>3. w \in Seq(Byte) /\ Len(w) = n
    BY <1>1, <2>1, <2>2, SubSeqProperties
  <2> QED
    BY <2>3, ElementOfSeq
<1> HIDE DEF w
<1>3. x \in Byte
  <2> DEFINE y == w[1]
  <2>1. y \in 0 .. 255
    BY <1>2 DEF Byte
  <2> HIDE DEF y
  <2>2. y % limit \in 0 .. 255
    BY <2>1
  <2> QED
    BY <2>2 DEF Byte, y
<1> HIDE DEF x
<1>4. \A i \in 1 .. n : u[i] \in Byte
  <2>1. 1 \in 1 .. Len(w)
    BY <1>2
  <2>2. \A i \in 1 .. Len(w) : u[i] = IF i = 1 THEN x ELSE w[i]
    BY <1>2, <1>3, <2>1, ExceptSeq
  <2>3. \A i \in 1 .. n : u[i] = IF i = 1 THEN x ELSE w[i]
    BY <1>2, <2>2, Zenon
  <2> HIDE DEF u
  <2> TAKE i \in 1 .. n
  <2>4. u[i] = x \/ u[i] = w[i]
    BY <2>3, Zenon
  <2> QED
    BY <1>2, <1>3, <2>4, Zenon
<1> HIDE DEF u
<1>5. Padded(n, u) \in UInt64
  <2>1. n \in 0 .. 4
    OBVIOUS
  <2> QED
    BY <1>4, <2>1, PaddedType
<1>6. Short(b, n, limit) = Decoded(n, Padded(n, u))
  BY Zenon DEF Short, u, x, w
<1> QED
  BY <1>5, <1>6 DEF Decoded

\* Whatever the bytes, varint_decode gives a number and one of a few lengths.
LEMMA DecodedType ==
  ASSUME NEW b \in Seq(Byte), Len(b) = 9, NEW size \in Int
  PROVE  varint_decode(b, size).read \in Reads /\ varint_decode(b, size).value \in UInt64
<1> DEFINE d == varint_decode(b, size)
<1>1. \A i \in 1 .. 9 : b[i] \in Byte
  BY ElementOfSeq
<1>2. b[1] \in Byte
  BY <1>1
<1>3. \A n, v : n \in Reads /\ v \in UInt64 => Decoded(n, v).read \in Reads /\ Decoded(n, v).value \in UInt64
  BY DEF Decoded
<1>4. {-1, 0, 1, 2, 3, 4, 5, 9} \subseteq Reads
  BY DEF Reads
<1>5. Padded(0, <<>>) \in UInt64
  BY PaddedType
<1>6. \/ size = 0
      \/ size # 0 /\ b[1] < 128
      \/ size # 0 /\ b[1] \in 128 .. 191 /\ size < 2
      \/ size # 0 /\ b[1] \in 128 .. 191 /\ size >= 2
      \/ size # 0 /\ b[1] \in 192 .. 223
      \/ size # 0 /\ b[1] \in 224 .. 239
      \/ size # 0 /\ b[1] \in 240 .. 243
      \/ size # 0 /\ b[1] \in 244 .. 247
      \/ size # 0 /\ b[1] \in 248 .. 251
      \/ size # 0 /\ b[1] \in 252 .. 255
  <2> DEFINE x == b[1]
  <2>1. x \in 0 .. 255
    BY <1>2 DEF Byte
  <2> HIDE DEF x
  <2>2. \/ size = 0
        \/ size # 0 /\ x < 128
        \/ size # 0 /\ x \in 128 .. 191 /\ size < 2
        \/ size # 0 /\ x \in 128 .. 191 /\ size >= 2
        \/ size # 0 /\ x \in 192 .. 223
        \/ size # 0 /\ x \in 224 .. 239
        \/ size # 0 /\ x \in 240 .. 243
        \/ size # 0 /\ x \in 244 .. 247
        \/ size # 0 /\ x \in 248 .. 251
        \/ size # 0 /\ x \in 252 .. 255
    BY <2>1
  <2> QED
    BY <2>2, Zenon DEF x
<1>7. \/ d = Decoded(-1, Padded(0, <<>>)) \/ d = Decoded(0, Padded(0, <<>>))
      \/ d = Short(b, 1, 128) \/ d = Short(b, 2, 64) \/ d = Short(b, 3, 32) \/ d = Short(b, 4, 16)
      \/ d = Decoded(5, SignExtended(SubSeq(b, 2, 5))) \/ d = Decoded(9, Joined(SubSeq(b, 2, 9)))
      \/ d = Decoded(1, Complement(Padded(1, <<b[1] % 4>>)))
  BY <1>2, <1>6, FormSelected, ZenonT(60)
<1> HIDE DEF d
<1>8. CASE d = Decoded(-1, Padded(0, <<>>)) \/ d = Decoded(0, Padded(0, <<>>))
  BY <1>3, <1>4, <1>5, <1>8, Zenon DEF d
<1>9. CASE d = Short(b, 1, 128) \/ d = Short(b, 2, 64) \/ d = Short(b, 3, 32) \/ d = Short(b, 4, 16)
  <2>1. PICK n \in {1, 2, 3, 4}, limit \in 1 .. 128 : d = Short(b, n, limit)
    BY <1>9
  <2>2. d.read = n /\ d.value \in UInt64
    BY <2>1, ShortType
  <2>3. n \in Reads
    BY <1>4
  <2> QED
    BY <2>2, <2>3 DEF d
<1>10. CASE d = Decoded(5, SignExtended(SubSeq(b, 2, 5)))
  <2> DEFINE w == SubSeq(b, 2, 5)
  <2>1. \A i \in 2 .. 5 : b[i] \in Byte
    BY <1>1
  <2>2. w \in Seq(Byte) /\ Len(w) = 4
    BY <2>1, SubSeqProperties
  <2>3. \A i \in 1 .. 4 : w[i] \in Byte
    BY <2>2, ElementOfSeq
  <2> HIDE DEF w
  <2>4. SignExtended(w) \in UInt64
    <3>1. \A i \in 1 .. 8 : i > 4 => w[i - 4] \in Byte
      BY <2>3
    <3>2. 255 \in Byte /\ 0 \in Byte
      BY DEF Byte
    <3> QED
      BY <3>1, <3>2, ZenonT(60) DEF SignExtended, UInt64
  <2> QED
    BY <1>3, <1>4, <1>10, <2>4, Zenon DEF d, w
<1>11. CASE d = Decoded(9, Joined(SubSeq(b, 2, 9)))
  <2> DEFINE w == SubSeq(b, 2, 9)
  <2>1. \A i \in 2 .. 9 : b[i] \in Byte
    BY <1>1
  <2>2. w \in Seq(Byte) /\ Len(w) = 8
    BY <2>1, SubSeqProperties
  <2>3. \A i \in 1 .. 8 : w[i] \in Byte
    BY <2>2, ElementOfSeq
  <2> HIDE DEF w
  <2>4. Joined(w) \in UInt64
    <3>1. 255 \in Byte
      BY DEF Byte
    <3> QED
      BY <2>3, <3>1, ZenonT(60) DEF Joined, UInt64
  <2> QED
    BY <1>3, <1>4, <1>11, <2>4, Zenon DEF d, w
<1>12. CASE d = Decoded(1, Complement(Padded(1, <<b[1] % 4>>)))
  <2> DEFINE x == b[1] % 4
             p == Padded(1, <<x>>)
  <2>1. x \in Byte
    <3> DEFINE y == b[1]
    <3>1. y \in 0 .. 255
      BY <1>2 DEF Byte
    <3> HIDE DEF y
    <3>2. y % 4 \in 0 .. 255
      BY <3>1
    <3> QED
      BY <3>2 DEF Byte, y
  <2> HIDE DEF x
  <2>2. p \in UInt64
    <3>1. \A i \in 1 .. 1 : <<x>>[i] \in Byte
      BY <2>1
    <3> QED
      BY <3>1, PaddedType
  <2> HIDE DEF p
  <2>3. Complement(p) \in UInt64
    <3>1. \A i \in 1 .. 8 : p[i] \in 0 .. 255
      BY <2>2, NumberSeq DEF Byte
    <3>2. \A i \in 1 .. 8 : 255 - p[i] \in Byte
      <4>1. \A y \in 0 .. 255 : 255 - y \in Byte
        BY DEF Byte
      <4> QED
        BY <3>1, <4>1, Zenon
    <3> QED
      BY <3>2, Zenon DEF Complement, UInt64
  <2> QED
    BY <1>3, <1>4, <1>12, <2>3, Zenon DEF d, p, x
<1> QED
  BY <1>7, <1>8, <1>9, <1>10, <1>11, <1>12, Zenon

-------------------------------------------------------------------------------
(* The order of the numbers. *)

\* The order of the bytes.
LEMMA ByteOrder ==
  /\ \A x, y \in 0 .. 255 : x # y => x < y \/ y < x
  /\ \A x \in 0 .. 255 : ~(x < x) /\ ~(x < 0)
  /\ \A x, y, z \in 0 .. 255 : x < y /\ y < z => x < z
<1>1. ASSUME NEW x \in 0 .. 255, NEW y \in 0 .. 255, x # y
      PROVE  x < y \/ y < x
  BY <1>1
<1>2. ASSUME NEW x \in 0 .. 255
      PROVE  ~(x < x) /\ ~(x < 0)
  OBVIOUS
<1>3. ASSUME NEW x \in 0 .. 255, NEW y \in 0 .. 255, NEW z \in 0 .. 255, x < y, y < z
      PROVE  x < z
  BY <1>3
<1> QED
  BY <1>1, <1>2, <1>3, ZenonT(60)

\* Two numbers that differ have a first byte in which they do.
LEMMA FirstDifference ==
  ASSUME NEW a \in UInt64, NEW b \in UInt64, a # b
  PROVE  \E i \in 1 .. 8 : a[i] # b[i] /\ \A j \in 1 .. i - 1 : a[j] = b[j]
<1> DEFINE First(i) == a[i] # b[i] /\ \A j \in 1 .. i - 1 : a[j] = b[j]
<1>1. SUFFICES ASSUME \A i \in 1 .. 8 : ~First(i)
               PROVE  FALSE
  BY Zenon
<1>2. a[1] = b[1]
  BY <1>1
<1>3. a[2] = b[2]
  BY <1>1, <1>2
<1>4. a[3] = b[3]
  BY <1>1, <1>2, <1>3
<1>5. a[4] = b[4]
  BY <1>1, <1>2, <1>3, <1>4
<1>6. a[5] = b[5]
  BY <1>1, <1>2, <1>3, <1>4, <1>5
<1>7. a[6] = b[6]
  BY <1>1, <1>2, <1>3, <1>4, <1>5, <1>6
<1>8. a[7] = b[7]
  BY <1>1, <1>2, <1>3, <1>4, <1>5, <1>6, <1>7
<1>9. a[8] = b[8]
  BY <1>1, <1>2, <1>3, <1>4, <1>5, <1>6, <1>7, <1>8
<1>10. \A i \in 1 .. 8 : a[i] = b[i]
  BY <1>2, <1>3, <1>4, <1>5, <1>6, <1>7, <1>8, <1>9
<1> QED
  BY <1>10 DEF UInt64

\* Below is a strict order in which two numbers can be compared.
LEMMA BelowTotal ==
  ASSUME NEW a \in UInt64, NEW b \in UInt64, a # b
  PROVE  Below(a, b) \/ Below(b, a)
<1>1. PICK i \in 1 .. 8 : a[i] # b[i] /\ \A j \in 1 .. i - 1 : a[j] = b[j]
  BY FirstDifference
<1>2. a[i] \in 0 .. 255 /\ b[i] \in 0 .. 255
  BY NumberSeq DEF Byte
<1>3. a[i] < b[i] \/ b[i] < a[i]
  BY <1>1, <1>2, ByteOrder, Zenon
<1> QED
  BY <1>1, <1>3, Zenon DEF Below

\* No number is below itself.
LEMMA BelowIrreflexive ==
  ASSUME NEW a \in UInt64
  PROVE  ~Below(a, a)
<1>1. \A i \in 1 .. 8 : a[i] \in 0 .. 255
  BY NumberSeq DEF Byte
<1>2. \A i \in 1 .. 8 : ~(a[i] < a[i])
  BY <1>1, ByteOrder, Zenon
<1> QED
  BY <1>2, Zenon DEF Below

\* What is below a lower number is below the higher one.
LEMMA BelowTransitive ==
  ASSUME NEW a \in UInt64, NEW b \in UInt64, NEW c \in UInt64, Below(a, b), Below(b, c)
  PROVE  Below(a, c)
<1>1. PICK i \in 1 .. 8 : a[i] < b[i] /\ \A j \in 1 .. i - 1 : a[j] = b[j]
  BY Zenon DEF Below
<1>2. PICK k \in 1 .. 8 : b[k] < c[k] /\ \A j \in 1 .. k - 1 : b[j] = c[j]
  BY Zenon DEF Below
<1>3. \A m \in 1 .. 8 : a[m] \in 0 .. 255 /\ b[m] \in 0 .. 255 /\ c[m] \in 0 .. 255
  BY NumberSeq DEF Byte
<1>4. CASE i < k
  <2>1. i \in 1 .. k - 1 /\ \A j \in 1 .. i - 1 : j \in 1 .. k - 1
    BY <1>4
  <2>2. a[i] < c[i]
    BY <1>1, <1>2, <2>1, Zenon
  <2> QED
    BY <1>1, <1>2, <2>1, <2>2, Zenon DEF Below
<1>5. CASE k < i
  <2>1. k \in 1 .. i - 1 /\ \A j \in 1 .. k - 1 : j \in 1 .. i - 1
    BY <1>5
  <2>2. a[k] < c[k]
    BY <1>1, <1>2, <2>1, Zenon
  <2> QED
    BY <1>1, <1>2, <2>1, <2>2, Zenon DEF Below
<1>6. CASE i = k
  <2>1. a[i] < c[i]
    <3>1. a[i] < b[i] /\ b[i] < c[i]
      BY <1>1, <1>2, <1>6, Zenon
    <3>2. a[i] \in 0 .. 255 /\ b[i] \in 0 .. 255 /\ c[i] \in 0 .. 255
      BY <1>3, Zenon
    <3>3. \A x, y, z \in 0 .. 255 : x < y /\ y < z => x < z
      BY ByteOrder, Zenon
    <3> QED
      BY <3>1, <3>2, <3>3, Zenon
  <2> QED
    BY <1>1, <1>2, <1>6, <2>1, Zenon DEF Below
<1> QED
  BY <1>4, <1>5, <1>6

\* Not being overtaken is transitive, too.
LEMMA NotBelowTransitive ==
  ASSUME NEW a \in UInt64, NEW b \in UInt64, NEW c \in UInt64, ~Below(b, a), ~Below(c, b)
  PROVE  ~Below(c, a)
<1>1. SUFFICES ASSUME Below(c, a) PROVE FALSE
  OBVIOUS
<1>2. a = b \/ Below(a, b)
  BY BelowTotal
<1>3. CASE a = b
  BY <1>1, <1>3
<1>4. CASE Below(a, b)
  <2>1. Below(c, b)
    BY <1>1, <1>4, BelowTransitive
  <2> QED
    BY <2>1
<1> QED
  BY <1>2, <1>3, <1>4

\* What is below a number of 32 bits has no more bits itself.
LEMMA BelowClear ==
  ASSUME NEW a \in UInt64, NEW b \in UInt64, Clear(b, 4), Below(a, b)
  PROVE  Clear(a, 4)
<1>1. PICK i \in 1 .. 8 : a[i] < b[i] /\ \A j \in 1 .. i - 1 : a[j] = b[j]
  BY Zenon DEF Below
<1>2. \A m \in 1 .. 8 : a[m] \in 0 .. 255 /\ b[m] \in 0 .. 255
  BY NumberSeq DEF Byte
<1>3. \A j \in 1 .. 4 : b[j] = 0
  BY DEF Clear
<1>4. ~(i <= 4)
  <2>1. i <= 4 => i \in 1 .. 4
    OBVIOUS
  <2>2. i \in 1 .. 4 => b[i] = 0
    BY <1>3, Zenon
  <2>3. ~(a[i] < 0)
    BY <1>2, ByteOrder, Zenon
  <2> QED
    BY <1>1, <2>1, <2>2, <2>3, Zenon
<1>5. \A j \in 1 .. 4 : j \in 1 .. i - 1
  BY <1>4
<1> QED
  BY <1>1, <1>3, <1>5, Zenon DEF Clear

\* A number is no lower than what the decoder keeps of it.
LEMMA StoredNotAbove ==
  ASSUME NEW a \in UInt64, NEW b \in UInt64, Below(a, Stored(b))
  PROVE  Below(a, b)
<1> DEFINE s == Stored(b)
<1>1. s \in UInt64 /\ \A i \in 1 .. 8 : s[i] = IF i <= 4 THEN 0 ELSE b[i]
  <2>1. \A i \in 1 .. 8 : (IF i <= 4 THEN 0 ELSE b[i]) \in Byte
    <3>1. 0 \in Byte
      BY DEF Byte
    <3> QED
      BY <3>1, NumberSeq, Zenon
  <2> QED
    BY <2>1 DEF Stored, UInt64
<1> HIDE DEF s
<1>2. \A m \in 1 .. 8 : s[m] \in 0 .. 255 /\ b[m] \in 0 .. 255
  BY <1>1, NumberSeq DEF Byte
<1>3. ~Below(b, s)
  <2>1. SUFFICES ASSUME NEW i \in 1 .. 8, b[i] < s[i] PROVE FALSE
    BY Zenon DEF Below
  <2>2. s[i] = 0 \/ s[i] = b[i]
    BY <1>1, Zenon
  <2>3. ~(b[i] < 0) /\ ~(b[i] < b[i])
    BY <1>2, ByteOrder, Zenon
  <2> QED
    BY <2>1, <2>2, <2>3, Zenon
<1>4. s = b \/ Below(s, b)
  BY <1>1, <1>3, BelowTotal
<1>5. Below(a, s)
  BY DEF s
<1> QED
  BY <1>1, <1>4, <1>5, BelowTransitive

-------------------------------------------------------------------------------
(* What comes back of a number. *)
\* What comes back is a number with the lower half of the one written, and it is
\* the same number or one with the sign's bytes on top.
LEMMA ReadBackBytes ==
  ASSUME NEW v \in UInt64
  PROVE  /\ ReadBack(v) \in UInt64
         /\ \A i \in 5 .. 8 : ReadBack(v)[i] = v[i]
         /\ \/ ReadBack(v) = v
            \/ /\ \A i \in 1 .. 4 : ReadBack(v)[i] = 255
               /\ varint_encode_size(v) >= 5 /\ v[5] >= 128
<1> DEFINE over == varint_encode_size(v) >= 5 /\ v[5] >= 128
<1>1. ReadBack(v) = [i \in 1 .. 8 |-> IF i <= 4 /\ over THEN 255 ELSE v[i]]
  BY Zenon DEF ReadBack
<1>2. v = [i \in 1 .. 8 |-> v[i]] /\ \A i \in 1 .. 8 : v[i] \in Byte
  BY NumberSeq DEF UInt64
<1>3. 255 \in Byte
  BY DEF Byte
<1> HIDE DEF over
<1>4. ReadBack(v) \in UInt64
  BY <1>1, <1>2, <1>3 DEF UInt64
<1>5. \A i \in 5 .. 8 : ReadBack(v)[i] = v[i]
  BY <1>1
<1>6. CASE ~over
  BY <1>1, <1>2, <1>4, <1>5, <1>6, Zenon
<1>7. CASE over
  <2>1. \A i \in 1 .. 4 : ReadBack(v)[i] = 255
    BY <1>1, <1>7
  <2> QED
    BY <1>4, <1>5, <1>7, <2>1, Zenon DEF over
<1> QED
  BY <1>6, <1>7

\* Numbers without the top bit come back whole, and so do those that are still of
\* 32 bits when they have been read.
LEMMA ReadBackWhole ==
  ASSUME NEW v \in UInt64, ~TopBit(v) \/ Clear(ReadBack(v), 4)
  PROVE  ReadBack(v) = v
<1>1. SUFFICES ASSUME ReadBack(v) # v PROVE FALSE
  OBVIOUS
<1>2. /\ \A i \in 1 .. 4 : ReadBack(v)[i] = 255
      /\ varint_encode_size(v) >= 5 /\ v[5] >= 128
  BY <1>1, ReadBackBytes
<1>3. ~Clear(ReadBack(v), 4)
  <2>1. 1 \in 1 .. 4 /\ 255 # 0
    OBVIOUS
  <2>2. ReadBack(v)[1] = 255
    BY <1>2
  <2>3. Clear(ReadBack(v), 4) => ReadBack(v)[1] = 0
    BY <2>1, Zenon DEF Clear
  <2> QED
    BY <2>1, <2>2, <2>3, Zenon
<1>4. \A i \in 1 .. 4 : v[i] = 255
  BY <1>2, <1>3, Zenon DEF TopBit
<1>5. \A i \in 1 .. 8 : ReadBack(v)[i] = v[i]
  <2>1. \A i \in 1 .. 8 : i \in 1 .. 4 \/ i \in 5 .. 8
    OBVIOUS
  <2>2. \A i \in 5 .. 8 : ReadBack(v)[i] = v[i]
    BY ReadBackBytes
  <2>3. \A i \in 1 .. 4 : ReadBack(v)[i] = v[i]
    BY <1>2, <1>4
  <2> QED
    BY <2>1, <2>2, <2>3
<1>6. ReadBack(v) = [i \in 1 .. 8 |-> ReadBack(v)[i]] /\ v = [i \in 1 .. 8 |-> v[i]]
  BY ReadBackBytes DEF UInt64
<1> QED
  BY <1>1, <1>5, <1>6

\* The decoder keeps the same of a number however it came back, a number of 32 bits,
\* and all of an early one.
LEMMA StoredBack ==
  ASSUME NEW v \in UInt64
  PROVE  /\ Stored(ReadBack(v)) = Stored(v)
         /\ Early(v) => ReadBack(v) = v /\ Stored(v) = v
<1>1. \A i \in 1 .. 8 : (IF i <= 4 THEN 0 ELSE ReadBack(v)[i]) = (IF i <= 4 THEN 0 ELSE v[i])
  <2>1. \A i \in 1 .. 8 : i <= 4 \/ i \in 5 .. 8
    OBVIOUS
  <2>2. \A i \in 5 .. 8 : ReadBack(v)[i] = v[i]
    BY ReadBackBytes
  <2> QED
    BY <2>1, <2>2, Zenon
<1>2. Stored(ReadBack(v)) = Stored(v)
  BY <1>1, Zenon DEF Stored
<1>3. ASSUME Early(v) PROVE ReadBack(v) = v /\ Stored(v) = v
  <2>1. (\A i \in 1 .. 4 : v[i] = 0) /\ v[5] < 128
    BY <1>3, Zenon DEF Early, Clear
  <2>2. ~(v[5] >= 128)
    <3>1. v[5] \in 0 .. 255
      BY NumberSeq DEF Byte
    <3>2. \A x \in 0 .. 255 : x < 128 => ~(x >= 128)
      OBVIOUS
    <3> QED
      BY <2>1, <3>1, <3>2, Zenon
  <2>3. ~TopBit(v)
    BY <2>2, Zenon DEF TopBit
  <2>4. v = [i \in 1 .. 8 |-> v[i]]
    BY DEF UInt64
  <2>5. \A i \in 1 .. 8 : i <= 4 => i \in 1 .. 4
    OBVIOUS
  <2>6. \A i \in 1 .. 8 : (IF i <= 4 THEN 0 ELSE v[i]) = v[i]
    BY <2>1, <2>5, Zenon
  <2>7. Stored(v) = [i \in 1 .. 8 |-> v[i]]
    BY <2>6, Zenon DEF Stored
  <2> QED
    BY <2>3, <2>4, <2>7, ReadBackWhole, Zenon
<1> QED
  BY <1>2, <1>3

\* The decoder keeps a number of 32 bits.
LEMMA StoredType ==
  ASSUME NEW v \in UInt64
  PROVE  Stored(v) \in UInt64 /\ Clear(Stored(v), 4)
<1>1. \A i \in 1 .. 8 : (IF i <= 4 THEN 0 ELSE v[i]) \in Byte
  <2>1. 0 \in Byte
    BY DEF Byte
  <2> QED
    BY <2>1, NumberSeq, Zenon
<1>2. Stored(v) \in UInt64
  BY <1>1, Zenon DEF Stored, UInt64
<1>3. \A i \in 1 .. 4 : Stored(v)[i] = 0
  BY DEF Stored
<1> QED
  BY <1>2, <1>3, Zenon DEF Clear

-------------------------------------------------------------------------------
(* The fields of a packet. *)

\* The nine bytes that a field may take.
LEMMA Window ==
  ASSUME NEW s \in Seq(Byte), NEW k \in Nat, k + 9 <= Len(s)
  PROVE  /\ SubSeq(s, k + 1, k + 9) \in Seq(Byte)
         /\ Len(SubSeq(s, k + 1, k + 9)) = 9
         /\ \A i \in 1 .. 9 : SubSeq(s, k + 1, k + 9)[i] = s[k + i]
<1> DEFINE m == k + 1
           n == k + 9
           w == SubSeq(s, m, n)
<1>1. \A i \in m .. n : s[i] \in Byte
  <2>1. Len(s) \in Nat
    BY LenProperties
  <2>2. \A i \in m .. n : i \in 1 .. Len(s)
    BY <2>1
  <2> QED
    BY <2>2, ElementOfSeq
<1>2. m \in Int /\ n \in Int /\ m <= n /\ n - m + 1 = 9 /\ \A i \in 1 .. 9 : m + i - 1 = k + i
  OBVIOUS
<1> HIDE DEF m, n
<1>3. /\ w \in Seq(Byte)
      /\ Len(w) = IF m <= n THEN n - m + 1 ELSE 0
      /\ \A i \in 1 .. n - m + 1 : w[i] = s[m + i - 1]
  BY <1>1, <1>2, SubSeqProperties
<1> HIDE DEF w
<1>4. w \in Seq(Byte) /\ Len(w) = 9 /\ \A i \in 1 .. 9 : w[i] = s[m + i - 1]
  BY <1>2, <1>3, Zenon
<1>5. w \in Seq(Byte) /\ Len(w) = 9 /\ \A i \in 1 .. 9 : w[i] = s[k + i]
  BY <1>2, <1>4, Zenon
<1> QED
  BY <1>5, Zenon DEF w, m, n

\* Behind a prefix lies the rest.
LEMMA Behind ==
  ASSUME NEW pre \in Seq(Byte), NEW t \in Seq(Byte)
  PROVE  /\ pre \o t \in Seq(Byte)
         /\ Len(pre) \in Nat /\ Len(t) \in Nat
         /\ Len(pre \o t) = Len(pre) + Len(t)
         /\ \A i \in 1 .. Len(pre) : (pre \o t)[i] = pre[i]
         /\ \A i \in 1 .. Len(t) : (pre \o t)[Len(pre) + i] = t[i]
<1> DEFINE k == Len(pre)
           m == Len(t)
           c == pre \o t
<1>1. c \in Seq(Byte) /\ Len(c) = k + m /\ \A i \in 1 .. k + m : c[i] = IF i <= k THEN pre[i] ELSE t[i - k]
  BY ConcatProperties, Zenon
<1>2. k \in Nat /\ m \in Nat
  BY LenProperties
<1> HIDE DEF k, m, c
<1>3. \A i \in 1 .. k : i \in 1 .. k + m /\ i <= k
  BY <1>2
<1>4. \A i \in 1 .. m : k + i \in 1 .. k + m /\ ~(k + i <= k) /\ (k + i) - k = i
  BY <1>2
<1>5. \A i \in 1 .. k : c[i] = pre[i]
  BY <1>1, <1>3, Zenon
<1>6. \A i \in 1 .. m : c[k + i] = t[i]
  <2> TAKE i \in 1 .. m
  <2>1. c[k + i] = t[(k + i) - k]
    BY <1>1, <1>4, Zenon
  <2> QED
    BY <1>4, <2>1, Zenon
<1> QED
  BY <1>1, <1>2, <1>5, <1>6, Zenon DEF k, m, c

\* A field at the bytes of a number is read as that number.
LEMMA FieldAt ==
  ASSUME NEW v \in UInt64, NEW bytes \in Seq(Byte), NEW k \in Nat, k + 9 <= Len(bytes),
         \A i \in 1 .. varint_encode_size(v) : bytes[k + i] = varint_encode(v)[i],
         NEW len \in Int, len - k >= varint_encode_size(v)
  PROVE  Field(bytes, len, k) = Decoded(varint_encode_size(v), ReadBack(v))
<1> DEFINE n == varint_encode_size(v)
           e == varint_encode(v)
           w == SubSeq(bytes, k + 1, k + 9)
<1>1. n \in 1 .. 9
  BY SmallestForm DEF Forms
<1>2. w \in Seq(Byte) /\ Len(w) = 9 /\ \A i \in 1 .. 9 : w[i] = bytes[k + i]
  BY Window
<1> HIDE DEF w
<1>3. \A i \in 1 .. n : w[i] = e[i]
  <2>1. \A i \in 1 .. n : i \in 1 .. 9
    BY <1>1
  <2> QED
    BY <1>2, <2>1, Zenon
<1>4. len - k \in Int /\ len - k >= n
  OBVIOUS
<1>5. varint_decode(w, len - k) = Decoded(n, ReadBack(v))
  BY <1>2, <1>3, <1>4, DecodesEncoded
<1>6. Field(bytes, len, k) = varint_decode(w, len - k)
  BY Zenon DEF Field, w
<1> QED
  BY <1>5, <1>6, Zenon

\* Any field of a packet gives a number and the bytes it took.
LEMMA FieldType ==
  ASSUME NEW bytes \in Seq(Byte), NEW len \in Int, NEW at \in Nat, at + 9 <= Len(bytes)
  PROVE  Field(bytes, len, at).read \in Reads /\ Field(bytes, len, at).value \in UInt64
<1> DEFINE w == SubSeq(bytes, at + 1, at + 9)
<1>3. w \in Seq(Byte) /\ Len(w) = 9
  BY Window
<1> HIDE DEF w
<1>4. len - at \in Int
  OBVIOUS
<1>5. varint_decode(w, len - at).read \in Reads /\ varint_decode(w, len - at).value \in UInt64
  BY <1>3, <1>4, DecodedType
<1> QED
  BY <1>5, Zenon DEF Field, w

\* The first two fields of any packet.
LEMMA FieldsType ==
  ASSUME NEW bytes \in Seq(Byte), Len(bytes) >= 29, NEW len \in Int
  PROVE  Fields(bytes, len).source.value \in UInt64 /\ Fields(bytes, len).number.value \in UInt64
<1> DEFINE source == Field(bytes, len, 1)
           number == Field(bytes, len, 1 + source.read)
           at     == 1 + source.read + number.read
<1>1. source.read \in Reads /\ source.value \in UInt64
  <2>1. 1 + 9 <= Len(bytes)
    BY LenProperties
  <2> QED
    BY <2>1, FieldType
<1> HIDE DEF source
<1>2. CASE source.read <= 0
  <2>1. Fields(bytes, len) = [source |-> source, number |-> source, length |-> source, at |-> 1]
    BY <1>2, Zenon DEF Fields, source
  <2> QED
    BY <1>1, <2>1
<1>3. CASE ~(source.read <= 0)
  <2> DEFINE k == 1 + source.read
  <2>1. k \in Nat /\ k + 9 <= Len(bytes)
    <3> DEFINE r == source.read
    <3>1. r \in Reads /\ ~(r <= 0)
      BY <1>1, <1>3
    <3> HIDE DEF r
    <3>2. r \in 1 .. 9
      BY <3>1 DEF Reads
    <3>3. 1 + r \in Nat /\ 1 + r + 9 <= Len(bytes)
      BY <3>2, LenProperties
    <3> QED
      BY <3>3 DEF r
  <2> HIDE DEF k
  <2>2. Field(bytes, len, k).value \in UInt64
    BY <2>1, FieldType
  <2>3. number.value \in UInt64
    BY <2>2, Zenon DEF k
  <2> HIDE DEF number
  <2> DEFINE length == Field(bytes, len, at)
  <2>4. \/ Fields(bytes, len) = [source |-> source, number |-> number, length |-> number, at |-> at]
        \/ Fields(bytes, len) = [source |-> source, number |-> number, length |-> length, at |-> at]
    BY <1>3, Zenon DEF Fields, source, number
  <2> HIDE DEF at, length
  <2> QED
    BY <1>1, <2>3, <2>4
<1> QED
  BY <1>2, <1>3

\* A number is written as one to nine bytes.
LEMMA EncodedSeq ==
  ASSUME NEW v \in UInt64
  PROVE  /\ varint_encode(v) \in Seq(Byte)
         /\ Len(varint_encode(v)) = varint_encode_size(v)
         /\ varint_encode_size(v) \in 1 .. 9
<1>1. varint_encode_size(v) \in Forms
  BY SmallestForm
<1>2. varint_encode(v) \in Seq(Byte) /\ Len(varint_encode(v)) = varint_encode_size(v)
  BY <1>1, EncodedBytes
<1> QED
  BY <1>1, <1>2 DEF Forms

\* A codec's byte and two numbers.
Opening(c, s, n) == <<c>> \o varint_encode(s) \o varint_encode(n)
HeadLen(s, n) == 1 + varint_encode_size(s) + varint_encode_size(n)

\* What is read of a packet that begins with them.
Parsed(bytes, len, s, n) ==
  [source |-> Decoded(varint_encode_size(s), ReadBack(s)),
   number |-> Decoded(varint_encode_size(n), ReadBack(n)),
   length |-> Field(bytes, len, HeadLen(s, n)), at |-> HeadLen(s, n)]

\* Such a packet is cut where it was written.
LEMMA PacketFields ==
  ASSUME NEW c \in Byte, NEW s \in UInt64, NEW n \in UInt64,
         NEW len \in Int, len >= HeadLen(s, n),
         NEW bytes \in Seq(Byte), Len(bytes) >= HeadLen(s, n) + 9,
         \A i \in 1 .. HeadLen(s, n) : bytes[i] = Opening(c, s, n)[i]
  PROVE  Fields(bytes, len) = Parsed(bytes, len, s, n)
<1> DEFINE h == <<c>>
           at == HeadLen(s, n)
<1>0. h \in Seq(Byte) /\ Len(h) = 1
  OBVIOUS
<1> HIDE DEF h
<1> DEFINE es == varint_encode(s)
           en == varint_encode(n)
           ls == varint_encode_size(s)
           ln == varint_encode_size(n)
           vs == ReadBack(s)
           vn == ReadBack(n)
           pre == h \o es
           head == pre \o en
<1>1. /\ ls \in 1 .. 9 /\ ln \in 1 .. 9
      /\ es \in Seq(Byte) /\ Len(es) = ls
      /\ en \in Seq(Byte) /\ Len(en) = ln
  BY EncodedSeq
<1>2. /\ pre \in Seq(Byte) /\ Len(pre) = 1 + ls
      /\ \A i \in 1 .. ls : pre[1 + i] = es[i]
  <2>1. /\ pre \in Seq(Byte) /\ Len(pre) = Len(h) + Len(es)
        /\ \A i \in 1 .. Len(es) : pre[Len(h) + i] = es[i]
    BY <1>0, <1>1, Behind, Zenon
  <2> QED
    BY <1>0, <1>1, <2>1, Zenon
<1>3. /\ \A i \in 1 .. 1 + ls : head[i] = pre[i]
      /\ \A i \in 1 .. ln : head[(1 + ls) + i] = en[i]
  <2> HIDE DEF pre
  <2>1. /\ \A i \in 1 .. Len(pre) : head[i] = pre[i]
        /\ \A i \in 1 .. Len(en) : head[Len(pre) + i] = en[i]
    BY <1>1, <1>2, Behind, Zenon
  <2> QED
    BY <1>1, <1>2, <2>1, Zenon
<1>4. \A i \in 1 .. at : bytes[i] = head[i]
  BY Zenon DEF Opening, h
<1> HIDE DEF pre, head
<1>5. at = 1 + ls + ln /\ at \in Nat /\ len >= at /\ Len(bytes) >= at + 9
  BY <1>1 DEF HeadLen
<1> HIDE DEF at
<1>6. Field(bytes, len, 1) = Decoded(ls, vs)
  <2>1. len - 1 >= ls
    BY <1>1, <1>5
  <2>2. 1 + 9 <= Len(bytes)
    BY <1>1, <1>5, LenProperties
  <2>3. \A i \in 1 .. ls : bytes[1 + i] = es[i]
    <3> HIDE DEF es, ls, en, ln
    <3>1. \A i \in 1 .. ls : 1 + i \in 1 .. at /\ 1 + i \in 1 .. 1 + ls
      BY <1>1, <1>5
    <3> QED
      BY <1>2, <1>3, <1>4, <3>1, Zenon
  <2> QED
    BY <2>1, <2>2, <2>3, FieldAt
<1>7. Field(bytes, len, 1 + ls) = Decoded(ln, vn)
  <2> DEFINE k == 1 + ls
  <2>1. len - k >= ln /\ k \in Nat
    BY <1>1, <1>5
  <2>2. k + 9 <= Len(bytes)
    BY <1>1, <1>5, LenProperties
  <2>3. \A i \in 1 .. ln : bytes[k + i] = en[i]
    <3>1. \A i \in 1 .. ln : head[k + i] = en[i]
      BY <1>3, Zenon
    <3> HIDE DEF es, ls, en, ln
    <3>2. \A i \in 1 .. ln : k + i \in 1 .. at
      BY <1>1, <1>5
    <3> HIDE DEF k
    <3> QED
      BY <1>4, <3>1, <3>2, Zenon
  <2> HIDE DEF k
  <2>4. Field(bytes, len, k) = Decoded(ln, vn)
    BY <2>1, <2>2, <2>3, FieldAt
  <2> QED
    BY <2>4, Zenon DEF k
<1> HIDE DEF ls, ln, vs, vn
<1> DEFINE ds == Decoded(ls, vs)
           dn == Decoded(ln, vn)
<1>8. ds.read = ls /\ dn.read = ln /\ ~(ls <= 0) /\ ~(ln <= 0)
  BY <1>1 DEF Decoded
<1> HIDE DEF ds, dn
<1>9. Field(bytes, len, 1) = ds /\ Field(bytes, len, 1 + ds.read) = dn /\ ~(ds.read <= 0) /\ ~(dn.read <= 0)
  BY <1>6, <1>7, <1>8, Zenon DEF ds, dn
<1> DEFINE k == 1 + ds.read + dn.read
<1>10. Fields(bytes, len) = [source |-> ds, number |-> dn, length |-> Field(bytes, len, k), at |-> k]
  BY <1>9, Zenon DEF Fields
<1>11. k = at
  BY <1>5, <1>8
<1> QED
  BY <1>10, <1>11, Zenon DEF ds, dn, ls, ln, vs, vn, at, Parsed

-------------------------------------------------------------------------------
(* How the decoder ends. *)
\* The ways in which the codec's part ends.
LEMMA OpusEnds ==
  ASSUME NEW length, NEW len, NEW samples
  PROVE  mumble_codec_opus_decode(length, len, samples)
           \in {"hung", "opus.c:67", "opus.c:73", "opus.c:81", "decoded"}
BY Zenon DEF mumble_codec_opus_decode

\* A packet is dropped when its number is stale, and played when it is not.
LEMMA DecodeEnds ==
  ASSUME NEW sequence, NEW bytes, NEW len, NEW samples,
         NEW r, r = mumble_audio_decoder_decode(sequence, bytes, len, samples)
  PROVE  /\ r \notin {"none", "pong"}
         /\ r = "dropped" => Stale(Fields(bytes, len).number.value, sequence)
         /\ r = "played" => ~Stale(Fields(bytes, len).number.value, sequence)
<1> DEFINE f    == Fields(bytes, len)
           opus == Codec(bytes[1]) = MUMBLE_AUDIO_OPUS
           end  == IF opus THEN mumble_codec_opus_decode(f.length, len - f.at, samples) ELSE "decoded"
           left == IF opus THEN len - f.at - samples ELSE len - f.at
           stale == Stale(f.number.value, sequence)
<1>1. r = IF len <= 8 THEN "audio_decoder.c:18"
          ELSE IF Codec(bytes[1]) = MUMBLE_AUDIO_PING THEN "audio_decoder.c:24"
          ELSE IF f.number.read = 0 THEN "hung"
          ELSE IF f.number.read < 0 THEN "audio_decoder.c:43"
          ELSE IF stale THEN "dropped"
          ELSE IF end # "decoded" THEN end
          ELSE IF left > 0 /\ left # PositionBytes THEN "audio_decoder.c:70"
          ELSE "played"
  BY Zenon DEF mumble_audio_decoder_decode
<1>2. end \in {"hung", "opus.c:67", "opus.c:73", "opus.c:81", "decoded"}
  BY OpusEnds, Zenon
<1> HIDE DEF end, left, stale, f
<1>3. /\ r \notin {"none", "pong"}
      /\ r = "dropped" => stale
      /\ r = "played" => ~stale
  BY <1>1, <1>2
<1> QED
  BY <1>3, Zenon DEF stale, f

\* With a codec other than a ping's, a number and no stale one, an Opus packet
\* whose length holds is played.
LEMMA OpusPlays ==
  ASSUME NEW sequence, NEW bytes, NEW len \in Nat, NEW samples \in Nat,
         len > 8, Codec(bytes[1]) = MUMBLE_AUDIO_OPUS,
         NEW f, f = Fields(bytes, len), f.number.read \in 1 .. 9, f.length.read \in 1 .. 9, f.at \in Nat,
         LengthHolds(VarLen(f.length.value), len - f.at, f.length.read),
         samples > 0, len - f.at <= samples
  PROVE  mumble_audio_decoder_decode(sequence, bytes, len, samples) \in {"played", "dropped"}
<1> DEFINE r == mumble_audio_decoder_decode(sequence, bytes, len, samples)
           opus == mumble_codec_opus_decode(f.length, len - f.at, samples)
           at == f.at
           left == len - at - samples
           stale == Stale(f.number.value, sequence)
<1>1. opus = "decoded"
  <2>1. f.length.read # 0 /\ ~(f.length.read < 0) /\ ~(samples <= 0)
    <3> DEFINE x == f.length.read
    <3>1. x \in 1 .. 9
      OBVIOUS
    <3> HIDE DEF x
    <3>2. x # 0 /\ ~(x < 0)
      BY <3>1
    <3> QED
      BY <3>2 DEF x
  <2> QED
    BY <2>1, Zenon DEF mumble_codec_opus_decode
<1>2. ~(len <= 8) /\ f.number.read # 0 /\ ~(f.number.read < 0)
  <2> DEFINE x == f.number.read
  <2>1. x \in 1 .. 9
    OBVIOUS
  <2> HIDE DEF x
  <2>2. x # 0 /\ ~(x < 0)
    BY <2>1
  <2> QED
    BY <2>2 DEF x
<1>3. ~(left > 0)
  <2>1. at \in Nat /\ len - at <= samples
    OBVIOUS
  <2> HIDE DEF at
  <2> QED
    BY <2>1
<1>4. MUMBLE_AUDIO_OPUS # MUMBLE_AUDIO_PING
  BY DEF MUMBLE_AUDIO_OPUS, MUMBLE_AUDIO_PING
<1>5. r = IF len <= 8 THEN "audio_decoder.c:18"
          ELSE IF Codec(bytes[1]) = MUMBLE_AUDIO_PING THEN "audio_decoder.c:24"
          ELSE IF f.number.read = 0 THEN "hung"
          ELSE IF f.number.read < 0 THEN "audio_decoder.c:43"
          ELSE IF stale THEN "dropped"
          ELSE IF opus # "decoded" THEN opus
          ELSE IF left > 0 /\ left # PositionBytes THEN "audio_decoder.c:70"
          ELSE "played"
  BY Zenon DEF mumble_audio_decoder_decode
<1> HIDE DEF r, opus, at, left, stale
<1>6. r \in {"played", "dropped"}
  BY <1>1, <1>2, <1>3, <1>4, <1>5, Zenon
<1> QED
  BY <1>6, Zenon DEF r

-------------------------------------------------------------------------------
(* The packets. *)
Kinds == {"opus", "positional", "other", "tunnelled", "noise"}
Peers == {"opus", "positional", "other"}

\* The bytes in the buffer and the size of the datagram.
Padding(junk)  == [i \in 1 .. 28 |-> junk]
Bytes(p, junk) == p.bytes \o Padding(junk)
Size(p)        == Len(p.bytes) + p.rest

PacketOK(p) ==
  /\ p.kind \in Kinds /\ p.source \in UInt64 /\ p.number \in UInt64
  /\ p.bytes \in Seq(Byte) /\ Len(p.bytes) >= 1 /\ p.rest \in Nat

\* The packet's own bytes, and others behind them.
LEMMA BytesOf ==
  ASSUME NEW p, PacketOK(p), NEW junk \in {0, 255}
  PROVE  /\ Bytes(p, junk) \in Seq(Byte)
         /\ Len(Bytes(p, junk)) = Len(p.bytes) + 28
         /\ Len(p.bytes) \in Nat /\ Len(Bytes(p, junk)) >= 29
         /\ \A i \in 1 .. Len(p.bytes) : Bytes(p, junk)[i] = p.bytes[i]
         /\ Size(p) \in Nat
<1> DEFINE b == p.bytes
           j == Padding(junk)
<1>1. b \in Seq(Byte) /\ Len(b) >= 1 /\ p.rest \in Nat
  BY DEF PacketOK
<1>2. j \in Seq(Byte) /\ Len(j) = 28
  <2>1. junk \in Byte
    BY DEF Byte
  <2>2. j \in [1 .. 28 -> Byte]
    BY <2>1, Zenon DEF Padding
  <2> HIDE DEF j
  <2>3. j \in Seq(Byte)
    <3>1. 28 \in Nat
      OBVIOUS
    <3>2. j \in UNION {[1 .. n -> Byte] : n \in Nat}
      BY <2>2, <3>1, ZenonT(60)
    <3> QED
      BY <3>2, SeqDef, Zenon
  <2>4. DOMAIN j = 1 .. 28
    BY <2>2
  <2> QED
    BY <2>3, <2>4, LenProperties
<1> HIDE DEF b, j
<1>3. /\ b \o j \in Seq(Byte) /\ Len(b) \in Nat /\ Len(b \o j) = Len(b) + Len(j)
      /\ \A i \in 1 .. Len(b) : (b \o j)[i] = b[i]
  <2>1. b \in Seq(Byte) /\ j \in Seq(Byte)
    BY <1>1, <1>2
  <2> QED
    BY <2>1, Behind
<1>4. Len(b \o j) = Len(b) + 28 /\ Len(b \o j) >= 29 /\ Len(b) + p.rest \in Nat
  BY <1>1, <1>2, <1>3
<1> QED
  BY <1>3, <1>4, Zenon DEF Bytes, Size, b, j

\* The bytes of a number of 14 bits.
LEMMA EightBytes ==
  \A b \in 0 .. 63, c \in 0 .. 255 :
    LET v == <<0, 0, 0, 0, 0, 0, b, c>>
    IN  v \in UInt64 /\ Clear(v, 6) /\ v[7] = b /\ v[8] = c
<1> TAKE b \in 0 .. 63, c \in 0 .. 255
<1> DEFINE v == <<0, 0, 0, 0, 0, 0, b, c>>
<1>1. v \in [1 .. 8 -> 0 .. 255]
  OBVIOUS
<1>2. \A i \in 1 .. 6 : v[i] = 0
  OBVIOUS
<1>3. v[7] = b /\ v[8] = c
  OBVIOUS
<1> HIDE DEF v
<1>4. v \in UInt64 /\ Clear(v, 6) /\ v[7] = b /\ v[8] = c
  BY <1>1, <1>2, <1>3, Zenon DEF UInt64, Byte, Clear
<1> QED
  BY <1>4, Zenon DEF v

\* A number of 14 bits, by its two lower bytes.
LEMMA LengthNumber ==
  \A b \in 0 .. 63, c \in 0 .. 255 :
    LET v == UInt(b * 256 + c)
    IN  v \in UInt64 /\ Clear(v, 6) /\ v[7] = b /\ v[8] = c
<1> TAKE b \in 0 .. 63, c \in 0 .. 255
<1> DEFINE x == b * 256 + c
           q == x \div 256
           y == q \div 256
           v == UInt(x)
           w == <<0, 0, 0, 0, 0, 0, b, c>>
<1>1. v = <<0, 0, 0, 0, y \div 256, y % 256, q % 256, x % 256>>
  BY Zenon DEF UInt
<1>2. q = b /\ x % 256 = c
  BY SMT
<1> HIDE DEF x, q
<1>3. y = 0 /\ q % 256 = b
  BY <1>2, SMT
<1> HIDE DEF y
<1>4. y \div 256 = 0 /\ y % 256 = 0
  BY <1>3, SMT
<1>5. v = w
  BY <1>1, <1>2, <1>3, <1>4, Zenon
<1>6. w \in UInt64 /\ Clear(w, 6) /\ w[7] = b /\ w[8] = c
  BY EightBytes, Zenon
<1> HIDE DEF v, w
<1>7. v \in UInt64 /\ Clear(v, 6) /\ v[7] = b /\ v[8] = c
  BY <1>5, <1>6, Zenon
<1> QED
  BY <1>7, Zenon DEF v, x

\* A number of 14 bits comes back in two bytes, and the length is read without
\* its uppermost bit.
LEMMA LengthRead ==
  \A h \in 0 .. 63, c \in 0 .. 255 :
    LET v == UInt(h * 256 + c)
    IN  /\ v \in UInt64 /\ varint_encode_size(v) \in {1, 2}
        /\ ReadBack(v) = v /\ VarLen(v) = (h % 32) * 256 + c
<1> TAKE h \in 0 .. 63, c \in 0 .. 255
<1> DEFINE x == h * 256 + c
           v == UInt(x)
<1>4. v \in UInt64 /\ Clear(v, 6) /\ v[7] = h /\ v[8] = c
  BY LengthNumber, ZenonT(180)
<1> HIDE DEF v
<1>5. varint_encode_size(v) \in {1, 2}
  <2>1. Room(v, 2)
    <3>1. h < 64
      OBVIOUS
    <3>2. v[7] < 64
      BY <1>4, <3>1, Zenon
    <3> QED
      BY <1>4, <3>2, Zenon DEF Room
  <2> DEFINE n == varint_encode_size(v)
  <2>2. n \in Forms /\ \A m \in Forms : m < n => ~Room(v, m)
    BY <1>4, SmallestForm
  <2> HIDE DEF n
  <2>3. 2 \in Forms
    BY DEF Forms
  <2>4. ~(2 < n)
    BY <2>1, <2>2, <2>3, Zenon
  <2>5. n \in {1, 2}
    BY <2>2, <2>4 DEF Forms
  <2> QED
    BY <2>5 DEF n
<1>6. ReadBack(v) = v
  <2>1. ~(varint_encode_size(v) >= 5)
    BY <1>5
  <2>2. \/ ReadBack(v) = v
        \/ varint_encode_size(v) >= 5
    BY <1>4, ReadBackBytes
  <2> QED
    BY <2>1, <2>2, Zenon
<1>7. VarLen(v) = (h % 32) * 256 + c
  <2>1. VarLen(v) = IF (h \div 32) % 2 = 1 THEN (h % 32) * 256 + c
                    ELSE IF Clear(v, 6) THEN h * 256 + c ELSE 256 * 256
    BY <1>4 DEF VarLen
  <2>2. (h \div 32) % 2 = 1 \/ h % 32 = h
    BY SMT
  <2> QED
    BY <1>4, <2>1, <2>2, Zenon
<1> QED
  BY <1>4, <1>5, <1>6, <1>7, Zenon DEF v, x

\* The payload's length in bytes.
LEMMA PayloadBytes ==
  ASSUME NEW l \in Lens, NEW final \in BOOLEAN
  PROVE  \E h \in 0 .. 63, c \in 0 .. 255 :
           /\ (IF final THEN l + 32 * 256 ELSE l) = h * 256 + c
           /\ (h % 32) * 256 + c = l
<1> DEFINE b == l \div 256
           c == l % 256
           h == IF final THEN b + 32 ELSE b
<1>1. b \in 0 .. 31 /\ c \in 0 .. 255 /\ l = b * 256 + c
  BY ReceiveAssumption, SMTT(60)
<1> HIDE DEF b, c
<1>2. h \in 0 .. 63 /\ h % 32 = b /\ (IF final THEN l + 32 * 256 ELSE l) = h * 256 + c
  BY <1>1, SMT
<1> HIDE DEF h
<1>3. (h % 32) * 256 + c = l
  BY <1>1, <1>2
<1> QED
  BY <1>1, <1>2, <1>3, ZenonT(60)

\* The length behind the numbers of an Opus packet.
OpusLength(l, final) == UInt(IF final THEN l + 32 * 256 ELSE l)

\* It comes back, with the bit that ends a transmission or without it.
LEMMA OpusLengthRead ==
  ASSUME NEW l \in Lens, NEW final \in BOOLEAN
  PROVE  /\ OpusLength(l, final) \in UInt64
         /\ varint_encode_size(OpusLength(l, final)) \in {1, 2}
         /\ ReadBack(OpusLength(l, final)) = OpusLength(l, final)
         /\ VarLen(OpusLength(l, final)) = l
<1> DEFINE x == IF final THEN l + 32 * 256 ELSE l
<1>1. PICK h \in 0 .. 63, c \in 0 .. 255 : x = h * 256 + c /\ (h % 32) * 256 + c = l
  BY PayloadBytes, ZenonT(180)
<1>2. OpusLength(l, final) = UInt(x)
  BY Zenon DEF OpusLength
<1> HIDE DEF x
<1> DEFINE v == UInt(h * 256 + c)
<1>3. OpusLength(l, final) = v
  BY <1>1, <1>2, Zenon
<1>4. /\ v \in UInt64 /\ varint_encode_size(v) \in {1, 2}
      /\ ReadBack(v) = v /\ VarLen(v) = (h % 32) * 256 + c
  BY LengthRead, ZenonT(60)
<1> HIDE DEF v
<1> QED
  BY <1>1, <1>3, <1>4, ZenonT(60)

\* Their bytes.
LEMMA HeadBytes ==
  ASSUME NEW c \in Byte, NEW s \in UInt64, NEW n \in UInt64
  PROVE  /\ Opening(c, s, n) \in Seq(Byte)
         /\ Len(Opening(c, s, n)) = HeadLen(s, n)
         /\ HeadLen(s, n) \in 3 .. 19
         /\ Opening(c, s, n)[1] = c
<1> DEFINE h == <<c>>
           es == varint_encode(s)
           en == varint_encode(n)
           ls == varint_encode_size(s)
           ln == varint_encode_size(n)
           pre == h \o es
<1>1. h \in Seq(Byte) /\ Len(h) = 1 /\ h[1] = c
  OBVIOUS
<1>2. /\ es \in Seq(Byte) /\ Len(es) = ls /\ ls \in 1 .. 9
      /\ en \in Seq(Byte) /\ Len(en) = ln /\ ln \in 1 .. 9
  BY EncodedSeq
<1>3. Opening(c, s, n) = pre \o en /\ HeadLen(s, n) = 1 + ls + ln
  BY Zenon DEF Opening, HeadLen
<1> HIDE DEF h, es, en, ls, ln
<1>4. /\ pre \in Seq(Byte) /\ Len(pre) = Len(h) + Len(es)
      /\ \A i \in 1 .. Len(h) : pre[i] = h[i]
  BY <1>1, <1>2, Behind, Zenon
<1> HIDE DEF pre
<1>5. /\ pre \o en \in Seq(Byte) /\ Len(pre \o en) = Len(pre) + Len(en)
      /\ \A i \in 1 .. Len(pre) : (pre \o en)[i] = pre[i]
  BY <1>2, <1>4, Behind, Zenon
<1>6. Len(pre) = 1 + ls /\ Len(pre) + Len(en) = 1 + ls + ln /\ 1 + ls + ln \in 3 .. 19
  BY <1>1, <1>2, <1>4
<1>7. 1 \in 1 .. Len(h) /\ 1 \in 1 .. Len(pre)
  BY <1>1, <1>2, <1>6
<1>8. (pre \o en)[1] = c
  <2>1. pre[1] = h[1]
    BY <1>4, <1>7, Zenon
  <2>2. (pre \o en)[1] = pre[1]
    BY <1>5, <1>7, Zenon
  <2> QED
    BY <1>1, <2>1, <2>2
<1> QED
  BY <1>3, <1>5, <1>6, <1>8, Zenon

\* A packet that begins with them is read as they were written.
LEMMA HeadFields ==
  ASSUME NEW c \in Byte, NEW s \in UInt64, NEW n \in UInt64, NEW p, PacketOK(p),
         Len(p.bytes) >= HeadLen(s, n),
         \A i \in 1 .. HeadLen(s, n) : p.bytes[i] = Opening(c, s, n)[i]
  PROVE  /\ Fields(Bytes(p, 0), Size(p)) = Parsed(Bytes(p, 0), Size(p), s, n)
         /\ Bytes(p, 0)[1] = c
<1> DEFINE b == Bytes(p, 0)
           at == HeadLen(s, n)
           len == Size(p)
           L == Len(p.bytes)
           rest == p.rest
<1>1. at \in 3 .. 19 /\ Opening(c, s, n)[1] = c
  BY HeadBytes
<1>2. /\ b \in Seq(Byte) /\ Len(b) = L + 28 /\ L \in Nat
      /\ \A i \in 1 .. L : b[i] = p.bytes[i]
      /\ len \in Nat
  BY BytesOf
<1>3. len = L + rest /\ rest \in Nat /\ L >= at
  BY DEF Size, PacketOK
<1>4. \A i \in 1 .. at : p.bytes[i] = Opening(c, s, n)[i]
  OBVIOUS
<1> HIDE DEF b, at, len, L, rest
<1>7. len >= at /\ Len(b) >= at + 9 /\ 1 \in 1 .. at /\ \A i \in 1 .. at : i \in 1 .. L
  BY <1>1, <1>2, <1>3
<1>8. \A i \in 1 .. at : b[i] = Opening(c, s, n)[i]
  BY <1>2, <1>4, <1>7, Zenon
<1>9. b[1] = c
  BY <1>1, <1>7, <1>8, Zenon
<1>10. Fields(b, len) = Parsed(b, len, s, n)
  <2>1. len \in Int /\ b \in Seq(Byte)
    BY <1>2
  <2> QED
    BY <1>7, <1>8, <2>1, PacketFields DEF at
<1> QED
  BY <1>9, <1>10, Zenon DEF b, len

\* What the proofs use of a packet: that it is well-formed, which numbers are read
\* of it, and that an Opus packet ends well.
Readable(p) ==
  /\ PacketOK(p)
  /\ p.kind \in Peers =>
       /\ Fields(Bytes(p, 0), Size(p)).source.value = ReadBack(p.source)
       /\ Fields(Bytes(p, 0), Size(p)).number.value = ReadBack(p.number)
  /\ p.kind = "tunnelled" => Clear(Fields(Bytes(p, 0), Size(p)).number.value, 8)
  /\ p.kind = "opus" =>
       \A sequence : \A samples \in Int :
         Size(p) > 8 /\ p.len + 2 <= samples =>
           udp_cb(sequence, Bytes(p, 0), Size(p), samples) \in {"played", "dropped"}

\* The parts of a packet.
LEMMA PacketParts ==
  ASSUME NEW kind, NEW source, NEW number, NEW len, NEW bytes, NEW rest,
         NEW p, p = Packet(kind, source, number, len, bytes, rest)
  PROVE  /\ p.kind = kind /\ p.source = source /\ p.number = number
         /\ p.len = len /\ p.bytes = bytes /\ p.rest = rest
BY DEF Packet

\* The numbers read of a packet that begins with them.
LEMMA ParsedNumbers ==
  ASSUME NEW bytes, NEW len, NEW s, NEW n
  PROVE  /\ Parsed(bytes, len, s, n).source.value = ReadBack(s)
         /\ Parsed(bytes, len, s, n).number.value = ReadBack(n)
         /\ Parsed(bytes, len, s, n).number.read = varint_encode_size(n)
         /\ Parsed(bytes, len, s, n).length = Field(bytes, len, HeadLen(s, n))
         /\ Parsed(bytes, len, s, n).at = HeadLen(s, n)
BY DEF Parsed, Decoded

\* Another codec's packet.
LEMMA OtherReadable ==
  ASSUME NEW s \in UInt64, NEW n \in UInt64, NEW l \in Nat
  PROVE  Readable(OtherPacket(s, n, l))
<1> DEFINE p == OtherPacket(s, n, l)
<1>1. /\ p.kind = "other" /\ p.source = s /\ p.number = n
      /\ p.len = l /\ p.bytes = Opening(64, s, n) /\ p.rest = l
  <2>1. p = Packet("other", s, n, l, Opening(64, s, n), l)
    BY Zenon DEF OtherPacket, Opening
  <2> HIDE DEF p
  <2> QED
    BY <2>1, PacketParts
<1> HIDE DEF p
<1>2. 64 \in Byte
  BY DEF Byte
<1>3. Opening(64, s, n) \in Seq(Byte) /\ Len(Opening(64, s, n)) = HeadLen(s, n) /\ HeadLen(s, n) \in 3 .. 19
  BY <1>2, HeadBytes
<1>4. HeadLen(s, n) >= 1 /\ HeadLen(s, n) >= HeadLen(s, n)
  BY <1>3
<1>5. PacketOK(p)
  <2>1. "other" \in Kinds
    BY DEF Kinds
  <2> QED
    BY <1>1, <1>3, <1>4, <2>1, Zenon DEF PacketOK
<1>6. Fields(Bytes(p, 0), Size(p)) = Parsed(Bytes(p, 0), Size(p), s, n)
  <2>1. Len(p.bytes) >= HeadLen(s, n) /\ \A i \in 1 .. HeadLen(s, n) : p.bytes[i] = Opening(64, s, n)[i]
    BY <1>1, <1>3, <1>4, Zenon
  <2> QED
    BY <1>2, <1>5, <2>1, HeadFields
<1>7. p.kind # "tunnelled" /\ p.kind # "opus"
  BY <1>1
<1>8. /\ Fields(Bytes(p, 0), Size(p)).source.value = ReadBack(p.source)
      /\ Fields(Bytes(p, 0), Size(p)).number.value = ReadBack(p.number)
  <2> DEFINE f == Parsed(Bytes(p, 0), Size(p), s, n)
  <2>1. f.source.value = ReadBack(s) /\ f.number.value = ReadBack(n)
    BY ParsedNumbers
  <2> HIDE DEF f
  <2>2. Fields(Bytes(p, 0), Size(p)) = f
    BY <1>6 DEF f
  <2> QED
    BY <1>1, <2>1, <2>2
<1>9. Readable(p)
  BY <1>5, <1>7, <1>8, Zenon DEF Readable
<1> QED
  BY <1>9, Zenon DEF p

\* Zero is a number.
LEMMA ZeroNumber ==
  UInt(0) \in UInt64 /\ Clear(UInt(0), 8)
<1>1. 0 \div 256 = 0 /\ 0 % 256 = 0
  BY SMT
<1>2. UInt(0) = <<0, 0, 0, 0, 0, 0, 0, 0>>
  BY <1>1, ZenonT(60) DEF UInt
<1>3. <<0, 0, 0, 0, 0, 0, 0, 0>> \in [1 .. 8 -> 0 .. 255] /\ \A i \in 1 .. 8 : <<0, 0, 0, 0, 0, 0, 0, 0>>[i] = 0
  OBVIOUS
<1> QED
  BY <1>2, <1>3, Zenon DEF UInt64, Byte, Clear

\* A datagram decrypted to noise.
LEMMA NoiseReadable ==
  ASSUME NEW b \in Seq(Byte), b # <<>>, NEW l \in Nat
  PROVE  Readable(NoisePacket(b, l))
<1> DEFINE p == NoisePacket(b, l)
<1>1. /\ p.kind = "noise" /\ p.source = UInt(0) /\ p.number = UInt(0)
      /\ p.bytes = b /\ p.rest = l
  <2>1. p = Packet("noise", UInt(0), UInt(0), 0, b, l)
    BY Zenon DEF NoisePacket
  <2> HIDE DEF p
  <2> QED
    BY <2>1, PacketParts
<1> HIDE DEF p
<1>2. Len(b) >= 1
  BY EmptySeq, LenProperties
<1>3. PacketOK(p)
  <2>1. "noise" \in Kinds
    BY DEF Kinds
  <2> QED
    BY <1>1, <1>2, <2>1, ZeroNumber, Zenon DEF PacketOK
<1>4. p.kind # "tunnelled" /\ p.kind # "opus" /\ p.kind \notin Peers
  BY <1>1 DEF Peers
<1>5. Readable(p)
  BY <1>3, <1>4, Zenon DEF Readable
<1> QED
  BY <1>5, Zenon DEF p

\* The bytes of an Opus packet.
OpusBytes(s, n, v) == Opening(128, s, n) \o varint_encode(v)

\* Behind the two numbers lies the payload's length.
LEMMA OpusBytesParts ==
  ASSUME NEW s \in UInt64, NEW n \in UInt64, NEW v \in UInt64
  PROVE  /\ OpusBytes(s, n, v) \in Seq(Byte)
         /\ Len(OpusBytes(s, n, v)) = HeadLen(s, n) + varint_encode_size(v)
         /\ HeadLen(s, n) \in 3 .. 19 /\ varint_encode_size(v) \in 1 .. 9
         /\ \A i \in 1 .. HeadLen(s, n) : OpusBytes(s, n, v)[i] = Opening(128, s, n)[i]
         /\ \A i \in 1 .. varint_encode_size(v) : OpusBytes(s, n, v)[HeadLen(s, n) + i] = varint_encode(v)[i]
<1> DEFINE h == Opening(128, s, n)
           e == varint_encode(v)
<1>1. 128 \in Byte
  BY DEF Byte
<1>2. h \in Seq(Byte) /\ Len(h) = HeadLen(s, n) /\ HeadLen(s, n) \in 3 .. 19
  BY <1>1, HeadBytes
<1>3. e \in Seq(Byte) /\ Len(e) = varint_encode_size(v) /\ varint_encode_size(v) \in 1 .. 9
  BY EncodedSeq
<1> HIDE DEF h, e
<1>4. /\ h \o e \in Seq(Byte) /\ Len(h \o e) = Len(h) + Len(e)
      /\ \A i \in 1 .. Len(h) : (h \o e)[i] = h[i]
      /\ \A i \in 1 .. Len(e) : (h \o e)[Len(h) + i] = e[i]
  BY <1>2, <1>3, Behind, Zenon
<1>5. OpusBytes(s, n, v) = h \o e
  BY Zenon DEF OpusBytes, h, e
<1> QED
  BY <1>2, <1>3, <1>4, <1>5, ZenonT(60) DEF h, e

\* The parts of an Opus packet.
OpusKind(position) == IF position THEN "positional" ELSE "opus"
OpusRest(l, position) == IF position THEN l + PositionBytes ELSE l

\* They are the arguments of the packet, and its bytes.
LEMMA OpusParts ==
  ASSUME NEW s, NEW n, NEW l, NEW final \in BOOLEAN, NEW position \in BOOLEAN,
         NEW p, p = OpusPacket(s, n, l, final, position)
  PROVE  /\ p.kind = OpusKind(position)
         /\ p.source = s /\ p.number = n /\ p.len = l
         /\ p.bytes = OpusBytes(s, n, OpusLength(l, final))
         /\ p.rest = OpusRest(l, position)
<1> DEFINE kind == OpusKind(position)
           rest == OpusRest(l, position)
           bytes == OpusBytes(s, n, OpusLength(l, final))
<1>1. MUMBLE_AUDIO_OPUS * 32 = 128
  BY DEF MUMBLE_AUDIO_OPUS
<1>2. bytes = <<MUMBLE_AUDIO_OPUS * 32>> \o varint_encode(s) \o varint_encode(n)
                \o varint_encode(UInt(IF final THEN l + 32 * 256 ELSE l))
  BY <1>1, Zenon DEF OpusBytes, Opening, OpusLength
<1> HIDE DEF bytes
<1>3. p = Packet(kind, s, n, l, bytes, rest)
  BY <1>2, ZenonT(60) DEF OpusPacket, OpusKind, OpusRest
<1> HIDE DEF kind, rest
<1>4. /\ p.kind = kind /\ p.source = s /\ p.number = n
      /\ p.len = l /\ p.bytes = bytes /\ p.rest = rest
  BY <1>3, PacketParts
<1> QED
  BY <1>4, Zenon DEF kind, rest, bytes

\* It is well-formed, and read as it was written.
LEMMA OpusFields ==
  ASSUME NEW s \in UInt64, NEW n \in UInt64, NEW l \in Lens, NEW final \in BOOLEAN, NEW position \in BOOLEAN,
         NEW p, p = OpusPacket(s, n, l, final, position)
  PROVE  /\ PacketOK(p)
         /\ Fields(Bytes(p, 0), Size(p)) = Parsed(Bytes(p, 0), Size(p), s, n)
         /\ Bytes(p, 0)[1] = 128
<1> DEFINE v == OpusLength(l, final)
           b == OpusBytes(s, n, v)
           at == HeadLen(s, n)
           L == varint_encode_size(v)
<1>1. /\ p.kind = OpusKind(position)
      /\ p.source = s /\ p.number = n /\ p.len = l /\ p.bytes = b
      /\ p.rest = OpusRest(l, position)
  BY OpusParts
<1>2. v \in UInt64 /\ L \in {1, 2}
  BY OpusLengthRead
<1>3. /\ b \in Seq(Byte) /\ Len(b) = at + L /\ at \in 3 .. 19
      /\ \A i \in 1 .. at : b[i] = Opening(128, s, n)[i]
  BY <1>2, OpusBytesParts
<1> HIDE DEF b, at, L
<1>4. Len(b) >= 1 /\ Len(b) >= at
  BY <1>2, <1>3
<1>5. p.kind \in Kinds /\ p.rest \in Nat
  <2>1. l \in Nat
    BY ReceiveAssumption
  <2>2. l + PositionBytes \in Nat
    BY <2>1 DEF PositionBytes
  <2>3. "positional" \in Kinds /\ "opus" \in Kinds
    BY DEF Kinds
  <2> QED
    BY <1>1, <2>1, <2>2, <2>3, Zenon DEF OpusKind, OpusRest
<1>6. PacketOK(p)
  BY <1>1, <1>3, <1>4, <1>5, Zenon DEF PacketOK
<1>7. Len(p.bytes) >= at /\ \A i \in 1 .. at : p.bytes[i] = Opening(128, s, n)[i]
  BY <1>1, <1>3, <1>4, Zenon
<1>8. 128 \in Byte
  BY DEF Byte
<1> QED
  BY <1>6, <1>7, <1>8, HeadFields DEF at

\* Its length is read where it was written, and is that of the payload.
LEMMA OpusLengthField ==
  ASSUME NEW s \in UInt64, NEW n \in UInt64, NEW l \in Lens, NEW final \in BOOLEAN, NEW position \in BOOLEAN, ~position,
         NEW p, p = OpusPacket(s, n, l, final, position)
  PROVE  \E L \in {1, 2} :
           /\ Size(p) = HeadLen(s, n) + L + l
           /\ Field(Bytes(p, 0), Size(p), HeadLen(s, n)) = Decoded(L, OpusLength(l, final))
<1> DEFINE v == OpusLength(l, final)
           ob == OpusBytes(s, n, v)
           at == HeadLen(s, n)
           L == varint_encode_size(v)
           b == Bytes(p, 0)
           len == Size(p)
<1>1. p.bytes = ob /\ p.rest = l
  <2>1. p.bytes = ob /\ p.rest = OpusRest(l, position)
    BY OpusParts
  <2> QED
    BY <2>1, Zenon DEF OpusRest
<1>2. v \in UInt64 /\ L \in {1, 2} /\ ReadBack(v) = v
  BY OpusLengthRead
<1>3. /\ Len(ob) = at + L /\ at \in 3 .. 19
      /\ \A i \in 1 .. L : ob[at + i] = varint_encode(v)[i]
  BY <1>2, OpusBytesParts
<1>4. PacketOK(p)
  BY OpusFields
<1>5. /\ b \in Seq(Byte) /\ Len(b) = Len(p.bytes) + 28
      /\ \A i \in 1 .. Len(p.bytes) : b[i] = p.bytes[i]
  BY <1>4, BytesOf
<1>6. len = Len(p.bytes) + p.rest
  BY DEF Size
<1> HIDE DEF v, ob, at, L, b, len
<1>7. /\ Len(b) = at + L + 28 /\ len = at + L + l
      /\ \A i \in 1 .. at + L : b[i] = ob[i]
  BY <1>1, <1>3, <1>5, <1>6
<1>8. l \in Nat
  BY ReceiveAssumption, SMTT(60)
<1>9. at \in Nat /\ at + 9 <= Len(b) /\ len \in Int /\ len - at >= L /\ \A i \in 1 .. L : at + i \in 1 .. at + L
  BY <1>2, <1>3, <1>7, <1>8
<1>10. \A i \in 1 .. L : b[at + i] = varint_encode(v)[i]
  BY <1>3, <1>7, <1>9, Zenon
<1>11. Field(b, len, at) = Decoded(L, ReadBack(v))
  <2>1. b \in Seq(Byte)
    BY <1>5
  <2> QED
    BY <1>2, <1>9, <1>10, <2>1, FieldAt DEF L
<1> QED
  BY <1>2, <1>7, <1>11, Zenon DEF v, at, b, len

\* It passes the assertions when it is long enough and decodes to as many samples.
LEMMA OpusEndsWell ==
  ASSUME NEW s \in UInt64, NEW n \in UInt64, NEW l \in Lens, NEW final \in BOOLEAN, NEW position \in BOOLEAN, ~position,
         NEW p, p = OpusPacket(s, n, l, final, position),
         NEW sequence, NEW samples \in Int, Size(p) > 8, l + 2 <= samples
  PROVE  udp_cb(sequence, Bytes(p, 0), Size(p), samples) \in {"played", "dropped"}
<1> DEFINE v == OpusLength(l, final)
           at == HeadLen(s, n)
           b == Bytes(p, 0)
           len == Size(p)
           f == Fields(b, len)
<1>1. PICK L \in {1, 2} : len = at + L + l /\ Field(b, len, at) = Decoded(L, v)
  BY OpusLengthField
<1>2. PacketOK(p) /\ f = Parsed(b, len, s, n) /\ b[1] = 128
  BY OpusFields
<1>3. varint_encode_size(n) \in 1 .. 9 /\ at \in 3 .. 19
  <2>1. 128 \in Byte
    BY DEF Byte
  <2> QED
    BY <2>1, EncodedSeq, HeadBytes
<1>4. l \in Nat \ {0}
  BY ReceiveAssumption, SMTT(60)
<1>5. VarLen(v) = l
  BY OpusLengthRead
<1> HIDE DEF v, at, b, len, f
<1>6. f.number.read \in 1 .. 9 /\ f.length = Decoded(L, v) /\ f.at = at
  <2> DEFINE g == Parsed(b, len, s, n)
  <2>1. g.number.read = varint_encode_size(n) /\ g.length = Field(b, len, at) /\ g.at = at
    BY ParsedNumbers DEF at
  <2> HIDE DEF g
  <2>2. f = g
    BY <1>2 DEF g
  <2> QED
    BY <1>1, <1>3, <2>1, <2>2
<1>7. f.length.read = L /\ f.length.value = v
  BY <1>6 DEF Decoded
<1>8. len \in Nat /\ samples \in Nat /\ samples > 0 /\ len - at <= samples /\ L \in 1 .. 9 /\ at \in Nat
  BY <1>1, <1>3, <1>4
<1>9. LengthHolds(l, len - at, L)
  BY <1>1, <1>3, <1>4 DEF LengthHolds
<1>10. Codec(128) = MUMBLE_AUDIO_OPUS
  BY DEF Codec, MUMBLE_AUDIO_OPUS
<1>11. mumble_audio_decoder_decode(sequence, b, len, samples) \in {"played", "dropped"}
  <2>1. Codec(b[1]) = MUMBLE_AUDIO_OPUS
    BY <1>2, <1>10
  <2>2. len > 8
    BY DEF len
  <2>3. f.number.read \in 1 .. 9 /\ f.length.read \in 1 .. 9 /\ f.at \in Nat
    BY <1>6, <1>7, <1>8
  <2>4. LengthHolds(VarLen(f.length.value), len - f.at, f.length.read)
    BY <1>5, <1>6, <1>7, <1>9
  <2>5. len - f.at <= samples
    BY <1>6, <1>8
  <2>6. f = Fields(b, len)
    BY DEF f
  <2> QED
    BY <1>8, <2>1, <2>2, <2>3, <2>4, <2>5, <2>6, OpusPlays
<1>12. b[1] # 32
  BY <1>2
<1> QED
  BY <1>11, <1>12, Zenon DEF udp_cb, b, len

\* A speaker's Opus packet.
LEMMA OpusReadable ==
  ASSUME NEW s \in UInt64, NEW n \in UInt64, NEW l \in Lens, NEW final \in BOOLEAN, NEW position \in BOOLEAN
  PROVE  Readable(OpusPacket(s, n, l, final, position))
<1> DEFINE p == OpusPacket(s, n, l, final, position)
<1>0. p = OpusPacket(s, n, l, final, position)
  OBVIOUS
<1> HIDE DEF p
<1>1. PacketOK(p) /\ Fields(Bytes(p, 0), Size(p)) = Parsed(Bytes(p, 0), Size(p), s, n)
  BY <1>0, OpusFields
<1>2. p.kind = OpusKind(position) /\ p.source = s /\ p.number = n /\ p.len = l
  <2>1. /\ p.kind = OpusKind(position) /\ p.source = s /\ p.number = n /\ p.len = l
        /\ p.bytes = OpusBytes(s, n, OpusLength(l, final)) /\ p.rest = OpusRest(l, position)
    BY <1>0, OpusParts
  <2> QED
    BY <2>1
<1>3. ASSUME ~position, NEW sequence, NEW samples \in Int, Size(p) > 8, p.len + 2 <= samples
      PROVE  udp_cb(sequence, Bytes(p, 0), Size(p), samples) \in {"played", "dropped"}
  <2>1. l + 2 <= samples
    BY <1>2, <1>3
  <2> QED
    BY <1>0, <1>3, <2>1, OpusEndsWell
<1>4. p.kind # "tunnelled" /\ (p.kind = "opus" => ~position)
  BY <1>2, Zenon DEF OpusKind
<1>5. /\ Fields(Bytes(p, 0), Size(p)).source.value = ReadBack(p.source)
      /\ Fields(Bytes(p, 0), Size(p)).number.value = ReadBack(p.number)
  <2> DEFINE f == Parsed(Bytes(p, 0), Size(p), s, n)
  <2>1. f.source.value = ReadBack(s) /\ f.number.value = ReadBack(n)
    BY ParsedNumbers
  <2> HIDE DEF f
  <2>2. Fields(Bytes(p, 0), Size(p)) = f
    BY <1>1 DEF f
  <2> QED
    BY <1>2, <2>1, <2>2
<1>6. Readable(p)
  BY <1>1, <1>3, <1>4, <1>5, Zenon DEF Readable
<1> QED
  BY <1>6, Zenon DEF p

\* A field of one byte.
LEMMA SmallField ==
  ASSUME NEW v \in UInt64, Clear(v, 7), v[8] \in 0 .. 127,
         NEW bytes \in Seq(Byte), NEW k \in Nat, k + 9 <= Len(bytes), bytes[k + 1] = v[8],
         NEW len \in Int, len - k >= 1
  PROVE  Field(bytes, len, k) = Decoded(1, v)
<1> DEFINE n == varint_encode_size(v)
           x == v[8]
<1>1. Room(v, 1)
  <2>1. x \in 0 .. 127
    OBVIOUS
  <2> HIDE DEF x
  <2>2. x < 128
    BY <2>1
  <2> QED
    BY <2>2, Zenon DEF Room, x
<1>2. n = 1
  <2>1. n \in Forms /\ \A m \in Forms : m < n => ~Room(v, m)
    BY SmallestForm
  <2> HIDE DEF n
  <2>2. 1 \in Forms
    BY DEF Forms
  <2>3. ~(1 < n)
    BY <1>1, <2>1, <2>2, Zenon
  <2> QED
    BY <2>1, <2>3 DEF Forms
<1>3. varint_encode(v)[1] = v[8]
  <2>1. 1 \in Forms /\ 1 = varint_encode_size(v) /\ 1 <= 4 /\ 9 - 1 = 8
    BY <1>2 DEF Forms
  <2>2. varint_encode(v)[1] = IF 1 <= 4 THEN v[9 - 1] + Marker[1] ELSE Marker[1]
    BY <2>1, EncodedBytes
  <2>3. Marker[1] = 0
    BY DEF Marker
  <2>4. varint_encode(v)[1] = x + 0
    BY <2>1, <2>2, <2>3
  <2>5. x \in 0 .. 127
    OBVIOUS
  <2> HIDE DEF x
  <2>6. x + 0 = x
    BY <2>5
  <2> QED
    BY <2>4, <2>6 DEF x
<1>4. \A i \in 1 .. n : bytes[k + i] = varint_encode(v)[i]
  <2>1. \A i \in 1 .. n : i = 1
    BY <1>2
  <2>2. bytes[k + 1] = varint_encode(v)[1]
    BY <1>3
  <2> QED
    BY <2>1, <2>2, Zenon
<1>5. ReadBack(v) = v
  <2>1. ~(n >= 5)
    BY <1>2
  <2>2. ReadBack(v) = v \/ n >= 5
    BY ReadBackBytes
  <2> QED
    BY <2>1, <2>2, Zenon
<1>6. len - k >= n
  BY <1>2
<1>7. Field(bytes, len, k) = Decoded(n, ReadBack(v))
  BY <1>4, <1>6, FieldAt
<1> QED
  BY <1>2, <1>5, <1>7, Zenon

\* Two numbers of one byte.
LEMMA SmallNumbers ==
  /\ UInt(0) \in UInt64 /\ Clear(UInt(0), 7) /\ UInt(0)[8] = 0
  /\ UInt(1) \in UInt64 /\ Clear(UInt(1), 7) /\ UInt(1)[8] = 1
<1>1. 8 \in 1 .. 8 /\ \A i \in 1 .. 7 : i \in 1 .. 8
  OBVIOUS
<1>2. Clear(UInt(0), 7) /\ UInt(0)[8] = 0
  BY <1>1, ZeroNumber, Zenon DEF Clear
<1>3. 0 \div 256 = 0 /\ 0 % 256 = 0 /\ 1 \div 256 = 0 /\ 1 % 256 = 1
  BY SMT
<1>4. UInt(1) = <<0, 0, 0, 0, 0, 0, 0, 1>>
  BY <1>3, ZenonT(60) DEF UInt
<1> DEFINE v == <<0, 0, 0, 0, 0, 0, 0, 1>>
<1>5. v \in [1 .. 8 -> 0 .. 255] /\ (\A i \in 1 .. 7 : v[i] = 0) /\ v[8] = 1
  OBVIOUS
<1> HIDE DEF v
<1>6. v \in UInt64 /\ Clear(v, 7) /\ v[8] = 1
  BY <1>5, Zenon DEF UInt64, Byte, Clear
<1>7. UInt(1) = v
  BY <1>4 DEF v
<1> QED
  BY <1>2, <1>6, <1>7, ZeroNumber, Zenon

\* The header of a frame is read as a source and as the number zero.
LEMMA FrameFields ==
  ASSUME NEW b \in Seq(Byte), Len(b) >= 29, b[2] = 1, b[3] = 0, NEW len \in Nat, len >= 9
  PROVE  Fields(b, len).number.value = UInt(0)
<1> DEFINE zero == UInt(0)
           one == UInt(1)
           ds == Decoded(1, one)
           dn == Decoded(1, zero)
<1>1. /\ zero \in UInt64 /\ Clear(zero, 7) /\ zero[8] = 0
      /\ one \in UInt64 /\ Clear(one, 7) /\ one[8] = 1
  BY SmallNumbers
<1> HIDE DEF zero, one
<1>2. 1 + 9 <= Len(b) /\ 2 + 9 <= Len(b) /\ len - 1 >= 1 /\ len - 2 >= 1 /\ 1 + 1 = 2 /\ 2 + 1 = 3
  BY LenProperties
<1>3. Field(b, len, 1) = ds
  <2>1. b[1 + 1] = one[8] /\ one[8] \in 0 .. 127
    BY <1>1, <1>2
  <2> QED
    BY <1>1, <1>2, <2>1, SmallField
<1>4. Field(b, len, 2) = dn
  <2>1. b[2 + 1] = zero[8] /\ zero[8] \in 0 .. 127
    BY <1>1, <1>2
  <2> QED
    BY <1>1, <1>2, <2>1, SmallField
<1>5. ds.read = 1 /\ dn.read = 1 /\ dn.value = zero /\ ~(1 <= 0)
  BY DEF Decoded
<1> HIDE DEF ds, dn
<1>6. Field(b, len, 1 + ds.read) = dn /\ ~(ds.read <= 0) /\ ~(dn.read <= 0)
  BY <1>2, <1>4, <1>5, Zenon
<1> DEFINE at == 1 + ds.read + dn.read
           length == Field(b, len, at)
<1>7. Fields(b, len) = [source |-> ds, number |-> dn, length |-> length, at |-> at]
  BY <1>3, <1>6, Zenon DEF Fields
<1> HIDE DEF at, length
<1>8. Fields(b, len).number = dn
  BY <1>7
<1> QED
  BY <1>5, <1>8, Zenon DEF zero

\* The two bytes of a frame's length.
LEMMA TwoBytes ==
  ASSUME NEW z \in 0 .. 33 * 256 - 1
  PROVE  z \div 256 \in 0 .. 255 /\ z % 256 \in 0 .. 255
<1>1. z \in Nat /\ z <= 33 * 256 - 1
  OBVIOUS
<1>2. z % 256 \in 0 .. 255
  BY <1>1, SMT
<1>3. z \div 256 \in 0 .. 255
  BY <1>1, SMT
<1> QED
  BY <1>2, <1>3

\* A frame from the tunnel: its header, and the packet.
LEMMA TunnelReadable ==
  ASSUME NEW s \in UInt64, NEW n \in UInt64, NEW l \in Lens
  PROVE  Readable(TunnelPacket(s, n, l))
<1> DEFINE p0 == OpusPacket(s, n, l, FALSE, FALSE)
           v == OpusLength(l, FALSE)
           b0 == OpusBytes(s, n, v)
           size == Len(b0) + l
           x == size \div 256
           y == size % 256
           t == <<0, 1, 0, 0, x, y>>
           b == t \o b0
           p == TunnelPacket(s, n, l)
<1>1. p0 = Packet("opus", s, n, l, b0, l)
  <2>1. MUMBLE_AUDIO_OPUS * 32 = 128
    BY DEF MUMBLE_AUDIO_OPUS
  <2> QED
    BY <2>1, Zenon DEF OpusPacket, OpusBytes, Opening, OpusLength
<1>2. l \in 1 .. 32 * 256 - 1
  BY ReceiveAssumption
<1>3. v \in UInt64 /\ varint_encode_size(v) \in {1, 2}
  <2>1. FALSE \in BOOLEAN
    OBVIOUS
  <2> QED
    BY <2>1, OpusLengthRead, Zenon
<1> HIDE DEF p0, v
<1>4. b0 \in Seq(Byte) /\ Len(b0) \in 4 .. 21
  <2> DEFINE at == HeadLen(s, n)
             L == varint_encode_size(v)
             K == Len(b0)
  <2>1. b0 \in Seq(Byte) /\ K = at + L /\ at \in 3 .. 19
    BY <1>3, OpusBytesParts
  <2>2. L \in {1, 2}
    BY <1>3
  <2> HIDE DEF at, L, K
  <2>3. K \in 4 .. 21
    BY <2>1, <2>2
  <2> QED
    BY <2>1, <2>3 DEF K
<1> HIDE DEF b0
<1>5. x \in 0 .. 255 /\ y \in 0 .. 255
  <2> DEFINE K == Len(b0)
  <2>1. K \in 4 .. 21
    BY <1>4
  <2> HIDE DEF K
  <2> DEFINE z == K + l
  <2>2. z \in 0 .. 33 * 256 - 1
    BY <1>2, <2>1, SMT
  <2> HIDE DEF z
  <2>3. z \div 256 \in 0 .. 255 /\ z % 256 \in 0 .. 255
    BY <2>2, TwoBytes
  <2> QED
    BY <2>3, Zenon DEF z, K
<1>6. p = Packet("tunnelled", s, n, l, b, l)
  <2>1. p0.bytes = b0
    BY <1>1, PacketParts
  <2>2. p = [p0 EXCEPT !.kind = "tunnelled", !.bytes = <<0, 1, 0, 0, (Len(p0.bytes) + l) \div 256, (Len(p0.bytes) + l) % 256>> \o @]
    BY Zenon DEF TunnelPacket, p0
  <2> HIDE DEF p
  <2>3. <<0, 1, 0, 0, (Len(p0.bytes) + l) \div 256, (Len(p0.bytes) + l) % 256>> \o p0.bytes = b
    BY <2>1, Zenon
  <2>4. p = [p0 EXCEPT !.kind = "tunnelled", !.bytes = b]
    BY <2>2, <2>3, Zenon
  <2> HIDE DEF b
  <2> QED
    BY <1>1, <2>4 DEF Packet
<1> HIDE DEF p, size, x, y
<1>7. t \in Seq(Byte) /\ Len(t) = 6 /\ t[2] = 1 /\ t[3] = 0
  BY <1>5 DEF Byte
<1> HIDE DEF t
<1>8. /\ b \in Seq(Byte) /\ Len(b) = Len(t) + Len(b0)
      /\ \A i \in 1 .. Len(t) : b[i] = t[i]
  BY <1>4, <1>7, Behind, Zenon
<1> HIDE DEF b
<1>9. Len(b) >= 9 /\ b[2] = 1 /\ b[3] = 0
  <2>1. Len(b) >= 9 /\ 2 \in 1 .. Len(t) /\ 3 \in 1 .. Len(t)
    <3> DEFINE K == Len(b0)
               T == Len(t)
    <3>1. K \in 4 .. 21 /\ T = 6 /\ Len(b) = T + K
      BY <1>4, <1>7, <1>8
    <3> HIDE DEF K, T
    <3>2. Len(b) >= 9 /\ 2 \in 1 .. T /\ 3 \in 1 .. T
      BY <3>1
    <3> QED
      BY <3>2 DEF T
  <2> QED
    BY <1>7, <1>8, <2>1, Zenon
<1>10. /\ p.kind = "tunnelled" /\ p.source = s /\ p.number = n
       /\ p.len = l /\ p.bytes = b /\ p.rest = l
  BY <1>6, PacketParts
<1>11. PacketOK(p)
  <2>1. "tunnelled" \in Kinds
    BY DEF Kinds
  <2>2. Len(b) >= 1 /\ l \in Nat
    BY <1>2, <1>8, <1>9, LenProperties
  <2> QED
    BY <1>8, <1>10, <2>1, <2>2, Zenon DEF PacketOK
<1>12. Clear(Fields(Bytes(p, 0), Size(p)).number.value, 8)
  <2> DEFINE c == Bytes(p, 0)
             len == Size(p)
  <2>1. /\ c \in Seq(Byte) /\ Len(c) >= 29 /\ Len(p.bytes) \in Nat
        /\ \A i \in 1 .. Len(p.bytes) : c[i] = p.bytes[i]
        /\ len \in Nat
    BY <1>11, BytesOf
  <2>2. len = Len(p.bytes) + p.rest
    BY DEF Size
  <2> HIDE DEF c, len
  <2>3. len >= 9 /\ 2 \in 1 .. Len(p.bytes) /\ 3 \in 1 .. Len(p.bytes)
    <3>1. Len(p.bytes) = Len(b) /\ p.rest \in Nat
      <4>1. l \in Nat
        BY <1>2
      <4> QED
        BY <1>10, <4>1, Zenon
    <3>2. Len(b) \in Nat /\ len = Len(b) + p.rest
      BY <2>1, <2>2, <3>1
    <3>3. 2 \in 1 .. Len(b) /\ 3 \in 1 .. Len(b)
      BY <1>9, <3>2
    <3>4. len >= 9
      <4> DEFINE r == p.rest
      <4>1. r \in Nat /\ len = Len(b) + r
        BY <3>1, <3>2
      <4> HIDE DEF r
      <4> QED
        BY <1>9, <3>2, <4>1
    <3> QED
      BY <3>1, <3>3, <3>4, Zenon
  <2>4. c[2] = 1 /\ c[3] = 0
    BY <1>9, <1>10, <2>1, <2>3, Zenon
  <2>5. Fields(c, len).number.value = UInt(0)
    BY <2>1, <2>3, <2>4, FrameFields
  <2> QED
    BY <2>5, ZeroNumber, Zenon DEF c, len
<1>13. p.kind # "opus" /\ p.kind \notin Peers
  BY <1>10 DEF Peers
<1>14. Readable(p)
  BY <1>11, <1>12, <1>13, Zenon DEF Readable
<1> QED
  BY <1>14, Zenon DEF p

-------------------------------------------------------------------------------
(* One packet. *)

\* A datagram ends as the decoder says, or as a ping's answer does.
LEMMA UdpEnds ==
  ASSUME NEW sequence, NEW bytes, NEW len, NEW samples,
         NEW r, r = udp_cb(sequence, bytes, len, samples)
  PROVE  /\ r # "none"
         /\ r = "dropped" => Stale(Fields(bytes, len).number.value, sequence)
         /\ r = "played" => ~Stale(Fields(bytes, len).number.value, sequence)
<1> DEFINE stale == Stale(Fields(bytes, len).number.value, sequence)
           d == mumble_audio_decoder_decode(sequence, bytes, len, samples)
<1>1. d \notin {"none", "pong"} /\ (d = "dropped" => stale) /\ (d = "played" => ~stale)
  <2> HIDE DEF d
  <2>1. d = mumble_audio_decoder_decode(sequence, bytes, len, samples)
    BY DEF d
  <2> QED
    BY <2>1, DecodeEnds
<1>2. r \in PingEnds \/ r = d
  <2>1. CASE bytes[1] # 32
    BY <2>1, Zenon DEF udp_cb
  <2>2. CASE bytes[1] = 32
    <3> DEFINE time == Field(bytes, len, 1).read
    <3>1. r = IF time > 0 THEN "pong" ELSE IF time = 0 THEN "audio.c:13" ELSE "audio.c:14"
      BY <2>2, Zenon DEF udp_cb
    <3> HIDE DEF time
    <3> QED
      BY <3>1, Zenon DEF PingEnds
  <2> QED
    BY <2>1, <2>2
<1> HIDE DEF stale, d
<1>3. /\ r # "none"
      /\ r = "dropped" => stale
      /\ r = "played" => ~stale
  BY <1>1, <1>2 DEF PingEnds
<1> QED
  BY <1>3 DEF stale

\* What a packet does: how it ends, and the two numbers read of it.
Outcome(p, samples, end, source, number) ==
  /\ p.kind \in Peers => source = ReadBack(p.source) /\ number = ReadBack(p.number)
  /\ p.kind = "tunnelled" => Clear(number, 8)
  /\ end # "none"
  /\ end = "dropped" => Below(number, decoder.sequence)
  /\ end = "played" => ~Below(number, decoder.sequence)
  /\ p.kind = "opus" /\ Size(p) > 8 /\ p.len + 2 <= samples => end \in {"played", "dropped"}
  /\ decoder' = [sequence |-> IF end = "played" THEN Stored(number) ELSE decoder.sequence,
                 packets |-> IF end \in PingEnds THEN decoder.packets ELSE decoder.packets + 1,
                 dropped_sequence |-> IF end = "dropped" THEN decoder.dropped_sequence + 1
                                                         ELSE decoder.dropped_sequence]
  /\ played' = IF end = "played" THEN decoder_cb(p) ELSE played
  /\ last' = [packet |-> p, source |-> source, number |-> number, samples |-> samples, end |-> end]

\* Every packet has such an outcome.
LEMMA ReceiveOutcome ==
  ASSUME NEW p, NEW samples \in Int, Readable(p), Receive(p, samples)
  PROVE  \E end : \E source, number \in UInt64 : Outcome(p, samples, end, source, number)
<1>1. PICK junk \in IF p.kind = "noise" THEN {0, 255} ELSE {0} :
       LET bytes == p.bytes \o [i \in 1 .. 28 |-> junk]
           len   == Len(p.bytes) + p.rest
           f     == Fields(bytes, len)
           end   == IF p.kind = "tunnelled"
                      THEN mumble_audio_decoder_decode(decoder.sequence, bytes, len, samples)
                      ELSE udp_cb(decoder.sequence, bytes, len, samples)
       IN  /\ decoder' = [sequence |-> IF end = "played" THEN Stored(f.number.value) ELSE decoder.sequence,
                          packets |-> IF end \in PingEnds THEN decoder.packets ELSE decoder.packets + 1,
                          dropped_sequence |-> IF end = "dropped" THEN decoder.dropped_sequence + 1
                                                                  ELSE decoder.dropped_sequence]
           /\ played' = IF end = "played" THEN decoder_cb(p) ELSE played
           /\ last' = [packet |-> p, source |-> f.source.value, number |-> f.number.value,
                       samples |-> samples, end |-> end]
  BY Zenon DEF Receive
<1> DEFINE bytes == Bytes(p, junk)
           len   == Size(p)
           f     == Fields(bytes, len)
           source == f.source.value
           number == f.number.value
           sequence == decoder.sequence
           tunnelled == p.kind = "tunnelled"
           decode == mumble_audio_decoder_decode(sequence, bytes, len, samples)
           udp    == udp_cb(sequence, bytes, len, samples)
           end   == IF tunnelled THEN decode ELSE udp
<1>2. /\ decoder' = [sequence |-> IF end = "played" THEN Stored(number) ELSE decoder.sequence,
                     packets |-> IF end \in PingEnds THEN decoder.packets ELSE decoder.packets + 1,
                     dropped_sequence |-> IF end = "dropped" THEN decoder.dropped_sequence + 1
                                                             ELSE decoder.dropped_sequence]
      /\ played' = IF end = "played" THEN decoder_cb(p) ELSE played
      /\ last' = [packet |-> p, source |-> source, number |-> number, samples |-> samples, end |-> end]
  BY <1>1, Zenon DEF Bytes, Padding, Size
<1>3. junk \in {0, 255} /\ (p.kind # "noise" => junk = 0)
  BY <1>1, Zenon
<1>4. PacketOK(p)
  BY Zenon DEF Readable
<1>5. source \in UInt64 /\ number \in UInt64
  <2>1. bytes \in Seq(Byte) /\ Len(bytes) >= 29 /\ len \in Nat
    BY <1>3, <1>4, BytesOf
  <2> HIDE DEF bytes, len
  <2>2. len \in Int
    BY <2>1
  <2> QED
    BY <2>1, <2>2, FieldsType
<1>6. /\ p.kind \in Peers => source = ReadBack(p.source) /\ number = ReadBack(p.number)
      /\ p.kind = "tunnelled" => Clear(number, 8)
      /\ p.kind = "opus" /\ Size(p) > 8 /\ p.len + 2 <= samples => end \in {"played", "dropped"}
  <2>1. p.kind \in Peers \/ p.kind = "tunnelled" \/ p.kind = "opus" => p.kind # "noise"
    BY DEF Peers
  <2>2. p.kind = "opus" => ~tunnelled
    OBVIOUS
  <2>3. p.kind = "opus" => end = udp
    BY <2>2, Zenon
  <2>4. p.kind # "noise" => bytes = Bytes(p, 0)
    BY <1>3, Zenon
  <2>5. /\ p.kind \in Peers =>
           /\ Fields(Bytes(p, 0), Size(p)).source.value = ReadBack(p.source)
           /\ Fields(Bytes(p, 0), Size(p)).number.value = ReadBack(p.number)
        /\ p.kind = "tunnelled" => Clear(Fields(Bytes(p, 0), Size(p)).number.value, 8)
        /\ p.kind = "opus" /\ Size(p) > 8 /\ p.len + 2 <= samples =>
             udp_cb(sequence, Bytes(p, 0), Size(p), samples) \in {"played", "dropped"}
    BY Zenon DEF Readable
  <2> HIDE DEF bytes
  <2>6. p.kind = "opus" /\ Size(p) > 8 /\ p.len + 2 <= samples => end \in {"played", "dropped"}
    <3> SUFFICES ASSUME p.kind = "opus", Size(p) > 8, p.len + 2 <= samples PROVE end \in {"played", "dropped"}
      BY Zenon
    <3>1. udp_cb(sequence, Bytes(p, 0), Size(p), samples) \in {"played", "dropped"}
      BY <2>5, Zenon
    <3>2. udp = udp_cb(sequence, Bytes(p, 0), Size(p), samples)
      BY <2>1, <2>4, Zenon
    <3> HIDE DEF udp, end
    <3> QED
      BY <2>3, <3>1, <3>2, Zenon
  <2> QED
    BY <2>1, <2>4, <2>5, <2>6, Zenon
<1>7. /\ end # "none"
      /\ end = "dropped" => Below(number, sequence)
      /\ end = "played" => ~Below(number, sequence)
  <2> DEFINE stale == Stale(number, sequence)
  <2>1. decode \notin {"none", "pong"} /\ (decode = "dropped" => stale) /\ (decode = "played" => ~stale)
    <3> HIDE DEF decode
    <3>1. decode = mumble_audio_decoder_decode(sequence, bytes, len, samples)
      BY DEF decode
    <3> QED
      BY <3>1, DecodeEnds
  <2>2. udp # "none" /\ (udp = "dropped" => stale) /\ (udp = "played" => ~stale)
    <3> HIDE DEF udp
    <3>1. udp = udp_cb(sequence, bytes, len, samples)
      BY DEF udp
    <3> QED
      BY <3>1, UdpEnds
  <2>3. stale <=> Below(number, sequence)
    BY Zenon DEF Stale
  <2> HIDE DEF decode, udp, tunnelled, stale, number, sequence
  <2>4. end = decode \/ end = udp
    BY Zenon
  <2> HIDE DEF end
  <2> QED
    BY <2>1, <2>2, <2>3, <2>4, Zenon
<1> HIDE DEF source, number, end
<1>8. Outcome(p, samples, end, source, number)
  BY <1>2, <1>6, <1>7, Zenon DEF Outcome
<1> QED
  BY <1>5, <1>8, Zenon

-------------------------------------------------------------------------------
(* The invariant. *)
Played == [kind : Kinds, source : UInt64, number : UInt64]

\* While numbers are below 2^31 the decoder remembers the number it played last.
SequenceIsLast ==
  LET p == played[Len(played)]
  IN  played # <<>> /\ p.kind \in {"opus", "other"} /\ Early(p.number) => decoder.sequence = p.number

\* What is below the remembered number is below one that was played, or noise was
\* played.
SequenceWasPlayed ==
  \A x \in UInt64 : Below(x, decoder.sequence) =>
    \E i \in DOMAIN played : played[i].kind = "noise" \/ Below(x, played[i].number)

ReceiveInv ==
  /\ ReceiveTypeOK
  /\ decoder.dropped_sequence \in Nat /\ played \in Seq(Played)
  /\ SequenceIsLast /\ SequenceWasPlayed
  /\ PlayedInOrder /\ SelfDelimiting /\ DropNeedsOvertaking /\ OpusSurvives

\* The packet that is handed on comes behind the others.
LEMMA OneMore ==
  ASSUME NEW p, PacketOK(p), played \in Seq(Played)
  PROVE  /\ decoder_cb(p) \in Seq(Played)
         /\ Len(played) \in Nat
         /\ Len(decoder_cb(p)) = Len(played) + 1
         /\ DOMAIN played = 1 .. Len(played)
         /\ DOMAIN decoder_cb(p) = 1 .. Len(played) + 1
         /\ \A i \in 1 .. Len(played) : decoder_cb(p)[i] = played[i]
         /\ decoder_cb(p)[Len(played) + 1].kind = p.kind
         /\ decoder_cb(p)[Len(played) + 1].number = p.number
<1> DEFINE r == [kind |-> p.kind, source |-> p.source, number |-> p.number]
           m == Len(played)
           q == Append(played, r)
<1>1. r \in Played /\ r.kind = p.kind /\ r.number = p.number
  BY DEF PacketOK, Played
<1>2. m \in Nat /\ DOMAIN played = 1 .. m
  BY LenProperties
<1> HIDE DEF r
<1>3. /\ q \in Seq(Played) /\ Len(q) = Len(played) + 1
      /\ \A i \in 1 .. Len(played) : q[i] = played[i]
      /\ q[Len(played) + 1] = r
  BY <1>1, AppendProperties
<1>4. DOMAIN q = 1 .. Len(q)
  BY <1>3, LenProperties
<1>5. decoder_cb(p) = q
  BY Zenon DEF decoder_cb, r
<1> HIDE DEF q
<1> QED
  BY <1>1, <1>2, <1>3, <1>4, <1>5, Zenon

\* What the three variables are after a packet.
LEMMA OutcomeState ==
  ASSUME NEW p, NEW samples, NEW end, NEW source, NEW number, Outcome(p, samples, end, source, number)
  PROVE  /\ decoder'.sequence = IF end = "played" THEN Stored(number) ELSE decoder.sequence
         /\ decoder'.packets = IF end \in PingEnds THEN decoder.packets ELSE decoder.packets + 1
         /\ decoder'.dropped_sequence = IF end = "dropped" THEN decoder.dropped_sequence + 1
                                                           ELSE decoder.dropped_sequence
         /\ played' = IF end = "played" THEN decoder_cb(p) ELSE played
         /\ last'.packet = p /\ last'.source = source /\ last'.number = number
         /\ last'.samples = samples /\ last'.end = end
<1> DEFINE s == IF end = "played" THEN Stored(number) ELSE decoder.sequence
           k == IF end \in PingEnds THEN decoder.packets ELSE decoder.packets + 1
           d == IF end = "dropped" THEN decoder.dropped_sequence + 1 ELSE decoder.dropped_sequence
<1>1. /\ decoder' = [sequence |-> s, packets |-> k, dropped_sequence |-> d]
      /\ played' = IF end = "played" THEN decoder_cb(p) ELSE played
      /\ last' = [packet |-> p, source |-> source, number |-> number, samples |-> samples, end |-> end]
  BY Zenon DEF Outcome
<1> HIDE DEF s, k, d
<1>2. decoder'.sequence = s /\ decoder'.packets = k /\ decoder'.dropped_sequence = d
  BY <1>1
<1>3. /\ last'.packet = p /\ last'.source = source /\ last'.number = number
      /\ last'.samples = samples /\ last'.end = end
  BY <1>1
<1> QED
  BY <1>1, <1>2, <1>3, Zenon DEF s, k, d

\* Nothing comes before zero.
LEMMA NothingBelowZero ==
  ASSUME NEW v \in UInt64, Clear(v, 8), NEW x \in UInt64
  PROVE  ~Below(x, Stored(v))
<1>1. \A i \in 1 .. 8 : v[i] = 0
  BY Zenon DEF Clear
<1>2. \A i \in 1 .. 8 : Stored(v)[i] = 0
  BY <1>1 DEF Stored
<1>3. \A i \in 1 .. 8 : ~(x[i] < 0)
  <2>1. \A i \in 1 .. 8 : x[i] \in 0 .. 255
    BY NumberSeq DEF Byte
  <2> QED
    BY <2>1, ByteOrder, Zenon
<1> QED
  BY <1>2, <1>3, Zenon DEF Below

\* A packet keeps the relation between the remembered number and those played.
LEMMA ReceiveSequence ==
  ASSUME ReceiveInv, NEW p, PacketOK(p), NEW samples, NEW end, NEW source \in UInt64, NEW number \in UInt64,
         Outcome(p, samples, end, source, number)
  PROVE  SequenceIsLast' /\ SequenceWasPlayed'
<1> DEFINE m == Len(played)
           q == decoder_cb(p)
<1>0. played \in Seq(Played) /\ SequenceIsLast /\ SequenceWasPlayed
  BY Zenon DEF ReceiveInv
<1>1. CASE end # "played"
  <2>1. played' = played /\ decoder'.sequence = decoder.sequence
    BY <1>1, OutcomeState, ZenonT(40)
  <2>2. SequenceIsLast'
    BY <1>0, <2>1, Zenon DEF SequenceIsLast
  <2>3. SequenceWasPlayed'
    BY <1>0, <2>1, Zenon DEF SequenceWasPlayed
  <2> QED
    BY <2>2, <2>3
<1>2. CASE end = "played"
  <2>1. played' = q /\ decoder'.sequence = Stored(number)
    BY <1>2, OutcomeState, Zenon
  <2>2. /\ m \in Nat /\ Len(q) = m + 1 /\ DOMAIN q = 1 .. m + 1
        /\ q[m + 1].kind = p.kind /\ q[m + 1].number = p.number
    BY <1>0, OneMore
  <2>3. m + 1 \in DOMAIN q
    BY <2>2
  <2>4. p.number \in UInt64 /\ p.kind \in Kinds
    BY Zenon DEF PacketOK
  <2>5. p.kind \in Peers => Stored(number) = Stored(p.number)
    <3>1. p.kind \in Peers => number = ReadBack(p.number)
      BY Zenon DEF Outcome
    <3>2. Stored(ReadBack(p.number)) = Stored(p.number)
      BY <2>4, StoredBack
    <3> QED
      BY <3>1, <3>2, Zenon
  <2> HIDE DEF q
  <2>6. SequenceIsLast'
    <3> SUFFICES ASSUME q[m + 1].kind \in {"opus", "other"}, Early(q[m + 1].number)
                 PROVE  Stored(number) = q[m + 1].number
      BY <2>1, <2>2, Zenon DEF SequenceIsLast
    <3>1. p.kind \in Peers /\ Early(p.number)
      BY <2>2 DEF Peers
    <3>2. Stored(p.number) = p.number
      BY <2>4, <3>1, StoredBack
    <3> QED
      BY <2>2, <2>5, <3>1, <3>2, Zenon
  <2>7. SequenceWasPlayed'
    <3> SUFFICES ASSUME NEW x \in UInt64, Below(x, Stored(number))
                 PROVE  \E i \in DOMAIN q : q[i].kind = "noise" \/ Below(x, q[i].number)
      BY <2>1, Zenon DEF SequenceWasPlayed
    <3>1. p.kind \in Peers \/ p.kind = "tunnelled" \/ p.kind = "noise"
      BY <2>4 DEF Kinds, Peers
    <3>2. CASE p.kind = "noise"
      BY <2>2, <2>3, <3>2, Zenon
    <3>3. CASE p.kind \in Peers
      <4>1. Below(x, Stored(p.number))
        BY <2>5, <3>3, Zenon
      <4>2. Below(x, p.number)
        BY <2>4, <4>1, StoredNotAbove
      <4> QED
        BY <2>2, <2>3, <4>2, Zenon
    <3>4. CASE p.kind = "tunnelled"
      <4>1. Clear(number, 8)
        BY <3>4, Zenon DEF Outcome
      <4> QED
        BY <4>1, NothingBelowZero
    <3> QED
      BY <3>1, <3>2, <3>3, <3>4
  <2> QED
    BY <2>6, <2>7
<1> QED
  BY <1>1, <1>2

\* A packet keeps the order of what is played.
LEMMA ReceiveOrder ==
  ASSUME ReceiveInv, NEW p, PacketOK(p), NEW samples, NEW end, NEW source \in UInt64, NEW number \in UInt64,
         Outcome(p, samples, end, source, number)
  PROVE  PlayedInOrder'
<1> DEFINE m == Len(played)
           q == decoder_cb(p)
           Plain(r) == r.kind \in {"opus", "other"} /\ Early(r.number)
<1>0. played \in Seq(Played) /\ SequenceIsLast /\ PlayedInOrder
  BY Zenon DEF ReceiveInv
<1>1. CASE end # "played"
  <2>1. played' = played
    BY <1>1, OutcomeState, Zenon
  <2> QED
    BY <1>0, <2>1, Zenon DEF PlayedInOrder
<1>2. CASE end = "played"
  <2>1. played' = q
    BY <1>2, OutcomeState, Zenon
  <2>2. /\ m \in Nat /\ DOMAIN played = 1 .. m /\ DOMAIN q = 1 .. m + 1
        /\ \A i \in 1 .. m : q[i] = played[i]
        /\ q[m + 1].kind = p.kind /\ q[m + 1].number = p.number
    BY <1>0, OneMore
  <2>3. p.number \in UInt64 /\ \A i \in 1 .. m : played[i].number \in UInt64
    <3>1. \A i \in 1 .. m : played[i] \in Played
      BY <1>0, ElementOfSeq
    <3>2. \A r \in Played : r.number \in UInt64
      BY DEF Played
    <3> QED
      BY <3>1, <3>2, Zenon DEF PacketOK
  <2>4. \A j \in 1 .. m : \A i \in 1 .. j - 1 :
          (\A k \in i .. j : Plain(played[k])) => ~Below(played[j].number, played[i].number)
    BY <1>0, <2>2, Zenon DEF PlayedInOrder
  <2>5. m # 0 /\ Plain(played[m]) => decoder.sequence = played[m].number
    <3>1. m # 0 => played # <<>>
      BY <1>0, EmptySeq
    <3> QED
      BY <1>0, <3>1, Zenon DEF SequenceIsLast
  <2>6. Plain(q[m + 1]) => ~Below(p.number, decoder.sequence)
    <3> SUFFICES ASSUME Plain(q[m + 1]) PROVE ~Below(p.number, decoder.sequence)
      BY Zenon
    <3>1. p.kind \in Peers /\ Early(p.number)
      BY <2>2 DEF Peers
    <3>2. number = ReadBack(p.number) /\ ~Below(number, decoder.sequence)
      BY <1>2, <3>1, Zenon DEF Outcome
    <3>3. ReadBack(p.number) = p.number
      BY <2>3, <3>1, StoredBack
    <3> QED
      BY <3>2, <3>3, Zenon
  <2> HIDE DEF q, m
  <2> SUFFICES ASSUME NEW j \in 1 .. m + 1, NEW i \in 1 .. j - 1, \A k \in i .. j : Plain(q[k])
               PROVE  ~Below(q[j].number, q[i].number)
    BY <2>1, <2>2, Zenon DEF PlayedInOrder
  <2> HIDE DEF Plain
  <2>7. CASE j \in 1 .. m
    <3>1. i \in 1 .. m /\ \A k \in i .. j : k \in 1 .. m
      BY <2>2, <2>7
    <3>2. \A k \in i .. j : Plain(played[k])
      BY <2>2, <3>1, Zenon
    <3> QED
      BY <2>2, <2>4, <2>7, <3>1, <3>2, Zenon
  <2>8. CASE j = m + 1
    <3>1. i \in 1 .. m /\ m \in 1 .. m /\ m # 0 /\ j \in i .. j /\ m \in i .. j /\ \A k \in i .. m : k \in i .. j /\ k \in 1 .. m
      BY <2>2, <2>8
    <3>2. Plain(q[m + 1]) /\ Plain(played[m]) /\ \A k \in i .. m : Plain(played[k])
      BY <2>2, <2>8, <3>1, Zenon
    <3>3. ~Below(p.number, played[m].number)
      BY <2>5, <2>6, <3>1, <3>2, Zenon
    <3>4. q[j].number = p.number /\ q[i].number = played[i].number
      BY <2>2, <2>8, <3>1, Zenon
    <3>5. CASE i = m
      BY <3>3, <3>4, <3>5, Zenon
    <3>6. CASE i # m
      <4>1. i \in 1 .. m - 1
        BY <2>2, <3>1, <3>6
      <4>2. ~Below(played[m].number, played[i].number)
        BY <2>4, <3>1, <3>2, <4>1, Zenon
      <4> DEFINE a == played[i].number
                 b == played[m].number
      <4>3. a \in UInt64 /\ b \in UInt64 /\ p.number \in UInt64
        BY <2>3, <3>1, Zenon
      <4>4. ~Below(b, a) /\ ~Below(p.number, b)
        BY <3>3, <4>2
      <4> HIDE DEF a, b
      <4>5. ~Below(p.number, a)
        BY <4>3, <4>4, NotBelowTransitive
      <4> QED
        BY <3>4, <4>5, Zenon DEF a
    <3> QED
      BY <3>5, <3>6
  <2>9. j \in 1 .. m \/ j = m + 1
    BY <2>2
  <2> QED
    BY <2>7, <2>8, <2>9
<1> QED
  BY <1>1, <1>2

\* The types and the counters.
LEMMA ReceiveCounts ==
  ASSUME ReceiveInv, NEW p, PacketOK(p), NEW samples, NEW end, NEW source \in UInt64, NEW number \in UInt64,
         Outcome(p, samples, end, source, number), last = Nothing, decoder.packets < MaxPackets
  PROVE  ReceiveTypeOK' /\ (decoder.dropped_sequence \in Nat /\ played \in Seq(Played))'
<1> DEFINE m == Len(played)
           q == decoder_cb(p)
           k == decoder.packets
           d == decoder.dropped_sequence
<1>0. /\ ReceiveTypeOK /\ d \in Nat /\ played \in Seq(Played)
  BY Zenon DEF ReceiveInv
<1>1. Alive
  <2>1. last.end = "none"
    BY DEF Nothing
  <2> QED
    BY <2>1 DEF Alive
<1>2. /\ decoder.sequence \in UInt64 /\ Clear(decoder.sequence, 4)
      /\ k \in 0 .. MaxPackets /\ k = m + d + 0
  BY <1>0, <1>1, Zenon DEF ReceiveTypeOK
<1>3. /\ m \in Nat /\ q \in Seq(Played) /\ Len(q) = m + 1
  BY <1>0, OneMore
<1>4. /\ decoder'.sequence = IF end = "played" THEN Stored(number) ELSE decoder.sequence
      /\ decoder'.packets = IF end \in PingEnds THEN k ELSE k + 1
      /\ decoder'.dropped_sequence = IF end = "dropped" THEN d + 1 ELSE d
      /\ played' = IF end = "played" THEN q ELSE played
      /\ last'.source = source /\ last'.number = number /\ last'.end = end
  BY OutcomeState, Zenon
<1>5. Alive' <=> end \in {"played", "dropped", "pong"}
  <2>1. end # "none"
    BY Zenon DEF Outcome
  <2> QED
    BY <1>4, <2>1 DEF Alive
<1>6. decoder'.sequence \in UInt64 /\ Clear(decoder'.sequence, 4)
  <2>1. Stored(number) \in UInt64 /\ Clear(Stored(number), 4)
    BY StoredType
  <2> QED
    BY <1>2, <1>4, <2>1, Zenon
<1>7. k < MaxPackets /\ MaxPackets \in Nat
  BY ReceiveAssumption
<1> HIDE DEF k, d, m, q
<1>8. k \in 0 .. MaxPackets /\ k + 1 \in 0 .. MaxPackets
  BY <1>2, <1>7
<1>9. decoder'.packets \in 0 .. MaxPackets
  BY <1>4, <1>8, Zenon
<1> DEFINE L == Len(played')
           dd == decoder'.dropped_sequence
           kk == decoder'.packets
<1>10. played' \in Seq(Played) /\ dd \in Nat
  <2>1. d + 1 \in Nat
    BY <1>0
  <2> QED
    BY <1>0, <1>3, <1>4, <2>1, Zenon
<1>11. kk = L + dd + (IF Alive' \/ last'.end \in PingEnds THEN 0 ELSE 1)
  <2>1. k = m + d
    BY <1>0, <1>2, <1>3
  <2>2. L = IF end = "played" THEN m + 1 ELSE m
    BY <1>3, <1>4, Zenon DEF m
  <2>3. dd = (IF end = "dropped" THEN d + 1 ELSE d) /\ kk = (IF end \in PingEnds THEN k ELSE k + 1)
    BY <1>4
  <2> HIDE DEF L, dd, kk
  <2>4. CASE end = "played"
    <3>1. L = m + 1 /\ dd = d /\ kk = k + 1 /\ Alive'
      BY <1>5, <2>2, <2>3, <2>4 DEF PingEnds
    <3>2. kk = L + dd + 0
      BY <1>0, <1>3, <2>1, <3>1
    <3> QED
      BY <3>1, <3>2, Zenon
  <2>5. CASE end = "dropped"
    <3>1. L = m /\ dd = d + 1 /\ kk = k + 1 /\ Alive'
      BY <1>5, <2>2, <2>3, <2>5 DEF PingEnds
    <3>2. kk = L + dd + 0
      BY <1>0, <1>3, <2>1, <3>1
    <3> QED
      BY <3>1, <3>2, Zenon
  <2>6. CASE end \in PingEnds
    <3>1. L = m /\ dd = d /\ kk = k /\ last'.end \in PingEnds
      BY <1>4, <2>2, <2>3, <2>6 DEF PingEnds
    <3>2. kk = L + dd + 0
      BY <1>0, <1>3, <2>1, <3>1
    <3> QED
      BY <3>1, <3>2, Zenon
  <2>7. CASE end \notin {"played", "dropped"} \cup PingEnds
    <3>1. L = m /\ dd = d /\ kk = k + 1 /\ ~Alive' /\ last'.end \notin PingEnds
      BY <1>4, <1>5, <2>2, <2>3, <2>7 DEF PingEnds
    <3>2. kk = L + dd + 1
      BY <1>0, <1>3, <2>1, <3>1
    <3> QED
      BY <3>1, <3>2, Zenon
  <2> QED
    BY <2>4, <2>5, <2>6, <2>7
<1> QED
  BY <1>4, <1>6, <1>9, <1>10, <1>11, Zenon DEF ReceiveTypeOK

\* What is said of the packet that has just been received.
LEMMA ReceiveLast ==
  ASSUME ReceiveInv, NEW p, PacketOK(p), NEW samples, NEW end, NEW source \in UInt64, NEW number \in UInt64,
         Outcome(p, samples, end, source, number)
  PROVE  SelfDelimiting' /\ DropNeedsOvertaking' /\ OpusSurvives'
<1>1. /\ last'.packet = p /\ last'.source = source /\ last'.number = number
      /\ last'.samples = samples /\ last'.end = end
      /\ end # "played" => played' = played
  BY OutcomeState, Zenon
<1>2. FromPeer' => p.kind \in Peers
  BY <1>1, Zenon DEF FromPeer, Peers
<1>3. p.source \in UInt64 /\ p.number \in UInt64
  BY Zenon DEF PacketOK
<1>4. p.kind \in Peers => source = ReadBack(p.source) /\ number = ReadBack(p.number)
  BY Zenon DEF Outcome
<1>5. SelfDelimiting'
  <2>1. (~TopBit(p.source) => ReadBack(p.source) = p.source) /\ (~TopBit(p.number) => ReadBack(p.number) = p.number)
    BY <1>3, ReadBackWhole
  <2> QED
    BY <1>1, <1>2, <1>4, <2>1, Zenon DEF SelfDelimiting
<1>6. DropNeedsOvertaking'
  <2> SUFFICES ASSUME p.kind \in Peers, end = "dropped"
               PROVE  \E i \in DOMAIN played : played[i].kind = "noise" \/ Below(p.number, played[i].number)
    <3>1. end = "dropped" => played' = played
      BY <1>1
    <3> QED
      BY <1>1, <1>2, <3>1, Zenon DEF DropNeedsOvertaking
  <2>1. SequenceWasPlayed /\ decoder.sequence \in UInt64 /\ Clear(decoder.sequence, 4)
    BY Zenon DEF ReceiveInv, ReceiveTypeOK
  <2>2. Below(number, decoder.sequence)
    BY Zenon DEF Outcome
  <2>3. Clear(number, 4)
    BY <2>1, <2>2, BelowClear
  <2>4. number = p.number
    <3>1. number = ReadBack(p.number) /\ Clear(ReadBack(p.number), 4)
      BY <1>4, <2>3, Zenon
    <3> QED
      BY <1>3, <3>1, ReadBackWhole
  <2> QED
    BY <1>3, <2>1, <2>2, <2>4, Zenon DEF SequenceWasPlayed
<1>7. OpusSurvives'
  <2>1. p.kind = "opus" /\ Size(p) > 8 /\ p.len + 2 <= samples => end \in {"played", "dropped"}
    BY Zenon DEF Outcome
  <2> QED
    BY <1>1, <2>1, Zenon DEF OpusSurvives, Size
<1> QED
  BY <1>5, <1>6, <1>7

\* A step with a packet.
LEMMA ReceiveStep ==
  ASSUME ReceiveInv, NEW p, NEW samples \in Int, Readable(p), Receive(p, samples)
  PROVE  ReceiveInv'
<1>1. PICK end : \E source, number \in UInt64 : Outcome(p, samples, end, source, number)
  BY ReceiveOutcome
<1>2. PICK source \in UInt64, number \in UInt64 : Outcome(p, samples, end, source, number)
  BY <1>1
<1>3. PacketOK(p)
  BY Zenon DEF Readable
<1>4. last = Nothing /\ decoder.packets < MaxPackets
  BY Zenon DEF Receive
<1>5. ReceiveTypeOK' /\ (decoder.dropped_sequence \in Nat /\ played \in Seq(Played))'
  BY <1>2, <1>3, <1>4, ReceiveCounts
<1>6. SequenceIsLast' /\ SequenceWasPlayed'
  BY <1>2, <1>3, ReceiveSequence
<1>7. PlayedInOrder'
  BY <1>2, <1>3, ReceiveOrder
<1>8. SelfDelimiting' /\ DropNeedsOvertaking' /\ OpusSurvives'
  BY <1>2, <1>3, ReceiveLast
<1> QED
  BY <1>5, <1>6, <1>7, <1>8, Zenon DEF ReceiveInv

\* Before a packet, and between two, nothing is said of one.
LEMMA NothingParts ==
  /\ Nothing.packet.kind = "noise" /\ Nothing.end = "none"
  /\ Nothing.source \in UInt64 /\ Nothing.number \in UInt64
<1>1. Nothing.packet = NoisePacket(<<0>>, 0) /\ Nothing.end = "none"
      /\ Nothing.source = UInt(0) /\ Nothing.number = UInt(0)
  BY DEF Nothing
<1>2. NoisePacket(<<0>>, 0).kind = "noise"
  BY DEF NoisePacket, Packet
<1> QED
  BY <1>1, <1>2, ZeroNumber, Zenon

\* The decoder starts with the invariant.
LEMMA ReceiveInitial ==
  ASSUME ReceiveInit
  PROVE  ReceiveInv
<1> DEFINE zero == UInt(0)
<1>1. decoder = [sequence |-> zero, packets |-> 0, dropped_sequence |-> 0] /\ played = <<>> /\ last = Nothing
  BY Zenon DEF ReceiveInit
<1>2. zero \in UInt64 /\ Clear(zero, 8)
  BY ZeroNumber
<1> HIDE DEF zero
<1>3. decoder.sequence = zero /\ decoder.packets = 0 /\ decoder.dropped_sequence = 0
  BY <1>1
<1>4. last.packet.kind = "noise" /\ last.end = "none" /\ last.source \in UInt64 /\ last.number \in UInt64
  BY <1>1, NothingParts, Zenon
<1>5. played \in Seq(Played) /\ Len(played) = 0 /\ DOMAIN played = {}
  BY <1>1
<1>6. ReceiveTypeOK
  <2>1. Alive
    BY <1>4 DEF Alive
  <2>2. 0 = 0 + 0 + 0 /\ 0 \in 0 .. MaxPackets
    BY ReceiveAssumption
  <2>3. \A i \in 1 .. 4 : i \in 1 .. 8
    OBVIOUS
  <2>4. Clear(zero, 4)
    BY <1>2, <2>3, Zenon DEF Clear
  <2> QED
    BY <1>2, <1>3, <1>4, <1>5, <2>1, <2>2, <2>4, Zenon DEF ReceiveTypeOK
<1>7. decoder.dropped_sequence \in Nat
  BY <1>3
<1>8. SequenceIsLast
  BY <1>1, Zenon DEF SequenceIsLast
<1>9. SequenceWasPlayed
  <2>1. Stored(zero) = zero
    <3>1. \A i \in 1 .. 8 : zero[i] = 0
      BY <1>2, Zenon DEF Clear
    <3>2. zero = [i \in 1 .. 8 |-> zero[i]]
      BY <1>2 DEF UInt64
    <3>3. \A i \in 1 .. 8 : (IF i <= 4 THEN 0 ELSE zero[i]) = zero[i]
      BY <3>1, Zenon
    <3>4. Stored(zero) = [i \in 1 .. 8 |-> zero[i]]
      BY <3>3, Zenon DEF Stored
    <3> QED
      BY <3>2, <3>4
  <2>2. \A x \in UInt64 : ~Below(x, zero)
    BY <1>2, <2>1, NothingBelowZero
  <2> QED
    BY <1>3, <2>2, Zenon DEF SequenceWasPlayed
<1>10. PlayedInOrder
  BY <1>5, Zenon DEF PlayedInOrder
<1>11. SelfDelimiting /\ DropNeedsOvertaking /\ OpusSurvives
  BY <1>4 DEF SelfDelimiting, DropNeedsOvertaking, OpusSurvives, FromPeer
<1> QED
  BY <1>5, <1>6, <1>7, <1>8, <1>9, <1>10, <1>11, Zenon DEF ReceiveInv

\* The loop's next turn keeps it.
LEMMA ReturnStep ==
  ASSUME ReceiveInv, Return
  PROVE  ReceiveInv'
<1>1. Alive /\ last' = Nothing /\ decoder' = decoder /\ played' = played
  BY DEF Return
<1>2. last'.packet.kind = "noise" /\ last'.end = "none" /\ last'.source \in UInt64 /\ last'.number \in UInt64
  BY <1>1, NothingParts, Zenon
<1>3. Alive'
  BY <1>2 DEF Alive
<1>4. ReceiveTypeOK'
  BY <1>1, <1>2, <1>3, Zenon DEF ReceiveInv, ReceiveTypeOK
<1>5. (decoder.dropped_sequence \in Nat /\ played \in Seq(Played))'
  BY <1>1, Zenon DEF ReceiveInv
<1>6. SequenceIsLast' /\ SequenceWasPlayed' /\ PlayedInOrder'
  BY <1>1, Zenon DEF ReceiveInv, SequenceIsLast, SequenceWasPlayed, PlayedInOrder
<1>7. SelfDelimiting' /\ DropNeedsOvertaking' /\ OpusSurvives'
  BY <1>2 DEF SelfDelimiting, DropNeedsOvertaking, OpusSurvives, FromPeer
<1> QED
  BY <1>4, <1>5, <1>6, <1>7, Zenon DEF ReceiveInv

-------------------------------------------------------------------------------
(* The theorems. *)

\* In every state the decoder's remembered number agrees with what was handed on, and
\* the properties of the module hold.
THEOREM ReceiveCorrect == ReceiveSpec => []ReceiveInv
<1>1. ReceiveInit => ReceiveInv
  BY ReceiveInitial
<1>2. ReceiveInv /\ [ReceiveNext]_receiveVars => ReceiveInv'
  <2> SUFFICES ASSUME ReceiveInv, [ReceiveNext]_receiveVars PROVE ReceiveInv'
    BY Zenon
  <2>0. Sources \subseteq UInt64 /\ Numbers \subseteq UInt64 /\ Lens \subseteq Nat /\ Samples \subseteq Int
    BY ReceiveAssumption, SMTT(60)
  <2>1. CASE ReceiveOpus
    <3>1. PICK s \in Sources, n \in Numbers, l \in Lens, final \in BOOLEAN, position \in BOOLEAN, k \in Samples :
            Receive(OpusPacket(s, n, l, final, position), k)
      BY <2>1, Zenon DEF ReceiveOpus
    <3>2. s \in UInt64 /\ n \in UInt64 /\ k \in Int
      BY <2>0, Zenon
    <3>3. Readable(OpusPacket(s, n, l, final, position))
      BY <3>2, OpusReadable
    <3> QED
      BY <3>1, <3>2, <3>3, ReceiveStep
  <2>2. CASE ReceiveOther
    <3>1. PICK s \in Sources, n \in Numbers, l \in Lens : Receive(OtherPacket(s, n, l), 0)
      BY <2>2, Zenon DEF ReceiveOther
    <3>2. s \in UInt64 /\ n \in UInt64 /\ l \in Nat
      BY <2>0, Zenon
    <3>3. Readable(OtherPacket(s, n, l))
      BY <3>2, OtherReadable
    <3>4. 0 \in Int
      OBVIOUS
    <3> QED
      BY <3>1, <3>3, <3>4, ReceiveStep
  <2>3. CASE ReceiveTunnelled
    <3>1. PICK s \in Sources, n \in Numbers, l \in Lens, k \in Samples : Receive(TunnelPacket(s, n, l), k)
      BY <2>3, Zenon DEF ReceiveTunnelled
    <3>2. s \in UInt64 /\ n \in UInt64 /\ k \in Int
      BY <2>0, Zenon
    <3>3. Readable(TunnelPacket(s, n, l))
      BY <3>2, TunnelReadable
    <3> QED
      BY <3>1, <3>2, <3>3, ReceiveStep
  <2>4. CASE ReceiveNoise
    <3>1. PICK b \in Noise, l \in NoiseLens, k \in Samples \cup {-1} : Receive(NoisePacket(b, l), k)
      BY <2>4, Zenon DEF ReceiveNoise
    <3>2. b \in Seq(Byte) /\ b # <<>> /\ l \in Nat
      BY ReceiveAssumption, Zenon
    <3>3. k \in Int
      BY <2>0
    <3>4. Readable(NoisePacket(b, l))
      BY <3>2, NoiseReadable
    <3> QED
      BY <3>1, <3>3, <3>4, ReceiveStep
  <2>5. CASE Return
    BY <2>5, ReturnStep
  <2>6. CASE ReceiveRest \/ UNCHANGED receiveVars
    <3>1. decoder' = decoder /\ played' = played /\ last' = last
      BY <2>6 DEF ReceiveRest, receiveVars
    <3>2. ReceiveTypeOK' /\ (decoder.dropped_sequence \in Nat /\ played \in Seq(Played))'
      BY <3>1, Zenon DEF ReceiveInv, ReceiveTypeOK, Alive
    <3>3. SequenceIsLast' /\ SequenceWasPlayed' /\ PlayedInOrder'
      BY <3>1, Zenon DEF ReceiveInv, SequenceIsLast, SequenceWasPlayed, PlayedInOrder
    <3>4. SelfDelimiting' /\ DropNeedsOvertaking' /\ OpusSurvives'
      BY <3>1, Zenon DEF ReceiveInv, SelfDelimiting, DropNeedsOvertaking, OpusSurvives, FromPeer
    <3> QED
      BY <3>2, <3>3, <3>4, Zenon DEF ReceiveInv
  <2> QED
    BY <2>1, <2>2, <2>3, <2>4, <2>5, <2>6, Zenon DEF ReceiveNext
<1> QED
  BY <1>1, <1>2, PTL DEF ReceiveSpec

\* The decoder's sequence number keeps 32 bits, and packets counts what was played
\* and dropped and, if the decoder ended the process, the packet that did it.
THEOREM ReceiveTypes == ReceiveSpec => []ReceiveTypeOK
<1>1. ReceiveInv => ReceiveTypeOK
  BY Zenon DEF ReceiveInv
<1> QED
  BY <1>1, ReceiveCorrect, PTL

\* varint_decode cuts a peer's packet where varint_encode ended, for any sender and
\* any number of 64 bits, and gives back what was written unless its lower half is
\* read as a negative int.
THEOREM ReceiveSelfDelimiting == ReceiveSpec => []SelfDelimiting
<1>1. ReceiveInv => SelfDelimiting
  BY Zenon DEF ReceiveInv
<1> QED
  BY <1>1, ReceiveCorrect, PTL

\* Voice is handed on in the order of its numbers while they are below 2^31,
\* whatever the network does to the packets.
THEOREM ReceivePlayedInOrder == ReceiveSpec => []PlayedInOrder
<1>1. ReceiveInv => PlayedInOrder
  BY Zenon DEF ReceiveInv
<1> QED
  BY <1>1, ReceiveCorrect, PTL

\* mumble_audio_decoder_decode drops a peer's packet only when one with a higher
\* number, or noise, was handed on before it.
THEOREM ReceiveDrops == ReceiveSpec => []DropNeedsOvertaking
<1>1. ReceiveInv => DropNeedsOvertaking
  BY Zenon DEF ReceiveInv
<1> QED
  BY <1>1, ReceiveCorrect, PTL

\* An Opus packet of nine bytes or more, without a position and with no more bytes
\* from its length on than samples, passes every assertion on its way.
THEOREM ReceiveOpusSurvives == ReceiveSpec => []OpusSurvives
<1>1. ReceiveInv => OpusSurvives
  BY Zenon DEF ReceiveInv
<1> QED
  BY <1>1, ReceiveCorrect, PTL
===============================================================================
