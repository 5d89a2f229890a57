------------------------------- MODULE OcbProofs -------------------------------
(***************************************************************************)
(* OCB2 for every width of bytes and blocks, every permutation cipher,     *)
(* every polynomial and every text: decrypting gives the text back, and    *)
(* the tags meet where there is no tail.  Its offsets differ in every      *)
(* field whose x has an order above a text's length.  OCB3 is the RFC's    *)
(* for every call in its range: the code lays out, pads and shifts bytes,  *)
(* the RFC strings of bits, and the lemmas about bits join the two.        *)
(***************************************************************************)
EXTENDS Ocb, SequenceTheorems, NaturalsInduction, WellFoundedInduction, TLAPS

-------------------------------------------------------------------------------
(* The algebra of blocks. *)

\* xor_block_ex on bytes: it stays in them, and xoring twice is nothing.
LEMMA XorBytes ==
  ASSUME NEW n \in Nat, NEW a \in [1 .. n -> Byte], NEW m \in Nat, m >= n,
         NEW b \in [1 .. m -> Byte]
  PROVE  /\ xor_block_ex(a, b, n) \in [1 .. n -> Byte]
         /\ xor_block_ex(xor_block_ex(a, b, n), b, n) = a
<1>1. \A k \in 1 .. n : k \in 1 .. m
  OBVIOUS
<1> DEFINE x == xor_block_ex(a, b, n)
<1>2. x = [k \in 1 .. n |-> (a[k] \ b[k]) \cup (b[k] \ a[k])]
  BY DEF xor_block_ex
<1>3. \A k \in 1 .. n : a[k] \in Byte /\ b[k] \in Byte
  BY <1>1
<1>4. x \in [1 .. n -> Byte]
  BY <1>2, <1>3, Zenon DEF Byte
<1>5. \A k \in 1 .. n : (x[k] \ b[k]) \cup (b[k] \ x[k]) = a[k]
  BY <1>2, Zenon
<1>6. xor_block_ex(x, b, n) = a
  BY <1>5, Zenon DEF xor_block_ex
<1> QED
  BY <1>4, <1>6

\* xor_block: closed, symmetric, its own inverse, and injective on both sides.
LEMMA XorBlock ==
  ASSUME NEW a \in Block, NEW b \in Block
  PROVE  /\ xor_block(a, b) \in Block
         /\ xor_block(a, b) = xor_block(b, a)
         /\ xor_block(xor_block(a, b), b) = a
         /\ xor_block(a, xor_block(a, b)) = b
<1>1. BlockBytes \in Nat /\ BlockBytes >= BlockBytes
  BY OcbAssumption
<1>2. xor_block(a, b) = xor_block(b, a)
  <2>1. \A k \in 1 .. BlockBytes :
          (a[k] \ b[k]) \cup (b[k] \ a[k]) = (b[k] \ a[k]) \cup (a[k] \ b[k])
    BY Zenon
  <2> QED
    BY <2>1, Zenon DEF xor_block, xor_block_ex
<1>3. xor_block(a, b) \in Block /\ xor_block(xor_block(a, b), b) = a
  BY <1>1, XorBytes, Zenon DEF xor_block, Block
<1>4. xor_block(xor_block(b, a), a) = b
  BY <1>1, XorBytes, Zenon DEF xor_block, Block
<1>5. xor_block(a, xor_block(a, b)) = xor_block(xor_block(a, b), a)
  <2>1. \A x \in Block : xor_block(a, x) = xor_block(x, a)
    <3> TAKE x \in Block
    <3>1. \A k \in 1 .. BlockBytes :
            (a[k] \ x[k]) \cup (x[k] \ a[k]) = (x[k] \ a[k]) \cup (a[k] \ x[k])
      BY Zenon
    <3> QED
      BY <3>1, Zenon DEF xor_block, xor_block_ex
  <2> QED
    BY <1>3, <2>1, Zenon
<1> QED
  BY <1>2, <1>3, <1>4, <1>5, Zenon

\* left_shift on bytes gives bytes.
LEMMA ShiftedBytes ==
  ASSUME NEW n \in Nat, NEW in \in [1 .. n -> Byte], NEW bits \in Nat
  PROVE  left_shift(in, n, bits) \in [1 .. n -> Byte]
<1>1. ByteBits \in Nat \ {0}
  BY OcbAssumption
<1> DEFINE q == bits \div ByteBits
           r == bits % ByteBits
           high(k) == IF k + q <= n THEN Up(in[k + q], r) ELSE {}
           low(k) == IF (k + q) + 1 <= n THEN Down(in[(k + q) + 1], ByteBits - r) ELSE {}
<1>2. left_shift(in, n, bits) = [k \in 1 .. n |-> high(k) \cup low(k)]
  BY Zenon DEF left_shift
<1>3. q \in Int /\ r \in 0 .. ByteBits - 1 /\ bits = (ByteBits * q) + r
  BY <1>1
<1> HIDE DEF q, r
<1>4. q >= 0
  <2>1. SUFFICES ASSUME q <= -1 PROVE FALSE
    BY <1>3
  <2>2. ByteBits * q <= -ByteBits
    BY <1>1, <1>3, <2>1
  <2> QED
    BY <1>1, <1>3, <2>2
<1>5. \A B \in Byte : \A s \in 0 .. ByteBits : Up(B, s) \in Byte /\ Down(B, s) \in Byte
  <2> TAKE B \in Byte
  <2> TAKE s \in 0 .. ByteBits
  <2>1. \A x \in B : x \in 0 .. ByteBits - 1
    BY Zenon DEF Byte
  <2>2. \A x \in Up(B, s) : x \in 0 .. ByteBits - 1
    BY <1>1, <2>1 DEF Up
  <2>3. \A x \in Down(B, s) : x \in 0 .. ByteBits - 1
    BY <1>1, <2>1 DEF Down
  <2> QED
    BY <2>2, <2>3, Zenon DEF Byte
<1>6. \A k \in 1 .. n : high(k) \in Byte /\ low(k) \in Byte
  <2> TAKE k \in 1 .. n
  <2>1. r \in 0 .. ByteBits /\ ByteBits - r \in 0 .. ByteBits
    BY <1>1, <1>3
  <2>2. /\ k + q <= n => k + q \in 1 .. n
        /\ (k + q) + 1 <= n => (k + q) + 1 \in 1 .. n
    BY <1>3, <1>4
  <2>3. {} \in Byte
    BY Zenon DEF Byte
  <2> QED
    BY <1>5, <2>1, <2>2, <2>3, Zenon
<1> HIDE DEF high, low
<1> QED
  BY <1>2, <1>6, Zenon DEF Byte

\* double_block stays in the blocks.
LEMMA DoubleBlock == \A b \in Block : double_block(b) \in Block
<1> TAKE b \in Block
<1>1. BlockBytes \in Nat \ {0, 1} /\ Poly \in Byte
  BY OcbAssumption
<1> DEFINE moved == left_shift(b, BlockBytes, 1)
<1>2. moved \in [1 .. BlockBytes -> Byte]
  <2>1. BlockBytes \in Nat /\ 1 \in Nat
    BY <1>1
  <2> QED
    BY <2>1, ShiftedBytes DEF Block
<1> HIDE DEF moved
<1>3. BlockBytes \in 1 .. BlockBytes
  BY <1>1
<1>4. [moved EXCEPT ![BlockBytes] = (@ \ Poly) \cup (Poly \ @)] \in [1 .. BlockBytes -> Byte]
  <2>1. moved[BlockBytes] \in Byte
    BY <1>2, <1>3, Zenon
  <2>2. (moved[BlockBytes] \ Poly) \cup (Poly \ moved[BlockBytes]) \in Byte
    BY <1>1, <2>1, Zenon DEF Byte
  <2> QED
    BY <1>2, <1>3, <2>2, Zenon
<1>5. double_block(b) = IF ByteBits - 1 \in b[1]
                          THEN [moved EXCEPT ![BlockBytes] = (@ \ Poly) \cup (Poly \ @)] ELSE moved
  BY Zenon DEF double_block, moved
<1> QED
  BY <1>2, <1>4, <1>5, Zenon DEF Block

\* triple_block stays in the blocks.
LEMMA TripleBlock == \A b \in Block : triple_block(b) \in Block
BY DoubleBlock, XorBlock, Zenon DEF triple_block

\* AES for one key: a permutation, and aes_decrypt undoes aes_encrypt.
LEMMA AesPermutes ==
  ASSUME NEW key \in Keys, NEW b \in Block
  PROVE  /\ aes_encrypt(key, b) \in Block
         /\ aes_decrypt(key, aes_encrypt(key, b)) = b
         /\ \A c \in Block : aes_encrypt(key, c) = aes_encrypt(key, b) => c = b
<1>1. Cipher[key][b] \in Block
  BY OcbAssumption, ZenonT(60)
<1>2. \A c \in Block : Cipher[key][c] = Cipher[key][b] => c = b
  BY OcbAssumption, Zenon
<1>3. /\ aes_decrypt(key, Cipher[key][b]) \in Block
      /\ Cipher[key][aes_decrypt(key, Cipher[key][b])] = Cipher[key][b]
  BY Zenon DEF aes_decrypt
<1> QED
  BY <1>1, <1>2, <1>3, Zenon DEF aes_encrypt

\* ocb2_decrypt_block, from the same offset, undoes ocb2_encrypt_block.
LEMMA BlockRoundTrip ==
  ASSUME NEW key \in Keys, NEW in \in Block, NEW d \in Block
  PROVE  /\ ocb2_encrypt_block(key, in, d) \in Block
         /\ ocb2_decrypt_block(key, ocb2_encrypt_block(key, in, d), d) = in
<1> DEFINE e == double_block(d)
           x == xor_block(e, in)
           y == aes_encrypt(key, x)
           z == xor_block(y, e)
<1>1. e \in Block
  BY DoubleBlock, Zenon
<1> HIDE DEF e
<1>2. x \in Block /\ xor_block(e, x) = in
  BY <1>1, XorBlock, Zenon
<1> HIDE DEF x
<1>3. y \in Block /\ aes_decrypt(key, y) = x
  BY <1>2, AesPermutes, Zenon
<1> HIDE DEF y
<1>4. z \in Block /\ xor_block(z, e) = y
  BY <1>1, <1>3, XorBlock, Zenon
<1> HIDE DEF z
<1>5. xor_block(e, z) = y
  BY <1>1, <1>4, XorBlock, Zenon
<1>6. xor_block(x, e) = in
  BY <1>1, <1>2, XorBlock, Zenon
<1>7. ocb2_encrypt_block(key, in, d) = z
  BY Zenon DEF ocb2_encrypt_block, e, x, y, z
<1>8. ocb2_decrypt_block(key, z, d) = xor_block(aes_decrypt(key, xor_block(e, z)), e)
  BY Zenon DEF ocb2_decrypt_block, e
<1> QED
  BY <1>3, <1>4, <1>5, <1>6, <1>7, <1>8, Zenon

\* ocb2_encrypt_block_final on its own output, from the same offset and the
\* same checksum: it gives the tail back, and the same tag if there was none.
LEMMA FinalRoundTrip ==
  ASSUME NEW key \in Keys, NEW n \in 0 .. BlockBytes - 1, NEW in \in [1 .. n -> Byte],
         NEW d \in Block, NEW c \in Block
  PROVE  LET there == ocb2_encrypt_block_final(key, in, d, c)
             back  == ocb2_encrypt_block_final(key, there.out, d, c)
         IN  /\ there.out \in [1 .. n -> Byte]
             /\ back.out = in
             /\ n = 0 => back.tag = there.tag
<1> DEFINE e == double_block(d)
           size == [zero_block EXCEPT ![BlockBytes] = ByteOf(n * ByteBits)]
           pad == aes_encrypt(key, xor_block(size, e))
           Mixed(s) == [k \in 1 .. BlockBytes |-> IF k <= n THEN s[k] ELSE pad[k]]
           Tagged(s) == aes_encrypt(key, xor_block(triple_block(e), xor_block(Mixed(s), c)))
           Final(s) == [out |-> xor_block_ex(s, pad, n), tag |-> Tagged(s)]
           hid == xor_block_ex(in, pad, n)
<1>1. n \in Nat /\ BlockBytes \in Nat /\ BlockBytes >= n /\ BlockBytes \in 1 .. BlockBytes
  BY OcbAssumption
<1>2. e \in Block
  BY DoubleBlock, Zenon
<1>3. size \in Block
  <2>1. zero_block \in [1 .. BlockBytes -> Byte]
    BY Zenon DEF zero_block, Byte
  <2>2. ByteOf(n * ByteBits) \in Byte
    BY Zenon DEF ByteOf, Byte
  <2> QED
    BY <1>1, <2>1, <2>2, Zenon DEF Block
<1> HIDE DEF e, size
<1>4. pad \in Block
  BY <1>2, <1>3, XorBlock, AesPermutes, Zenon
<1>5. \A s \in [1 .. n -> Byte] : ocb2_encrypt_block_final(key, s, d, c) = Final(s)
  <2> TAKE s \in [1 .. n -> Byte]
  <2>1. s \in Seq(Byte) /\ Len(s) = n
    BY <1>1
  <2> QED
    BY <2>1, Zenon DEF ocb2_encrypt_block_final, e, size
<1> HIDE DEF pad
<1>6. hid \in [1 .. n -> Byte] /\ xor_block_ex(hid, pad, n) = in
  BY <1>1, <1>4, XorBytes, Zenon DEF Block
<1>7. n = 0 => hid = in
  BY <1>6
<1> HIDE DEF Tagged, hid
<1>8. ocb2_encrypt_block_final(key, in, d, c).out = hid
  BY <1>5 DEF hid
<1>9. ocb2_encrypt_block_final(key, in, d, c).tag = Tagged(in)
  BY <1>5
<1>10. /\ ocb2_encrypt_block_final(key, hid, d, c).out = in
       /\ ocb2_encrypt_block_final(key, hid, d, c).tag = Tagged(hid)
  BY <1>5, <1>6
<1> QED
  BY <1>6, <1>7, <1>8, <1>9, <1>10, Zenon

-------------------------------------------------------------------------------
(* The invariant.  The decrypting loop meets, at every block, the offset and *)
(* the checksum the encrypting loop had there; the offsets are remembered by *)
(* `offsets', the checksums by a witness f.                                   *)
Offset(i) == IF i = 0 THEN aes_encrypt(job.key, job.iv) ELSE offsets[i]
Whole     == Len(job.text.blocks)

\* Every recorded offset is the double of the one before it.
Doubled ==
  /\ offsets \in Seq(Block)
  /\ \A i \in 1 .. Len(offsets) : offsets[i] = double_block(Offset(i - 1))

\* The first n blocks of the text, enciphered.
Enciphered(blocks, n) ==
  /\ blocks \in Seq(Block) /\ Len(blocks) = n
  /\ \A i \in 1 .. n : blocks[i] = ocb2_encrypt_block(job.key, job.text.blocks[i], Offset(i - 1))

\* The checksums before and after each of the first n blocks.
Checksums(f, n) ==
  /\ f \in [0 .. n -> Block] /\ f[0] = zero_block
  /\ \A i \in 1 .. n : f[i] = xor_block(f[i - 1], job.text.blocks[i])

Encrypting ==
  /\ done \in 0 .. Whole /\ Len(offsets) = done /\ delta = Offset(done)
  /\ Enciphered(out.blocks, done) /\ out = [blocks |-> out.blocks, tail |-> <<>>]
  /\ \E f : Checksums(f, done) /\ checksum = f[done]

Decrypting ==
  /\ done \in 0 .. Whole /\ Len(offsets) = Whole + 1 /\ delta = Offset(done)
  /\ Enciphered(sent.text.blocks, Whole)
  /\ out = [blocks |-> out.blocks, tail |-> <<>>]
  /\ out.blocks \in Seq(Block) /\ Len(out.blocks) = done
  /\ \A i \in 1 .. done : out.blocks[i] = job.text.blocks[i]
  /\ \E f : /\ Checksums(f, Whole) /\ checksum = f[done]
            /\ LET final == ocb2_encrypt_block_final(job.key, job.text.tail, Offset(Whole), f[Whole])
               IN  sent.text.tail = final.out /\ sent.tag = final.tag

OcbInv ==
  /\ job \in Jobs
  /\ job.mode = "ocb2" =>
       /\ Doubled
       /\ phase = "encrypt" => Encrypting
       /\ phase = "decrypt" => Decrypting
       /\ RoundTrip /\ TagsMeet

\* The arguments of a call have their types.
LEMMA JobParts ==
  ASSUME NEW j \in Jobs
  PROVE  /\ j.key \in Keys /\ j.iv \in Block
         /\ j.text.blocks \in Seq(Block)
         /\ \E n \in 0 .. BlockBytes - 1 : j.text.tail \in [1 .. n -> Byte]
         /\ j.text = [blocks |-> j.text.blocks, tail |-> j.text.tail]
<1>1. j.key \in Keys /\ j.iv \in Block /\ j.text \in Text
  BY OcbAssumption, Zenon
<1>2. /\ j.text.blocks \in Seq(Block)
      /\ j.text.tail \in UNION {[1 .. n -> Byte] : n \in 0 .. BlockBytes - 1}
      /\ j.text = [blocks |-> j.text.blocks, tail |-> j.text.tail]
  BY <1>1 DEF Text
<1> QED
  BY <1>1, <1>2, Zenon

\* zero_block is a block.
LEMMA ZeroBlock == zero_block \in Block
BY Zenon DEF zero_block, Block, Byte

\* The invariant holds of the message given to the cipher.
LEMMA OcbInitInv == OcbInit => OcbInv
<1> SUFFICES ASSUME OcbInit, job.mode = "ocb2" PROVE OcbInv
  BY DEF OcbInit, OcbInv
<1>1. job \in Jobs /\ phase = "encrypt" /\ done = 0 /\ offsets = <<>>
  BY DEF OcbInit
<1>2. delta = Offset(0)
  BY DEF OcbInit, Offset
<1>3. out = [blocks |-> <<>>, tail |-> <<>>] /\ checksum = zero_block
  BY DEF OcbInit, Empty
<1>4. job.text.blocks \in Seq(Block) /\ Len(job.text.blocks) \in Nat
  BY <1>1, JobParts, LenProperties, Zenon
<1>5. Doubled
  BY <1>1 DEF Doubled
<1>6. Enciphered(out.blocks, 0) /\ out = [blocks |-> out.blocks, tail |-> <<>>]
  BY <1>3 DEF Enciphered
<1>7. \E f : Checksums(f, 0) /\ checksum = f[0]
  <2> DEFINE f == [i \in 0 .. 0 |-> zero_block]
  <2>1. f \in [0 .. 0 -> Block] /\ f[0] = zero_block
    BY ZeroBlock
  <2>2. Checksums(f, 0)
    BY <2>1 DEF Checksums
  <2> QED
    BY <1>3, <2>1, <2>2
<1>8. Encrypting
  BY <1>1, <1>2, <1>4, <1>6, <1>7 DEF Encrypting, Whole
<1> QED
  BY <1>1, <1>5, <1>8 DEF OcbInv, RoundTrip, TagsMeet

\* Every offset is a block.
LEMMA OffsetBlock ==
  ASSUME job \in Jobs, Doubled
  PROVE  \A i \in 0 .. Len(offsets) : Offset(i) \in Block
<1> TAKE i \in 0 .. Len(offsets)
<1>1. offsets \in Seq(Block) /\ (i # 0 => i \in 1 .. Len(offsets))
  BY DEF Doubled
<1>2. i # 0 => offsets[i] \in Block
  BY <1>1, ElementOfSeq
<1>3. aes_encrypt(job.key, job.iv) \in Block
  BY JobParts, AesPermutes, Zenon
<1> QED
  BY <1>2, <1>3 DEF Offset

\* Recording the next offset keeps the record, and the offsets in it.
LEMMA OffsetAppended ==
  ASSUME job \in Jobs, Doubled, UNCHANGED job,
         offsets' = Append(offsets, double_block(Offset(Len(offsets))))
  PROVE  /\ Doubled' /\ Len(offsets') = Len(offsets) + 1
         /\ \A i \in 0 .. Len(offsets) : Offset(i)' = Offset(i)
         /\ \A i : i = Len(offsets) + 1 => Offset(i)' = double_block(Offset(Len(offsets)))
<1> DEFINE n == Len(offsets)
           d == double_block(Offset(n))
<1>1. offsets \in Seq(Block) /\ n \in Nat /\ n \in 0 .. n
  BY LenProperties DEF Doubled
<1>2. d \in Block
  BY <1>1, OffsetBlock, DoubleBlock, Zenon
<1>3. \A i \in 1 .. n : offsets[i] = double_block(Offset(i - 1))
  BY DEF Doubled
<1> HIDE DEF d
<1>4. /\ offsets' \in Seq(Block) /\ Len(offsets') = n + 1
      /\ \A i \in 1 .. n : offsets'[i] = offsets[i]
      /\ offsets'[n + 1] = d
  BY <1>1, <1>2, AppendProperties DEF d
<1>5. \A i \in 0 .. n : Offset(i)' = Offset(i)
  BY <1>1, <1>4 DEF Offset
<1>6. \A i : i = n + 1 => Offset(i)' = d
  BY <1>1, <1>4 DEF Offset
<1>7. \A i \in 1 .. n + 1 : offsets'[i] = double_block(Offset(i - 1)')
  <2> TAKE i \in 1 .. n + 1
  <2>1. CASE i = n + 1
    <3>1. i - 1 = n
      BY <1>1, <2>1
    <3> QED
      BY <1>1, <1>4, <1>5, <2>1, <3>1, Zenon DEF d
  <2>2. CASE i # n + 1
    <3>1. i \in 1 .. n /\ i - 1 \in 0 .. n
      BY <1>1, <2>2
    <3> QED
      BY <1>3, <1>4, <1>5, <3>1, Zenon
  <2> QED
    BY <2>1, <2>2
<1>8. Doubled'
  BY <1>4, <1>7 DEF Doubled
<1> QED
  BY <1>4, <1>5, <1>6, <1>8 DEF d

\* One more block of checksums.
LEMMA ChecksumAppended ==
  ASSUME NEW n \in Nat, NEW f, Checksums(f, n), job \in Jobs, n + 1 \in 1 .. Whole
  PROVE  \E g : /\ Checksums(g, n + 1)
                /\ g[n + 1] = xor_block(f[n], job.text.blocks[n + 1])
<1> DEFINE s == xor_block(f[n], job.text.blocks[n + 1])
           g == [i \in 0 .. n + 1 |-> IF i = n + 1 THEN s ELSE f[i]]
<1>1. job.text.blocks[n + 1] \in Block
  <2>1. job.text.blocks \in Seq(Block)
    BY JobParts
  <2> QED
    BY <2>1, ElementOfSeq DEF Whole
<1>2. f \in [0 .. n -> Block] /\ f[0] = zero_block
  BY DEF Checksums
<1>3. s \in Block
  <2>1. f[n] \in Block
    BY <1>2
  <2> QED
    BY <1>1, <2>1, XorBlock, Zenon
<1>4. \A i \in 1 .. n : f[i] = xor_block(f[i - 1], job.text.blocks[i])
  BY DEF Checksums
<1>5. g[n + 1] = s
  OBVIOUS
<1>6. \A i \in 0 .. n : g[i] = f[i]
  OBVIOUS
<1>7. \A i \in 0 .. n + 1 : g[i] \in Block
  BY <1>2, <1>3, <1>5, <1>6
<1>8. g \in [0 .. n + 1 -> Block]
  BY <1>7
<1>9. g[0] = zero_block
  BY <1>2, <1>6
<1> HIDE DEF g
<1>10. \A i \in 1 .. n + 1 : g[i] = xor_block(g[i - 1], job.text.blocks[i])
  <2> TAKE i \in 1 .. n + 1
  <2>1. i - 1 \in 0 .. n /\ (i # n + 1 => i \in 1 .. n /\ i \in 0 .. n) /\ (i = n + 1 => i - 1 = n)
    OBVIOUS
  <2> QED
    BY <1>4, <1>5, <1>6, <2>1, Zenon
<1> QED
  BY <1>5, <1>8, <1>9, <1>10 DEF Checksums

\* A block enciphered.
LEMMA EncryptBlockInv == OcbInv /\ Ocb2EncryptBlock => OcbInv'
<1> SUFFICES ASSUME OcbInv, Ocb2EncryptBlock PROVE OcbInv'
  OBVIOUS
<1> DEFINE in == job.text.blocks[done + 1]
           c == ocb2_encrypt_block(job.key, in, delta)
<1>1. /\ phase = "encrypt" /\ job.mode = "ocb2" /\ done < Whole
      /\ out' = [out EXCEPT !.blocks = Append(@, c)]
      /\ checksum' = xor_block(checksum, in)
      /\ delta' = double_block(delta) /\ offsets' = Append(offsets, double_block(delta))
      /\ done' = done + 1 /\ job' = job /\ phase' = phase
  BY DEF Ocb2EncryptBlock, Whole
<1>2. job \in Jobs /\ Doubled /\ Encrypting
  BY <1>1 DEF OcbInv
<1>3. /\ done \in 0 .. Whole /\ Len(offsets) = done /\ delta = Offset(done)
      /\ Enciphered(out.blocks, done) /\ out = [blocks |-> out.blocks, tail |-> <<>>]
  BY <1>2, Zenon DEF Encrypting
<1>4. PICK f : Checksums(f, done) /\ checksum = f[done]
  BY <1>2, Zenon DEF Encrypting
<1>5. /\ job.key \in Keys /\ job.text.blocks \in Seq(Block)
      /\ Whole \in Nat
  BY <1>2, JobParts, LenProperties, Zenon DEF Whole
<1>6. done \in Nat /\ done + 1 \in 1 .. Whole /\ done' \in 0 .. Whole /\ done \in 0 .. Len(offsets)
  BY <1>1, <1>3, <1>5
<1>7. in \in Block
  BY <1>5, <1>6, ElementOfSeq DEF Whole
<1>8. delta \in Block
  BY <1>2, <1>3, <1>6, OffsetBlock, Zenon
<1>9. c \in Block
  BY <1>5, <1>7, <1>8, BlockRoundTrip, Zenon
<1>10. /\ Doubled' /\ Len(offsets') = done + 1
       /\ \A i \in 0 .. done : Offset(i)' = Offset(i)
       /\ \A i : i = done + 1 => Offset(i)' = double_block(delta)
  BY <1>1, <1>2, <1>3, OffsetAppended, Zenon
<1>11. delta' = Offset(done)'
  <2>1. \A i : i = done + 1 => i # 0
    BY <1>6
  <2>2. offsets'[done + 1] = double_block(delta)
    BY <1>10, <2>1, Zenon DEF Offset
  <2> QED
    BY <1>1, <1>6, <2>2 DEF Offset
<1> HIDE DEF c
<1>12. out'.blocks = Append(out.blocks, c) /\ out' = [blocks |-> out'.blocks, tail |-> <<>>]
  <2> DEFINE b == out.blocks
  <2>1. out = [blocks |-> b, tail |-> <<>>] /\ out' = [out EXCEPT !.blocks = Append(@, c)]
    BY <1>1, <1>3, Zenon
  <2> HIDE DEF b
  <2>2. out' = [blocks |-> Append(b, c), tail |-> <<>>]
    BY <2>1
  <2> QED
    BY <2>2 DEF b
<1>13. Enciphered(out.blocks, done)'
  <2> DEFINE b == out.blocks
             n == done
  <2>1. b \in Seq(Block) /\ Len(b) = n
    BY <1>3 DEF Enciphered
  <2>2. \A i \in 1 .. n : b[i] = ocb2_encrypt_block(job.key, job.text.blocks[i], Offset(i - 1))
    BY <1>3 DEF Enciphered
  <2>3. /\ b' \in Seq(Block) /\ Len(b') = n + 1
        /\ \A i \in 1 .. n : b'[i] = b[i]
        /\ b'[n + 1] = c
    BY <1>6, <1>9, <1>12, <2>1, AppendProperties
  <2>4. \A i \in 1 .. n + 1 :
          b'[i] = ocb2_encrypt_block(job.key, job.text.blocks[i], Offset(i - 1)')
    <3> TAKE i \in 1 .. n + 1
    <3>1. i - 1 \in 0 .. n /\ (i # n + 1 => i \in 1 .. n) /\ (i = n + 1 => i - 1 = n)
      BY <1>6
    <3>2. Offset(i - 1)' = Offset(i - 1)
      BY <1>10, <3>1, Zenon
    <3>3. CASE i = n + 1
      BY <1>3, <2>3, <3>1, <3>2, <3>3, Zenon DEF c
    <3>4. CASE i # n + 1
      BY <2>2, <2>3, <3>1, <3>2, <3>4, Zenon
    <3> QED
      BY <3>3, <3>4
  <2> QED
    BY <1>1, <2>3, <2>4 DEF Enciphered
<1>14. \E g : Checksums(g, done)' /\ checksum' = g[done']
  <2>1. PICK g : /\ Checksums(g, done + 1)
                 /\ g[done + 1] = xor_block(f[done], in)
    BY <1>2, <1>4, <1>6, ChecksumAppended, Zenon
  <2>2. Checksums(g, done)'
    BY <1>1, <2>1, Zenon DEF Checksums
  <2> QED
    BY <1>1, <1>4, <2>1, <2>2, Zenon
<1>15. Encrypting'
  <2>2. done' \in 0 .. Whole'
    BY <1>1, <1>6, Zenon DEF Whole
  <2>3. Len(offsets') = done'
    BY <1>1, <1>10, Zenon
  <2> QED
    BY <1>11, <1>12, <1>13, <1>14, <2>2, <2>3, Zenon DEF Encrypting
<1>16. RoundTrip' /\ TagsMeet'
  BY <1>1 DEF RoundTrip, TagsMeet
<1> QED
  BY <1>1, <1>2, <1>10, <1>15, <1>16 DEF OcbInv

\* The end of the encryption: the peer starts from the same offset and the same
\* checksum.
LEMMA EncryptFinalInv == OcbInv /\ Ocb2EncryptFinal => OcbInv'
<1> SUFFICES ASSUME OcbInv, Ocb2EncryptFinal PROVE OcbInv'
  OBVIOUS
<1> DEFINE final == ocb2_encrypt_block_final(job.key, job.text.tail, delta, checksum)
<1>1. /\ phase = "encrypt" /\ job.mode = "ocb2" /\ done = Whole
      /\ sent' = [text |-> [out EXCEPT !.tail = final.out], tag |-> final.tag]
      /\ offsets' = Append(offsets, double_block(delta))
      /\ phase' = "decrypt" /\ done' = 0 /\ out' = Empty
      /\ delta' = aes_encrypt(job.key, job.iv) /\ checksum' = zero_block
      /\ job' = job
  BY DEF Ocb2EncryptFinal, Whole
<1>2. job \in Jobs /\ Doubled /\ Encrypting
  BY <1>1 DEF OcbInv
<1>3. /\ Len(offsets) = Whole /\ delta = Offset(Whole)
      /\ Enciphered(out.blocks, Whole) /\ out = [blocks |-> out.blocks, tail |-> <<>>]
  BY <1>1, <1>2, Zenon DEF Encrypting
<1>4. PICK f : Checksums(f, Whole) /\ checksum = f[Whole]
  BY <1>1, <1>2, Zenon DEF Encrypting
<1>5. Whole \in Nat /\ Whole \in 0 .. Whole /\ 0 \in 0 .. Whole
  <2>1. Whole \in Nat
    BY <1>2, JobParts, LenProperties, Zenon DEF Whole
  <2> QED
    BY <2>1
<1>6. /\ Doubled' /\ Len(offsets') = Whole + 1
      /\ \A i \in 0 .. Whole : Offset(i)' = Offset(i)
  BY <1>1, <1>2, <1>3, OffsetAppended, Zenon
<1>7. Whole' = Whole
  BY <1>1, Zenon DEF Whole
<1>8. delta' = Offset(done)'
  BY <1>1 DEF Offset
<1> HIDE DEF final
<1>9. /\ sent'.text.blocks = out.blocks
      /\ sent'.text.tail = final.out /\ sent'.tag = final.tag
  <2> DEFINE b == out.blocks
  <2>1. out = [blocks |-> b, tail |-> <<>>]
    BY <1>3
  <2> HIDE DEF b
  <2>2. [out EXCEPT !.tail = final.out] = [blocks |-> b, tail |-> final.out]
    BY <2>1
  <2>3. sent' = [text |-> [blocks |-> b, tail |-> final.out], tag |-> final.tag]
    BY <1>1, <2>2, Zenon
  <2> QED
    BY <2>3 DEF b
<1>10. Enciphered(sent.text.blocks, Whole)'
  <2>1. /\ out.blocks \in Seq(Block) /\ Len(out.blocks) = Whole
        /\ \A i \in 1 .. Whole :
             out.blocks[i] = ocb2_encrypt_block(job.key, job.text.blocks[i], Offset(i - 1))
    BY <1>3 DEF Enciphered
  <2>2. \A i \in 1 .. Whole :
          out.blocks[i] = ocb2_encrypt_block(job.key, job.text.blocks[i], Offset(i - 1)')
    <3> TAKE i \in 1 .. Whole
    <3>1. i - 1 \in 0 .. Whole
      BY <1>5
    <3> QED
      BY <1>6, <2>1, <3>1, Zenon
  <2> QED
    BY <1>1, <1>7, <1>9, <2>1, <2>2, Zenon DEF Enciphered
<1>11. /\ Checksums(f, Whole)' /\ checksum' = f[done']
       /\ LET fin == ocb2_encrypt_block_final(job.key, job.text.tail, Offset(Whole), f[Whole])
          IN  sent'.text.tail = fin'.out /\ sent'.tag = fin'.tag
  <2>1. Checksums(f, Whole)'
    BY <1>1, <1>4, <1>7, Zenon DEF Checksums
  <2>2. checksum' = f[done']
    BY <1>1, <1>4, Zenon DEF Checksums
  <2>3. Offset(Whole)' = delta
    <3>1. \A i \in 0 .. Whole : Offset(i)' = Offset(i)
      BY <1>6
    <3>2. Offset(Whole)' = IF Whole' = 0 THEN aes_encrypt(job'.key, job'.iv) ELSE offsets'[Whole']
      BY Zenon DEF Offset
    <3>3. \A i \in 0 .. Whole : (IF i = 0 THEN aes_encrypt(job'.key, job'.iv) ELSE offsets'[i]) = Offset(i)
      BY <3>1, Zenon DEF Offset
    <3> QED
      BY <1>3, <1>5, <1>7, <3>2, <3>3, Zenon
  <2> QED
    BY <1>1, <1>4, <1>7, <1>9, <2>1, <2>2, <2>3, Zenon DEF final
<1>12. /\ out' = [blocks |-> out'.blocks, tail |-> <<>>]
       /\ out'.blocks \in Seq(Block) /\ Len(out'.blocks) = done'
       /\ \A i \in 1 .. done' : out'.blocks[i] = job'.text.blocks[i]
  BY <1>1 DEF Empty
<1>13. Decrypting'
  <2>1. done' \in 0 .. Whole' /\ Len(offsets') = Whole' + 1
    BY <1>1, <1>5, <1>6, <1>7, Zenon
  <2> QED
    BY <1>8, <1>10, <1>11, <1>12, <2>1, Zenon DEF Decrypting
<1>14. RoundTrip' /\ TagsMeet'
  BY <1>1 DEF RoundTrip, TagsMeet
<1> QED
  BY <1>1, <1>2, <1>6, <1>13, <1>14 DEF OcbInv

\* A block deciphered.
LEMMA DecryptBlockInv == OcbInv /\ Ocb2DecryptBlock => OcbInv'
<1> SUFFICES ASSUME OcbInv, Ocb2DecryptBlock, job.mode = "ocb2" PROVE OcbInv'
  BY DEF OcbInv, Ocb2DecryptBlock
<1> DEFINE in == sent.text.blocks[done + 1]
           plain == ocb2_decrypt_block(job.key, in, delta)
<1>1. /\ phase = "decrypt" /\ done < Len(sent.text.blocks)
      /\ out' = [out EXCEPT !.blocks = Append(@, plain)]
      /\ checksum' = xor_block(checksum, plain)
      /\ delta' = double_block(delta) /\ done' = done + 1
      /\ job' = job /\ phase' = phase /\ sent' = sent /\ offsets' = offsets
  BY DEF Ocb2DecryptBlock
<1>2. job \in Jobs /\ Doubled /\ Decrypting
  BY <1>1 DEF OcbInv
<1>3. /\ done \in 0 .. Whole /\ Len(offsets) = Whole + 1 /\ delta = Offset(done)
      /\ Enciphered(sent.text.blocks, Whole)
      /\ out = [blocks |-> out.blocks, tail |-> <<>>]
      /\ out.blocks \in Seq(Block) /\ Len(out.blocks) = done
      /\ \A i \in 1 .. done : out.blocks[i] = job.text.blocks[i]
  BY <1>2, Zenon DEF Decrypting
<1>4. PICK f : /\ Checksums(f, Whole) /\ checksum = f[done]
               /\ LET fin == ocb2_encrypt_block_final(job.key, job.text.tail, Offset(Whole), f[Whole])
                  IN  sent.text.tail = fin.out /\ sent.tag = fin.tag
  BY <1>2, Zenon DEF Decrypting
<1>5. job.key \in Keys /\ job.text.blocks \in Seq(Block) /\ Whole \in Nat
  BY <1>2, JobParts, LenProperties, Zenon DEF Whole
<1>6. Len(sent.text.blocks) = Whole
  BY <1>3, Zenon DEF Enciphered
<1>7. /\ done \in Nat /\ done + 1 \in 1 .. Whole /\ done + 1 \in 0 .. Whole
      /\ done \in 0 .. Len(offsets) /\ done + 1 \in 1 .. Len(offsets)
      /\ (done + 1) - 1 = done
  BY <1>1, <1>3, <1>5, <1>6
<1> DEFINE txt == job.text.blocks[done + 1]
<1>8. txt \in Block
  BY <1>5, <1>7, ElementOfSeq DEF Whole
<1>9. delta \in Block
  BY <1>2, <1>3, <1>7, OffsetBlock, Zenon
<1>10. in = ocb2_encrypt_block(job.key, txt, delta)
  BY <1>3, <1>7, Zenon DEF Enciphered
<1>11. plain = txt
  <2> HIDE DEF txt, in
  <2>1. ocb2_decrypt_block(job.key, ocb2_encrypt_block(job.key, txt, delta), delta) = txt
    BY <1>5, <1>8, <1>9, BlockRoundTrip, Zenon
  <2> QED
    BY <1>10, <2>1, Zenon
<1> HIDE DEF plain
<1>12. delta' = Offset(done)'
  <2>1. offsets[done + 1] = double_block(Offset(done))
    BY <1>2, <1>7, Zenon DEF Doubled
  <2>2. done' # 0 /\ offsets'[done'] = double_block(delta)
    <3>1. done + 1 # 0
      BY <1>7
    <3> QED
      BY <1>1, <1>3, <2>1, <3>1, Zenon
  <2> QED
    BY <1>1, <2>2, Zenon DEF Offset
<1>13. out' = [blocks |-> Append(out.blocks, plain), tail |-> <<>>]
  <2> DEFINE b == out.blocks
  <2>1. out = [blocks |-> b, tail |-> <<>>] /\ out' = [out EXCEPT !.blocks = Append(@, plain)]
    BY <1>1, <1>3, Zenon
  <2> HIDE DEF b
  <2>2. out' = [blocks |-> Append(b, plain), tail |-> <<>>]
    BY <2>1
  <2> QED
    BY <2>2 DEF b
<1>14. /\ out' = [blocks |-> out'.blocks, tail |-> <<>>]
       /\ out'.blocks \in Seq(Block) /\ Len(out'.blocks) = done + 1
       /\ \A i \in 1 .. done + 1 : out'.blocks[i] = job.text.blocks[i]
  <2> DEFINE b == out.blocks
             n == done
  <2>1. out'.blocks = Append(b, txt) /\ out' = [blocks |-> out'.blocks, tail |-> <<>>]
    BY <1>11, <1>13
  <2> HIDE DEF txt
  <2>2. /\ Append(b, txt) \in Seq(Block) /\ Len(Append(b, txt)) = n + 1
        /\ \A i \in 1 .. n : Append(b, txt)[i] = b[i]
        /\ Append(b, txt)[n + 1] = txt
    BY <1>3, <1>7, <1>8, AppendProperties
  <2>3. \A i \in 1 .. n + 1 : Append(b, txt)[i] = job.text.blocks[i]
    <3> TAKE i \in 1 .. n + 1
    <3>1. i # n + 1 => i \in 1 .. n
      BY <1>7
    <3> QED
      BY <1>3, <2>2, <3>1, Zenon DEF txt
  <2> QED
    BY <2>1, <2>2, <2>3, Zenon
<1>15. checksum' = f[done']
  <2>1. f[done + 1] = xor_block(f[done], txt)
    BY <1>4, <1>7, Zenon DEF Checksums
  <2> QED
    BY <1>1, <1>4, <1>11, <2>1, Zenon
<1>16. Whole' = Whole /\ \A i : Offset(i)' = Offset(i)
  BY <1>1, Zenon DEF Whole, Offset
<1>17. Enciphered(sent.text.blocks, Whole)' /\ Checksums(f, Whole)'
  <2>1. Enciphered(sent.text.blocks, Whole)'
    BY <1>1, <1>3, <1>16, Zenon DEF Enciphered
  <2>2. Checksums(f, Whole)'
    BY <1>1, <1>4, <1>16, Zenon DEF Checksums
  <2> QED
    BY <2>1, <2>2
<1>18. Decrypting'
  <2>1. /\ done' \in 0 .. Whole' /\ Len(offsets') = Whole' + 1
    BY <1>1, <1>3, <1>7, <1>16, Zenon
  <2>2. Offset(Whole)' = Offset(Whole)
    BY <1>1, <1>16, Zenon DEF Offset
  <2>3. LET fin == ocb2_encrypt_block_final(job.key, job.text.tail, Offset(Whole), f[Whole])
        IN  sent'.text.tail = fin'.out /\ sent'.tag = fin'.tag
    BY <1>1, <1>4, <1>16, <2>2, Zenon
  <2>4. /\ out'.blocks \in Seq(Block) /\ Len(out'.blocks) = done'
        /\ \A i \in 1 .. done' : out'.blocks[i] = job'.text.blocks[i]
    BY <1>1, <1>14, Zenon
  <2> QED
    BY <1>12, <1>14, <1>15, <1>17, <2>1, <2>3, <2>4, Zenon DEF Decrypting
<1>19. Doubled'
  BY <1>1, <1>2, <1>16, Zenon DEF Doubled
<1>20. RoundTrip' /\ TagsMeet'
  BY <1>1 DEF RoundTrip, TagsMeet
<1> QED
  BY <1>1, <1>2, <1>18, <1>19, <1>20 DEF OcbInv

\* The end of the decryption.
LEMMA DecryptFinalInv == OcbInv /\ Ocb2DecryptFinal => OcbInv'
<1> SUFFICES ASSUME OcbInv, Ocb2DecryptFinal, job.mode = "ocb2" PROVE OcbInv'
  BY DEF OcbInv, Ocb2DecryptFinal
<1> DEFINE back == ocb2_encrypt_block_final(job.key, sent.text.tail, delta, checksum)
<1>1. /\ phase = "decrypt" /\ done = Len(sent.text.blocks)
      /\ out' = [out EXCEPT !.tail = back.out] /\ tag' = back.tag
      /\ phase' = "done"
      /\ job' = job /\ sent' = sent /\ offsets' = offsets
  BY DEF Ocb2DecryptFinal
<1>2. job \in Jobs /\ Doubled /\ Decrypting
  BY <1>1 DEF OcbInv
<1>3. /\ Len(offsets) = Whole + 1 /\ delta = Offset(done)
      /\ Enciphered(sent.text.blocks, Whole)
      /\ out = [blocks |-> out.blocks, tail |-> <<>>]
      /\ out.blocks \in Seq(Block) /\ Len(out.blocks) = done
      /\ \A i \in 1 .. done : out.blocks[i] = job.text.blocks[i]
  BY <1>2, Zenon DEF Decrypting
<1>4. done = Whole
  BY <1>1, <1>3, Zenon DEF Enciphered
<1> DEFINE there == ocb2_encrypt_block_final(job.key, job.text.tail, delta, checksum)
<1>5. PICK f : /\ Checksums(f, Whole) /\ checksum = f[Whole]
               /\ sent.text.tail = there.out /\ sent.tag = there.tag
  BY <1>2, <1>3, <1>4, Zenon DEF Decrypting
<1>6. /\ job.key \in Keys /\ job.text.blocks \in Seq(Block) /\ Whole \in Nat
      /\ job.text = [blocks |-> job.text.blocks, tail |-> job.text.tail]
  BY <1>2, JobParts, LenProperties, Zenon DEF Whole
<1>7. PICK n \in 0 .. BlockBytes - 1 : job.text.tail \in [1 .. n -> Byte]
  BY <1>2, JobParts, Zenon
<1>8. delta \in Block
  <2>1. done \in 0 .. Len(offsets)
    BY <1>3, <1>4, <1>6
  <2> QED
    BY <1>2, <1>3, <2>1, OffsetBlock, Zenon
<1>9. checksum \in Block
  <2>1. Whole \in 0 .. Whole
    BY <1>6
  <2> QED
    BY <1>5, <2>1, Zenon DEF Checksums
<1>10. /\ back.out = job.text.tail
       /\ job.text.tail = <<>> => back.tag = there.tag
  <2>1. LET again == ocb2_encrypt_block_final(job.key, there.out, delta, checksum)
        IN  /\ again.out = job.text.tail
            /\ job.text.tail = <<>> => again.tag = there.tag
    <3> DEFINE k == job.key
               t == job.text.tail
    <3>1. k \in Keys /\ t \in [1 .. n -> Byte]
      BY <1>6, <1>7
    <3> HIDE DEF k, t
    <3>2. LET go == ocb2_encrypt_block_final(k, t, delta, checksum)
              again == ocb2_encrypt_block_final(k, go.out, delta, checksum)
          IN  again.out = t /\ (n = 0 => again.tag = go.tag)
      BY <1>7, <1>8, <1>9, <3>1, FinalRoundTrip
    <3>3. t = <<>> => n = 0
      <4>1. n \in Nat /\ DOMAIN t = 1 .. n
        BY <1>7, <3>1, OcbAssumption
      <4> QED
        BY <4>1
    <3> QED
      BY <3>2, <3>3, Zenon DEF k, t
  <2> QED
    BY <1>5, <2>1, Zenon
<1> HIDE DEF back, there
<1>11. out.blocks = job.text.blocks
  BY <1>3, <1>4, <1>6, SeqEqual DEF Whole
<1>12. out' = job.text
  <2> DEFINE b == out.blocks
             t == job.text.tail
  <2>1. out = [blocks |-> b, tail |-> <<>>] /\ out' = [out EXCEPT !.tail = t]
    BY <1>1, <1>3, <1>10, Zenon
  <2>2. job.text = [blocks |-> b, tail |-> t]
    BY <1>6, <1>11, Zenon
  <2> HIDE DEF b, t
  <2>3. out' = [blocks |-> b, tail |-> t]
    BY <2>1
  <2> QED
    BY <2>2, <2>3, Zenon
<1>13. RoundTrip'
  BY <1>1, <1>12, Zenon DEF RoundTrip
<1>14. TagsMeet'
  <2>1. job'.text.tail = <<>> => tag' = sent'.tag
    BY <1>1, <1>5, <1>10
  <2> QED
    BY <2>1, Zenon DEF TagsMeet
<1>15. Doubled'
  BY <1>1, <1>2, Zenon DEF Doubled, Offset
<1> QED
  BY <1>1, <1>2, <1>13, <1>14, <1>15 DEF OcbInv

\* Every step of the two sides keeps it.
LEMMA OcbNextInv == OcbInv /\ [OcbNext]_ocbVars => OcbInv'
<1> SUFFICES ASSUME OcbInv, [OcbNext]_ocbVars PROVE OcbInv'
  OBVIOUS
<1>1. CASE Ocb2EncryptBlock
  BY <1>1, EncryptBlockInv
<1>2. CASE Ocb2EncryptFinal
  BY <1>2, EncryptFinalInv
<1>3. CASE Ocb2DecryptBlock
  BY <1>3, DecryptBlockInv
<1>4. CASE Ocb2DecryptFinal
  BY <1>4, DecryptFinalInv
<1>5. CASE Ocb3EncryptBlock
  BY <1>5 DEF Ocb3EncryptBlock, OcbInv
<1>6. CASE Ocb3EncryptFinal
  BY <1>6 DEF Ocb3EncryptFinal, OcbInv
<1>7. CASE UNCHANGED ocbVars
  <2>1. /\ job' = job /\ phase' = phase /\ done' = done /\ delta' = delta
        /\ checksum' = checksum /\ out' = out /\ tag' = tag /\ sent' = sent /\ offsets' = offsets
    BY <1>7 DEF ocbVars
  <2>2. (Doubled' <=> Doubled) /\ (RoundTrip' <=> RoundTrip) /\ (TagsMeet' <=> TagsMeet)
    BY <2>1, Zenon DEF Doubled, Offset, RoundTrip, TagsMeet
  <2>3. /\ Whole' = Whole /\ Offset(Whole)' = Offset(Whole) /\ Offset(done)' = Offset(done)
        /\ \A f, n : Checksums(f, n)' <=> Checksums(f, n)
        /\ \A b, n : Enciphered(b, n)' <=> Enciphered(b, n)
    BY <2>1, Zenon DEF Whole, Offset, Checksums, Enciphered
  <2>4. (Encrypting' <=> Encrypting) /\ (Decrypting' <=> Decrypting)
    BY <2>1, Zenon DEF Encrypting, Decrypting, Whole, Offset, Checksums, Enciphered
  <2> QED
    BY <2>1, <2>2, <2>4, Zenon DEF OcbInv
<1> QED
  BY <1>1, <1>2, <1>3, <1>4, <1>5, <1>6, <1>7 DEF OcbNext, OcbRest

-------------------------------------------------------------------------------
\* The invariant holds.
THEOREM OcbCorrect == OcbSpec => []OcbInv
BY OcbInitInv, OcbNextInv, PTL DEF OcbSpec

\* Decrypting with the same key and nonce gives back every text, of whatever
\* length and content, under every permutation cipher.
THEOREM Ocb2RoundTrips == OcbSpec => []RoundTrip
<1>1. OcbInv => RoundTrip
  BY DEF OcbInv, RoundTrip
<1> QED
  BY <1>1, OcbCorrect, PTL

\* For every text of whole blocks the two tags are the same.
THEOREM Ocb2TagsMeet == OcbSpec => []TagsMeet
<1>1. OcbInv => TagsMeet
  BY DEF OcbInv, TagsMeet
<1> QED
  BY <1>1, OcbCorrect, PTL

-------------------------------------------------------------------------------
(* Bits.  The RFC counts the bits of a string from its first byte's highest. *)

\* Quotient and remainder are determined.
LEMMA DivModUnique ==
  ASSUME NEW m \in Nat \ {0}, NEW q \in Int, NEW r \in 0 .. m - 1
  PROVE  ((q * m) + r) \div m = q /\ ((q * m) + r) % m = r
<1> DEFINE y == (q * m) + r
           d == y \div m
           e == y % m
<1>1. y \in Int
  <2>1. q * m \in Int
    OBVIOUS
  <2> QED
    BY <2>1
<1> HIDE DEF y
<1>2. d \in Int /\ e \in 0 .. m - 1 /\ y = m * d + e
  BY <1>1
<1> HIDE DEF d, e
<1>3. m * (q - d) = e - r
  <2>1. m * (q - d) = (q * m) - (m * d)
    BY <1>2
  <2> QED
    BY <1>1, <1>2, <2>1 DEF y
<1>4. q = d
  <2>1. CASE q - d >= 1
    <3>1. m * (q - d) >= m
      BY <1>2, <2>1
    <3> QED
      BY <1>2, <1>3, <3>1
  <2>2. CASE q - d <= -1
    <3>1. m * (q - d) <= -m
      BY <1>2, <2>2
    <3> QED
      BY <1>2, <1>3, <3>1
  <2> QED
    BY <1>2, <2>1, <2>2
<1>5. e = r
  <2>1. m * (q - d) = 0
    BY <1>2, <1>4
  <2> QED
    BY <1>2, <1>3, <2>1
<1> QED
  BY <1>4, <1>5 DEF d, e, y

\* Bit b of byte k is the bit k * ByteBits - b of the RFC's string.
LEMMA BitAt ==
  ASSUME NEW s, NEW k \in Nat \ {0}, NEW b \in 0 .. ByteBits - 1
  PROVE  Bit(s, (k * ByteBits) - b) <=> b \in s[k]
<1>1. ByteBits \in Nat \ {0}
  BY OcbAssumption
<1> DEFINE p == (k * ByteBits) - b
           r == (ByteBits - 1) - b
<1>2. r \in 0 .. ByteBits - 1 /\ k - 1 \in Int
  BY <1>1
<1>3. p - 1 = ((k - 1) * ByteBits) + r
  BY <1>1
<1>4. (p - 1) \div ByteBits = k - 1 /\ (p - 1) % ByteBits = r
  BY <1>1, <1>2, <1>3, DivModUnique
<1>5. Bit(s, p) <=> (ByteBits - 1) - ((p - 1) % ByteBits) \in s[((p - 1) \div ByteBits) + 1]
  BY DEF Bit
<1> HIDE DEF p
<1>6. (ByteBits - 1) - r = b /\ (k - 1) + 1 = k
  BY <1>1
<1> HIDE DEF r
<1>7. Bit(s, p) <=> b \in s[k]
  BY <1>4, <1>5, <1>6
<1> QED
  BY <1>7 DEF p

\* What Up and Down do to one bit.
LEMMA MovedBit ==
  ASSUME NEW B \in Byte, NEW s \in 0 .. ByteBits, NEW b \in 0 .. ByteBits - 1
  PROVE  /\ b \in Up(B, s) <=> b - s \in B
         /\ b \in Down(B, s) <=> b + s \in B
<1>1. ByteBits \in Nat \ {0}
  BY OcbAssumption
<1>2. \A x \in B : x \in 0 .. ByteBits - 1
  BY Zenon DEF Byte
<1>3. b \in Up(B, s) => b - s \in B
  BY <1>1, <1>2 DEF Up
<1>4. b - s \in B => b \in Up(B, s)
  <2> HAVE b - s \in B
  <2>1. (b - s) + s = b /\ b < ByteBits
    BY <1>1
  <2> QED
    BY <2>1, Zenon DEF Up
<1>5. b \in Down(B, s) => b + s \in B
  BY <1>1, <1>2 DEF Down
<1>6. b + s \in B => b \in Down(B, s)
  <2> HAVE b + s \in B
  <2>1. (b + s) - s = b /\ b + s >= s
    BY <1>1
  <2> QED
    BY <2>1, Zenon DEF Down
<1> QED
  BY <1>3, <1>4, <1>5, <1>6

\* left_shift brings to each place the bit that many places on, if there is one.
LEMMA ShiftedBit ==
  ASSUME NEW n \in Nat, NEW in \in [1 .. n -> Byte], NEW bits \in Nat,
         NEW k \in 1 .. n, NEW b \in 0 .. ByteBits - 1
  PROVE  LET p == ((k * ByteBits) - b) + bits
         IN  b \in left_shift(in, n, bits)[k] <=> p <= n * ByteBits /\ Bit(in, p)
<1>1. ByteBits \in Nat \ {0}
  BY OcbAssumption
<1> DEFINE q == bits \div ByteBits
           r == bits % ByteBits
           i == k + q
           p == ((k * ByteBits) - b) + bits
           high == IF i <= n THEN Up(in[i], r) ELSE {}
           low == IF i + 1 <= n THEN Down(in[i + 1], ByteBits - r) ELSE {}
<1>2. left_shift(in, n, bits)[k] = high \cup low
  BY DEF left_shift
<1>3. q \in Int /\ r \in 0 .. ByteBits - 1 /\ bits = (ByteBits * q) + r
  BY <1>1
<1>4. q >= 0
  <2>1. SUFFICES ASSUME q <= -1 PROVE FALSE
    BY <1>3
  <2> HIDE DEF q, r
  <2>2. ByteBits * q <= -ByteBits
    BY <1>1, <1>3, <2>1
  <2> QED
    BY <1>1, <1>3, <2>2
<1> HIDE DEF q, r
<1>5. i \in Nat \ {0} /\ i + 1 \in Nat \ {0} /\ i * ByteBits \in Int /\ n * ByteBits \in Int
  BY <1>1, <1>3, <1>4
<1>6. p = ((i * ByteBits) - b) + r
  BY <1>1, <1>3, <1>5
<1>7. (i + 1) * ByteBits = (i * ByteBits) + ByteBits
  BY <1>1, <1>5
<1>8. /\ i <= n => i * ByteBits <= n * ByteBits
      /\ ~ (i <= n) => i * ByteBits >= (n * ByteBits) + ByteBits
      /\ i + 1 <= n => (i * ByteBits) + ByteBits <= n * ByteBits
      /\ ~ (i + 1 <= n) => i * ByteBits >= n * ByteBits
  <2>1. \A x, y \in Int : x <= y => x * ByteBits <= y * ByteBits
    BY <1>1
  <2>2. (n + 1) * ByteBits = (n * ByteBits) + ByteBits
    BY <1>1
  <2> QED
    BY <1>5, <1>7, <2>1, <2>2
<1>9. /\ i <= n => in[i] \in Byte
      /\ i + 1 <= n => in[i + 1] \in Byte
  BY <1>5
<1>10. \A B \in Byte : \A x \in B : x \in 0 .. ByteBits - 1
  BY Zenon DEF Byte
<1> HIDE DEF p, i
<1>11. CASE b >= r
  <2>1. b - r \in 0 .. ByteBits - 1
    BY <1>1, <1>3, <1>11
  <2>2. p = (i * ByteBits) - (b - r)
    BY <1>1, <1>3, <1>5, <1>6
  <2>3. p <= n * ByteBits <=> i <= n
    BY <1>1, <1>3, <1>5, <1>8, <2>1, <2>2
  <2>4. Bit(in, p) <=> b - r \in in[i]
    BY <1>5, <2>1, <2>2, BitAt
  <2>5. b \in high <=> i <= n /\ b - r \in in[i]
    <3>1. r \in 0 .. ByteBits
      BY <1>1, <1>3
    <3> QED
      BY <1>9, <3>1, MovedBit, Zenon
  <2>6. b \notin low
    <3>1. ByteBits - r \in 0 .. ByteBits /\ ~ (b + (ByteBits - r) \in 0 .. ByteBits - 1)
      BY <1>1, <1>3, <1>11
    <3> QED
      BY <1>9, <1>10, <3>1, MovedBit, Zenon
  <2> QED
    BY <1>2, <2>3, <2>4, <2>5, <2>6, Zenon DEF p
<1>12. CASE ~ (b >= r)
  <2> DEFINE c == b + (ByteBits - r)
  <2>1. c \in 0 .. ByteBits - 1
    BY <1>1, <1>3, <1>12
  <2>2. p = ((i + 1) * ByteBits) - c
    BY <1>1, <1>3, <1>5, <1>6, <1>7
  <2>3. p <= n * ByteBits <=> i + 1 <= n
    BY <1>1, <1>3, <1>5, <1>7, <1>8, <2>1, <2>2
  <2>4. Bit(in, p) <=> c \in in[i + 1]
    BY <1>5, <2>1, <2>2, BitAt
  <2>5. b \in low <=> i + 1 <= n /\ c \in in[i + 1]
    <3>1. ByteBits - r \in 0 .. ByteBits
      BY <1>1, <1>3
    <3> QED
      BY <1>9, <3>1, MovedBit, Zenon
  <2>6. b \notin high
    <3>1. r \in 0 .. ByteBits /\ ~ (b - r \in 0 .. ByteBits - 1)
      BY <1>1, <1>3, <1>12
    <3> QED
      BY <1>9, <1>10, <3>1, MovedBit, Zenon
  <2> QED
    BY <1>2, <2>3, <2>4, <2>5, <2>6, Zenon DEF p
<1> QED
  BY <1>11, <1>12

\* double_block is the doubling of the RFC.
LEMMA DoubleAsRfc == \A s \in Block : double_block(s) = RfcDouble(s)
<1> TAKE s \in Block
<1>1. /\ ByteBits \in Nat \ {0} /\ BlockBytes \in Nat \ {0, 1} /\ Poly \in Byte
  BY OcbAssumption
<1>2. s \in [1 .. BlockBytes -> Byte]
  BY DEF Block
<1> DEFINE last == BlockBytes * ByteBits
           moved == left_shift(s, BlockBytes, 1)
           P(k, b) == (k * ByteBits) - b
           Rfc(k, b) == (P(k, b) < last /\ Bit(s, P(k, b) + 1)) # (last - P(k, b) \in Poly /\ Bit(s, 1))
           carried == [moved EXCEPT ![BlockBytes] = (@ \ Poly) \cup (Poly \ @)]
<1>3. RfcDouble(s) = [k \in 1 .. BlockBytes |-> {b \in 0 .. ByteBits - 1 : Rfc(k, b)}]
  BY Zenon DEF RfcDouble, FromBits
<1>4. double_block(s) = IF ByteBits - 1 \in s[1] THEN carried ELSE moved
  BY Zenon DEF double_block
<1>5. Bit(s, 1) <=> ByteBits - 1 \in s[1]
  <2>1. ByteBits - 1 \in 0 .. ByteBits - 1 /\ 1 \in Nat \ {0} /\ (1 * ByteBits) - (ByteBits - 1) = 1
    BY <1>1
  <2> QED
    BY <2>1, BitAt
<1>6. double_block(s) \in [1 .. BlockBytes -> Byte]
  BY DoubleBlock, Zenon DEF Block
<1>7. moved = [k \in 1 .. BlockBytes |-> moved[k]]
  BY Zenon DEF left_shift
<1>8. ASSUME NEW k \in 1 .. BlockBytes, NEW b \in 0 .. ByteBits - 1
      PROVE  /\ b \in moved[k] <=> P(k, b) < last /\ Bit(s, P(k, b) + 1)
             /\ k = BlockBytes => last - P(k, b) = b
             /\ k # BlockBytes => last - P(k, b) \notin Poly
  <2>1. k * ByteBits \in Int /\ last \in Int /\ P(k, b) \in Int
    BY <1>1
  <2>2. b \in moved[k] <=> P(k, b) + 1 <= last /\ Bit(s, P(k, b) + 1)
    BY <1>1, <1>2, ShiftedBit
  <2>3. P(k, b) + 1 <= last <=> P(k, b) < last
    BY <2>1
  <2>4. k = BlockBytes => last - P(k, b) = b
    BY <2>1
  <2>5. k # BlockBytes => last - P(k, b) >= ByteBits
    <3> HAVE k # BlockBytes
    <3>1. BlockBytes - k >= 1 /\ BlockBytes - k \in Int
      BY <1>1
    <3>2. (BlockBytes - k) * ByteBits >= ByteBits
      BY <1>1, <3>1
    <3>3. (BlockBytes - k) * ByteBits = last - (k * ByteBits)
      BY <1>1
    <3> QED
      BY <1>1, <2>1, <3>2, <3>3
  <2>6. \A x \in Poly : x \in 0 .. ByteBits - 1
    BY <1>1, Zenon DEF Byte
  <2> HIDE DEF P, last, moved
  <2>7. k # BlockBytes => last - P(k, b) \notin Poly
    BY <1>1, <2>1, <2>5, <2>6
  <2> QED
    BY <2>2, <2>3, <2>4, <2>7
<1> HIDE DEF P, last, moved
<1>9. ASSUME NEW k \in 1 .. BlockBytes, NEW b \in 0 .. ByteBits - 1
      PROVE  b \in double_block(s)[k] <=> Rfc(k, b)
  <2>1. CASE ByteBits - 1 \in s[1] /\ k = BlockBytes
    <3>1. double_block(s)[k] = (moved[k] \ Poly) \cup (Poly \ moved[k])
      BY <1>4, <1>7, <2>1
    <3>2. b \in moved[k] <=> P(k, b) < last /\ Bit(s, P(k, b) + 1)
      BY <1>8
    <3>3. last - P(k, b) = b
      BY <1>8, <2>1
    <3> QED
      BY <1>5, <2>1, <3>1, <3>2, <3>3
  <2>2. CASE ~ (ByteBits - 1 \in s[1] /\ k = BlockBytes)
    <3>1. double_block(s)[k] = moved[k]
      BY <1>4, <1>7, <2>2
    <3>2. b \in moved[k] <=> P(k, b) < last /\ Bit(s, P(k, b) + 1)
      BY <1>8
    <3>3. ~ (last - P(k, b) \in Poly /\ Bit(s, 1))
      BY <1>5, <1>8, <2>2
    <3> QED
      BY <3>1, <3>2, <3>3
  <2> QED
    BY <2>1, <2>2
<1> HIDE DEF Rfc
<1>10. \A k \in 1 .. BlockBytes : double_block(s)[k] = {b \in 0 .. ByteBits - 1 : Rfc(k, b)}
  <2> TAKE k \in 1 .. BlockBytes
  <2>1. double_block(s)[k] \subseteq 0 .. ByteBits - 1
    BY <1>6, Zenon DEF Byte
  <2> QED
    BY <1>9, <2>1, Zenon
<1> QED
  BY <1>3, <1>6, <1>10, Zenon

\* The stretch, bit by bit.
LEMMA StretchBit ==
  ASSUME NEW ktop \in Block, NEW k \in 1 .. StretchBytes, NEW b \in 0 .. ByteBits - 1
  PROVE  LET bits == BlockBytes * ByteBits
             p    == (k * ByteBits) - b
         IN  Bit(stretch_init(ktop), p)
               <=> IF p <= bits THEN Bit(ktop, p) ELSE Bit(ktop, p - bits) # Bit(ktop, (p - bits) + ByteBits)
<1> DEFINE bits == BlockBytes * ByteBits
           half == BlockBytes \div 2
           p == (k * ByteBits) - b
<1>1. ByteBits \in Nat \ {0} /\ BlockBytes \in Nat \ {0, 1}
  BY OcbAssumption
<1>2. half \in Nat /\ half + 1 <= BlockBytes /\ StretchBytes = BlockBytes + half
  BY <1>1 DEF StretchBytes
<1> HIDE DEF half
<1>3. ktop \in [1 .. BlockBytes -> Byte]
  BY DEF Block
<1>4. Bit(stretch_init(ktop), p) <=> b \in stretch_init(ktop)[k]
  BY <1>1, <1>2, BitAt
<1>5. stretch_init(ktop)[k] = IF k <= BlockBytes THEN ktop[k]
                                ELSE xor_block_ex(ktop, Tail(ktop), half)[k - BlockBytes]
  BY DEF stretch_init, half
<1>6. bits \in Int /\ k * ByteBits \in Int /\ p \in Int
  BY <1>1, <1>2
<1>7. k <= BlockBytes => k * ByteBits <= bits
  BY <1>1, <1>2
<1>8. CASE k <= BlockBytes
  <2>1. p <= bits
    BY <1>1, <1>6, <1>7, <1>8
  <2>2. Bit(ktop, p) <=> b \in ktop[k]
    BY <1>1, <1>2, BitAt
  <2> HIDE DEF p, bits
  <2> QED
    BY <1>4, <1>5, <1>8, <2>1, <2>2 DEF p, bits
<1>9. CASE ~ (k <= BlockBytes)
  <2> DEFINE j == k - BlockBytes
  <2>1. j \in 1 .. half /\ j \in Nat \ {0} /\ j + 1 \in Nat \ {0} /\ j \in 1 .. BlockBytes - 1
    BY <1>1, <1>2, <1>9
  <2>2. p - bits = (j * ByteBits) - b /\ j * ByteBits \in Int /\ j * ByteBits >= ByteBits
    BY <1>1, <1>2, <2>1
  <2>3. (p - bits) + ByteBits = ((j + 1) * ByteBits) - b
    BY <1>1, <1>2, <2>1, <2>2
  <2>4. ~ (p <= bits)
    BY <1>1, <1>6, <2>2
  <2>5. /\ Bit(ktop, p - bits) <=> b \in ktop[j]
        /\ Bit(ktop, (p - bits) + ByteBits) <=> b \in ktop[j + 1]
    BY <2>1, <2>2, <2>3, BitAt
  <2>6. Tail(ktop)[j] = ktop[j + 1]
    <3>1. ktop \in Seq(Byte) /\ Len(ktop) = BlockBytes
      BY <1>1, <1>3
    <3>2. j \in 1 .. Len(ktop) - 1
      BY <2>1, <3>1
    <3> HIDE DEF j
    <3> QED
      BY <3>1, <3>2
  <2>7. xor_block_ex(ktop, Tail(ktop), half)[j] = (ktop[j] \ ktop[j + 1]) \cup (ktop[j + 1] \ ktop[j])
    BY <2>1, <2>6 DEF xor_block_ex
  <2> HIDE DEF j
  <2>8. stretch_init(ktop)[k] = (ktop[j] \ ktop[j + 1]) \cup (ktop[j + 1] \ ktop[j])
    BY <1>5, <1>9, <2>7 DEF j
  <2> HIDE DEF p, bits
  <2>9. Bit(stretch_init(ktop), p) <=> (Bit(ktop, p - bits) # Bit(ktop, (p - bits) + ByteBits))
    <3>1. Bit(ktop, p - bits) \in BOOLEAN /\ Bit(ktop, (p - bits) + ByteBits) \in BOOLEAN
      BY DEF Bit
    <3> QED
      BY <1>4, <2>5, <2>8, <3>1
  <2> QED
    BY <2>4, <2>9 DEF p, bits
<1> QED
  BY <1>8, <1>9

\* Every place of a string is a bit of a byte.
LEMMA BitPlace ==
  ASSUME NEW p \in Nat \ {0}, NEW n \in Nat, p <= n * ByteBits
  PROVE  \E k \in 1 .. n : \E b \in 0 .. ByteBits - 1 : p = (k * ByteBits) - b
<1>1. ByteBits \in Nat \ {0}
  BY OcbAssumption
<1> DEFINE d == (p - 1) \div ByteBits
           e == (p - 1) % ByteBits
           b == (ByteBits - 1) - e
<1>2. d \in Int /\ e \in 0 .. ByteBits - 1 /\ p - 1 = (ByteBits * d) + e
  BY <1>1
<1> HIDE DEF d, e
<1>3. d >= 0
  <2>1. SUFFICES ASSUME d <= -1 PROVE FALSE
    BY <1>2
  <2>2. ByteBits * d <= -ByteBits
    BY <1>1, <1>2, <2>1
  <2> QED
    BY <1>1, <1>2, <2>2
<1>4. d + 1 <= n
  <2>1. SUFFICES ASSUME d >= n PROVE FALSE
    BY <1>2
  <2>2. ByteBits * d >= n * ByteBits /\ ByteBits * d \in Int /\ n * ByteBits \in Int
    BY <1>1, <1>2, <2>1
  <2> QED
    BY <1>1, <1>2, <2>2
<1>5. d + 1 \in 1 .. n /\ b \in 0 .. ByteBits - 1
  BY <1>1, <1>2, <1>3, <1>4
<1>6. p = ((d + 1) * ByteBits) - b
  <2>1. (d + 1) * ByteBits = (ByteBits * d) + ByteBits /\ ByteBits * d \in Int
    BY <1>1, <1>2
  <2> QED
    BY <1>1, <1>2, <2>1
<1> QED
  BY <1>5, <1>6

\* The nonce is a block, and so is the one ktop_init enciphers.
LEMMA NonceBlock ==
  ASSUME NEW iv \in Block
  PROVE  /\ nonce_init(iv) \in Block
         /\ [nonce_init(iv) EXCEPT ![BlockBytes] = @ \ (0 .. LowBits - 1)] \in Block
<1>1. /\ ByteBits \in Nat \ {0} /\ BlockBytes \in Nat \ {0, 1} /\ IvBytes \in 1 .. BlockBytes - 1
  BY OcbAssumption
<1>2. iv \in [1 .. BlockBytes -> Byte]
  BY DEF Block
<1> DEFINE n(k) == k - (BlockBytes - IvBytes)
           at(k) == IF n(k) > 0 THEN iv[n(k)] ELSE IF n(k) = 0 THEN {0} ELSE {}
<1>3. nonce_init(iv) = [k \in 1 .. BlockBytes |-> at(k)]
  BY Zenon DEF nonce_init
<1>4. \A k \in 1 .. BlockBytes : at(k) \in Byte
  <2> TAKE k \in 1 .. BlockBytes
  <2>1. n(k) > 0 => n(k) \in 1 .. BlockBytes
    BY <1>1
  <2>2. {0} \in Byte /\ {} \in Byte
    BY <1>1 DEF Byte
  <2> QED
    BY <1>2, <2>1, <2>2, Zenon
<1> HIDE DEF at
<1>5. nonce_init(iv) \in [1 .. BlockBytes -> Byte]
  BY <1>3, <1>4
<1>6. BlockBytes \in 1 .. BlockBytes
  BY <1>1
<1>7. nonce_init(iv)[BlockBytes] \ (0 .. LowBits - 1) \in Byte
  BY <1>5, <1>6, Zenon DEF Byte
<1> QED
  BY <1>5, <1>6, <1>7, Zenon DEF Block

\* The code's nonce is the RFC's, bit by bit.
LEMMA NonceBit ==
  ASSUME NEW iv \in Block, NEW k \in 1 .. BlockBytes, NEW b \in 0 .. ByteBits - 1
  PROVE  RfcNonce(iv, (k * ByteBits) - b) <=> b \in nonce_init(iv)[k]
<1>1. /\ ByteBits \in Nat \ {0} /\ BlockBytes \in Nat \ {0, 1} /\ IvBytes \in 1 .. BlockBytes - 1
  BY OcbAssumption
<1> DEFINE d == BlockBytes - IvBytes
           p == (k * ByteBits) - b
           before == d * ByteBits
<1>2. RfcNonce(iv, p) <=> IF p <= before THEN p = before ELSE Bit(iv, p - before)
  BY Zenon DEF RfcNonce
<1>3. nonce_init(iv)[k] = IF k - d > 0 THEN iv[k - d] ELSE IF k - d = 0 THEN {0} ELSE {}
  BY DEF nonce_init
<1>4. d \in Nat \ {0} /\ k \in Nat \ {0}
  BY <1>1
<1> HIDE DEF d
<1>5. k * ByteBits \in Int /\ before \in Int
  BY <1>1, <1>4
<1>6. CASE k < d
  <2>1. (k + 1) * ByteBits <= before /\ (k + 1) * ByteBits = (k * ByteBits) + ByteBits
    BY <1>1, <1>4, <1>6
  <2>2. p <= before /\ p # before
    BY <1>1, <1>5, <2>1
  <2>3. ~ (k - d > 0) /\ k - d # 0
    BY <1>4, <1>6
  <2> HIDE DEF p, before
  <2>4. RfcNonce(iv, p) <=> b \in nonce_init(iv)[k]
    BY <1>2, <1>3, <2>2, <2>3
  <2> QED
    BY <2>4 DEF p
<1>7. CASE k = d
  <2>1. p <= before /\ (p = before <=> b = 0)
    BY <1>1, <1>5, <1>7
  <2>2. ~ (k - d > 0) /\ k - d = 0
    BY <1>4, <1>7
  <2> HIDE DEF p, before
  <2>3. RfcNonce(iv, p) <=> b \in nonce_init(iv)[k]
    BY <1>2, <1>3, <2>1, <2>2
  <2> QED
    BY <2>3 DEF p
<1>8. CASE k > d
  <2> DEFINE j == k - d
  <2>1. j \in Nat \ {0} /\ j > 0
    BY <1>4, <1>8
  <2>2. p - before = (j * ByteBits) - b /\ j * ByteBits \in Int /\ j * ByteBits >= ByteBits
    BY <1>1, <1>4, <2>1
  <2>3. ~ (p <= before)
    BY <1>1, <1>5, <2>2
  <2>4. Bit(iv, p - before) <=> b \in iv[j]
    BY <2>1, <2>2, BitAt
  <2> HIDE DEF p, before
  <2>5. RfcNonce(iv, p) <=> b \in nonce_init(iv)[k]
    BY <1>2, <1>3, <2>1, <2>3, <2>4
  <2> QED
    BY <2>5 DEF p
<1> QED
  BY <1>4, <1>6, <1>7, <1>8

\* The block ktop_init enciphers is the RFC's.
LEMMA TopAsRfc ==
  ASSUME NEW iv \in Block
  PROVE  LET bits == BlockBytes * ByteBits
         IN  FromBits(LAMBDA p : p <= bits - LowBits /\ RfcNonce(iv, p))
               = [nonce_init(iv) EXCEPT ![BlockBytes] = @ \ (0 .. LowBits - 1)]
<1>1. /\ ByteBits \in Nat \ {0} /\ BlockBytes \in Nat \ {0, 1} /\ LowBits \in 1 .. ByteBits
  BY OcbAssumption
<1> DEFINE bits == BlockBytes * ByteBits
           At(k, b) == (k * ByteBits) - b
           P(p) == p <= bits - LowBits /\ RfcNonce(iv, p)
           nonce == nonce_init(iv)
           top == [nonce EXCEPT ![BlockBytes] = @ \ (0 .. LowBits - 1)]
           rfc == [k \in 1 .. BlockBytes |-> {b \in 0 .. ByteBits - 1 : P(At(k, b))}]
<1>2. FromBits(LAMBDA p : p <= bits - LowBits /\ RfcNonce(iv, p)) = rfc
  BY Zenon DEF FromBits
<1>3. nonce \in [1 .. BlockBytes -> Byte] /\ top \in [1 .. BlockBytes -> Byte]
  BY NonceBlock, Zenon DEF Block
<1>4. ASSUME NEW k \in 1 .. BlockBytes, NEW b \in 0 .. ByteBits - 1
      PROVE  P(At(k, b)) <=> b \in top[k]
  <2>1. RfcNonce(iv, At(k, b)) <=> b \in nonce[k]
    BY NonceBit
  <2>2. k * ByteBits \in Int /\ bits \in Int
    BY <1>1
  <2>3. CASE k = BlockBytes
    <3>1. At(k, b) <= bits - LowBits <=> b \notin 0 .. LowBits - 1
      BY <1>1, <2>2, <2>3
    <3>2. top[k] = nonce[k] \ (0 .. LowBits - 1)
      BY <1>3, <2>3
    <3> HIDE DEF At, bits, top, nonce
    <3> QED
      BY <2>1, <3>1, <3>2
  <2>4. CASE k # BlockBytes
    <3>1. (k + 1) * ByteBits <= bits /\ (k + 1) * ByteBits = (k * ByteBits) + ByteBits
      BY <1>1, <2>4
    <3>2. At(k, b) <= bits - LowBits
      BY <1>1, <2>2, <3>1
    <3>3. top[k] = nonce[k]
      BY <1>3, <2>4
    <3> HIDE DEF At, bits, top, nonce
    <3> QED
      BY <2>1, <3>2, <3>3
  <2> QED
    BY <2>3, <2>4
<1> HIDE DEF P, At, top
<1>5. \A k \in 1 .. BlockBytes : {b \in 0 .. ByteBits - 1 : P(At(k, b))} = top[k]
  <2> TAKE k \in 1 .. BlockBytes
  <2>1. top[k] \subseteq 0 .. ByteBits - 1
    BY <1>3, Zenon DEF Byte
  <2> QED
    BY <1>4, <2>1, Zenon
<1>6. top = [k \in 1 .. BlockBytes |-> top[k]]
  BY <1>3, Zenon
<1>7. rfc = top
  BY <1>5, <1>6, Zenon
<1> QED
  BY <1>2, <1>7, Zenon DEF top

\* offset_init computes the first offset of the RFC, where the nonce has the
\* bit clear that the two read differently.
LEMMA OffsetAsRfc ==
  ASSUME NEW key \in Keys, NEW iv \in Block, LowBits - 1 \notin iv[IvBytes]
  PROVE  offset_init(key, iv) \in Block /\ offset_init(key, iv) = RfcFirst(key, iv)
<1>1. /\ ByteBits \in Nat \ {0} /\ BlockBytes \in Nat \ {0, 1} /\ LowBits \in 1 .. ByteBits
      /\ IvBytes \in 1 .. BlockBytes - 1
  BY OcbAssumption
<1> DEFINE nonce == nonce_init(iv)
           B == nonce[BlockBytes] \cap (0 .. LowBits - 2)
           bottom == NumOf(B)
           top == [nonce EXCEPT ![BlockBytes] = @ \ (0 .. LowBits - 1)]
           ktop == Cipher[key][top]
           bits == BlockBytes * ByteBits
           half == BlockBytes \div 2
           st == stretch_init(ktop)
           moved == left_shift(st, StretchBytes, bottom)
           Stretch(p) == IF p <= bits THEN Bit(ktop, p)
                           ELSE Bit(ktop, p - bits) # Bit(ktop, (p - bits) + ByteBits)
           At(k, b) == ((k * ByteBits) - b) + bottom
<1>2. {b \in 0 .. LowBits - 1 : RfcNonce(iv, bits - b)} = B
  <2>1. \A x \in 0 .. LowBits - 1 : x # LowBits - 1 => x \in 0 .. LowBits - 2
    BY <1>1
  <2>2. \A x \in 0 .. LowBits - 2 : x \in 0 .. LowBits - 1
    BY <1>1
  <2>3. LowBits - 1 \notin nonce[BlockBytes]
    <3>1. BlockBytes \in 1 .. BlockBytes /\ BlockBytes - (BlockBytes - IvBytes) = IvBytes /\ IvBytes > 0
      BY <1>1
    <3>2. nonce[BlockBytes] = iv[IvBytes]
      BY <3>1 DEF nonce_init
    <3> QED
      BY <3>2, Zenon
  <2>4. \A x \in 0 .. LowBits - 1 : RfcNonce(iv, bits - x) <=> x \in nonce[BlockBytes]
    <3> TAKE x \in 0 .. LowBits - 1
    <3>1. BlockBytes \in 1 .. BlockBytes /\ x \in 0 .. ByteBits - 1
      BY <1>1
    <3> QED
      BY <3>1, NonceBit, Zenon
  <2> HIDE DEF nonce, bits
  <2> QED
    BY <2>1, <2>2, <2>3, <2>4, Zenon
<1>3. bottom \in 0 .. half * ByteBits
  <2>1. B \in SUBSET (0 .. LowBits - 2)
    BY Zenon
  <2> QED
    BY <2>1, StretchAssumption, Zenon
<1>4. RfcFirst(key, iv) = [k \in 1 .. BlockBytes |-> {b \in 0 .. ByteBits - 1 : Stretch(At(k, b))}]
  <2>1. FromBits(LAMBDA p : p <= bits - LowBits /\ RfcNonce(iv, p)) = top
    BY TopAsRfc
  <2>2. Cipher[key][FromBits(LAMBDA p : p <= bits - LowBits /\ RfcNonce(iv, p))] = ktop
    BY <2>1, Zenon
  <2> QED
    BY <1>2, <2>2, Zenon DEF RfcFirst, FromBits
<1>5. offset_init(key, iv) = SubSeq(moved, 1, BlockBytes)
  BY Zenon DEF offset_init, ktop_init, aes_encrypt
<1>6. ktop \in Block
  <2>1. top \in Block
    BY NonceBlock
  <2> HIDE DEF top
  <2> QED
    BY <2>1, AesPermutes, Zenon DEF aes_encrypt
<1> HIDE DEF ktop, B
<1>7. half \in Nat /\ half + 1 <= BlockBytes /\ StretchBytes = BlockBytes + half /\ StretchBytes \in Nat
  BY <1>1 DEF StretchBytes
<1> HIDE DEF half
<1>8. bottom \in Nat /\ half * ByteBits \in Nat
  <2>1. half * ByteBits \in Nat
    BY <1>1, <1>7
  <2> QED
    BY <1>3, <2>1
<1> HIDE DEF bottom
<1>9. st \in [1 .. StretchBytes -> Byte]
  <2>1. ktop \in [1 .. BlockBytes -> Byte]
    BY <1>6 DEF Block
  <2>2. Tail(ktop) \in [1 .. BlockBytes - 1 -> Byte]
    <3>1. ktop \in Seq(Byte) /\ Len(ktop) = BlockBytes
      BY <1>1, <2>1
    <3>2. ktop # <<>>
      BY <1>1, <3>1
    <3>3. Tail(ktop) \in Seq(Byte) /\ Len(Tail(ktop)) = BlockBytes - 1
      BY <3>1, <3>2, HeadTailProperties, Zenon
    <3> QED
      BY <3>3, LenProperties, Zenon
  <2>3. \A k \in 1 .. half : k \in 1 .. BlockBytes /\ k \in 1 .. BlockBytes - 1
    BY <1>1, <1>7
  <2>4. xor_block_ex(ktop, Tail(ktop), half) \in [1 .. half -> Byte]
    BY <2>1, <2>2, <2>3, Zenon DEF xor_block_ex, Byte
  <2>5. \A k \in 1 .. StretchBytes :
          (IF k <= BlockBytes THEN ktop[k]
             ELSE xor_block_ex(ktop, Tail(ktop), half)[k - BlockBytes]) \in Byte
    <3> TAKE k \in 1 .. StretchBytes
    <3>1. /\ k <= BlockBytes => k \in 1 .. BlockBytes
          /\ ~ (k <= BlockBytes) => k - BlockBytes \in 1 .. half
      BY <1>1, <1>7
    <3> QED
      BY <2>1, <2>4, <3>1, Zenon
  <2> QED
    BY <2>5, Zenon DEF stretch_init, half
<1>10. moved \in [1 .. StretchBytes -> Byte]
  BY <1>7, <1>8, <1>9, ShiftedBytes
<1>11. ASSUME NEW k \in 1 .. BlockBytes, NEW b \in 0 .. ByteBits - 1
       PROVE  b \in moved[k] <=> Stretch(At(k, b))
  <2>1. k \in 1 .. StretchBytes /\ k \in Nat \ {0}
    BY <1>1, <1>7
  <2>2. b \in moved[k] <=> At(k, b) <= StretchBytes * ByteBits /\ Bit(st, At(k, b))
    BY <1>7, <1>8, <1>9, <2>1, ShiftedBit
  <2>3. At(k, b) \in Nat \ {0} /\ At(k, b) <= StretchBytes * ByteBits
    <3>1. k * ByteBits >= ByteBits /\ k * ByteBits <= bits /\ k * ByteBits \in Int /\ bits \in Int
      BY <1>1
    <3>2. StretchBytes * ByteBits = bits + (half * ByteBits)
      BY <1>1, <1>7
    <3> QED
      BY <1>1, <1>3, <1>8, <3>1, <3>2
  <2> HIDE DEF At
  <2>4. PICK i \in 1 .. StretchBytes : \E c \in 0 .. ByteBits - 1 : At(k, b) = (i * ByteBits) - c
    BY <1>7, <2>3, BitPlace
  <2>5. PICK c \in 0 .. ByteBits - 1 : At(k, b) = (i * ByteBits) - c
    BY <2>4
  <2>6. Bit(st, At(k, b)) <=> Stretch(At(k, b))
    BY <1>6, <2>5, StretchBit
  <2> QED
    BY <2>2, <2>3, <2>6
<1> HIDE DEF moved, At, Stretch
<1>12. /\ SubSeq(moved, 1, BlockBytes) \in [1 .. BlockBytes -> Byte]
       /\ \A k \in 1 .. BlockBytes : SubSeq(moved, 1, BlockBytes)[k] = moved[k]
  <2>1. moved \in Seq(Byte) /\ Len(moved) = StretchBytes
    BY <1>7, <1>10
  <2>2. BlockBytes <= StretchBytes
    BY <1>1, <1>7
  <2> DEFINE cut == SubSeq(moved, 1, BlockBytes)
  <2>3. \A k \in 1 .. BlockBytes : k \in 1 .. StretchBytes
    BY <1>1, <1>7, <2>2
  <2>4. \A k \in 1 .. BlockBytes : moved[k] \in Byte
    BY <1>10, <2>3, Zenon
  <2>5. 1 \in Int /\ BlockBytes \in Int /\ 1 <= BlockBytes /\ (BlockBytes - 1) + 1 = BlockBytes
    BY <1>1
  <2>6. cut \in Seq(Byte) /\ Len(cut) = BlockBytes /\ \A k \in 1 .. BlockBytes : cut[k] = moved[k]
    <3>1. /\ cut \in Seq(Byte)
          /\ Len(cut) = IF 1 <= BlockBytes THEN (BlockBytes - 1) + 1 ELSE 0
          /\ \A i \in 1 .. (BlockBytes - 1) + 1 : cut[i] = moved[1 + (i - 1)]
      BY <2>4, <2>5, SubSeqProperties
    <3> HIDE DEF cut
    <3>2. \A k \in 1 .. BlockBytes : 1 + (k - 1) = k
      BY <1>1
    <3> QED
      BY <2>5, <3>1, <3>2, Zenon
  <2> HIDE DEF cut
  <2>7. cut \in [1 .. BlockBytes -> Byte]
    BY <2>6, LenProperties, Zenon
  <2> QED
    BY <2>6, <2>7 DEF cut
<1>13. \A k \in 1 .. BlockBytes :
         SubSeq(moved, 1, BlockBytes)[k] = {b \in 0 .. ByteBits - 1 : Stretch(At(k, b))}
  <2> TAKE k \in 1 .. BlockBytes
  <2>1. SubSeq(moved, 1, BlockBytes)[k] \subseteq 0 .. ByteBits - 1
    BY <1>12, Zenon DEF Byte
  <2> QED
    BY <1>11, <1>12, <2>1, Zenon
<1> QED
  BY <1>4, <1>5, <1>12, <1>13, Zenon DEF Block

\* Doubling loses no bit: what is not zero stays so.
LEMMA DoubleNotZero == \A s \in Block : s # zero_block => double_block(s) # zero_block
<1> TAKE s \in Block
<1> SUFFICES ASSUME s # zero_block, double_block(s) = zero_block PROVE FALSE
  OBVIOUS
<1>1. ByteBits \in Nat \ {0} /\ BlockBytes \in Nat \ {0, 1} /\ 0 \in Poly
  BY OcbAssumption, FieldAssumption
<1> DEFINE last == BlockBytes * ByteBits
           P(k, b) == (k * ByteBits) - b
<1>2. ASSUME NEW k \in 1 .. BlockBytes, NEW b \in 0 .. ByteBits - 1
      PROVE  (P(k, b) < last /\ Bit(s, P(k, b) + 1)) <=> (last - P(k, b) \in Poly /\ Bit(s, 1))
  <2>1. RfcDouble(s) = zero_block
    BY DoubleAsRfc, Zenon
  <2>2. RfcDouble(s)[k] = {}
    BY <2>1, Zenon DEF zero_block
  <2>3. b \in RfcDouble(s)[k]
          <=> ((P(k, b) < last /\ Bit(s, P(k, b) + 1)) # (last - P(k, b) \in Poly /\ Bit(s, 1)))
    BY DEF RfcDouble, FromBits
  <2> QED
    BY <2>2, <2>3
<1>3. ~ Bit(s, 1)
  <2>1. BlockBytes \in 1 .. BlockBytes /\ 0 \in 0 .. ByteBits - 1 /\ last \in Int
    BY <1>1
  <2>2. P(BlockBytes, 0) = last
    BY <1>1
  <2>3. ~ (last < last) /\ last - last = 0
    BY <2>1
  <2> HIDE DEF last, P
  <2> QED
    BY <1>1, <1>2, <2>1, <2>2, <2>3
<1>4. s \in [1 .. BlockBytes -> Byte]
  BY DEF Block
<1>5. \E k \in 1 .. BlockBytes : s[k] # {}
  BY <1>4, Zenon DEF zero_block
<1>6. PICK k \in 1 .. BlockBytes : \E b \in 0 .. ByteBits - 1 : b \in s[k]
  BY <1>4, <1>5, Zenon DEF Byte
<1>7. PICK b \in 0 .. ByteBits - 1 : b \in s[k]
  BY <1>6
<1>8. Bit(s, P(k, b))
  <2>1. k \in Nat \ {0}
    BY <1>1
  <2> QED
    BY <1>7, <2>1, BitAt
<1>9. P(k, b) \in Int /\ P(k, b) >= 1 /\ P(k, b) <= last /\ last \in Int
  <2>1. k * ByteBits >= ByteBits /\ k * ByteBits <= last /\ k * ByteBits \in Int /\ last \in Int
    BY <1>1
  <2> QED
    BY <1>1, <2>1
<1>10. P(k, b) # 1
  BY <1>3, <1>8
<1> DEFINE p == P(k, b) - 1
<1> HIDE DEF P, last
<1>11. p \in Nat \ {0} /\ p < last /\ p + 1 = P(k, b) /\ p <= last
  BY <1>9, <1>10
<1>12. \E i \in 1 .. BlockBytes : \E c \in 0 .. ByteBits - 1 : p = P(i, c)
  <2>1. BlockBytes \in Nat /\ p <= BlockBytes * ByteBits
    BY <1>1, <1>11 DEF last
  <2> HIDE DEF p
  <2> QED
    BY <1>11, <2>1, BitPlace, Zenon DEF P
<1> HIDE DEF p
<1>13. PICK i \in 1 .. BlockBytes : \E c \in 0 .. ByteBits - 1 : p = P(i, c)
  BY <1>12
<1>14. PICK c \in 0 .. ByteBits - 1 : p = P(i, c)
  BY <1>13
<1> QED
  BY <1>2, <1>3, <1>8, <1>11, <1>14

-------------------------------------------------------------------------------
(* Recursive definitions.  Induction over the naturals is the principle of *)
(* the least element, applied to the set of the counterexamples.           *)

\* Every set of naturals has a least element.
LEMMA LeastElement ==
  ASSUME NEW T, T \subseteq Nat, T # {}
  PROVE  \E x \in T : \A y \in T : x <= y
<1> DEFINE R == {ss \in Nat \X Nat : ss[1] < ss[2]}
<1>1. IsWellFoundedOn(OpToRel(<, Nat), Nat)
  BY NatLessThanWellFounded
<1>2. OpToRel(<, Nat) = R
  BY DEF OpToRel
<1>3. IsWellFoundedOn(R, Nat)
  BY <1>1, <1>2
<1> HIDE DEF R
<1>4. PICK x \in T : \A y \in T : <<y, x>> \notin R
  BY <1>3, WFMin
<1>5. ASSUME NEW y \in T PROVE x <= y
  <2>1. x \in Nat /\ y \in Nat
    OBVIOUS
  <2>2. ~(y < x)
    <3>1. SUFFICES ASSUME y < x PROVE <<y, x>> \in R
      BY <1>4
    <3>2. <<y, x>> \in Nat \X Nat
      BY <2>1
    <3> QED
      BY <3>1, <3>2 DEF R
  <2> QED
    BY <2>1, <2>2
<1> QED
  BY <1>5

\* Two functions that start alike and go on alike end alike.
LEMMA SameEnd ==
  ASSUME NEW n \in Nat, NEW g, NEW h, g[0] = h[0],
         \A i \in 1 .. n : g[i - 1] = h[i - 1] => g[i] = h[i]
  PROVE  g[n] = h[n]
<1> DEFINE T == {i \in 0 .. n : g[i] # h[i]}
<1> SUFFICES ASSUME g[n] # h[n] PROVE FALSE
  OBVIOUS
<1>1. T \subseteq Nat /\ T # {}
  OBVIOUS
<1> HIDE DEF T
<1>2. PICK x \in T : \A y \in T : x <= y
  BY <1>1, LeastElement
<1>3. x \in 1 .. n /\ g[x] # h[x]
  <2>1. x \in 0 .. n /\ g[x] # h[x]
    BY <1>2 DEF T
  <2>2. x # 0
    BY <2>1
  <2> QED
    BY <2>1, <2>2
<1>4. x - 1 \notin T
  BY <1>2, <1>3
<1>5. g[x - 1] = h[x - 1]
  <2>1. x - 1 \in 0 .. n
    BY <1>3
  <2> QED
    BY <1>4, <2>1 DEF T
<1> QED
  BY <1>3, <1>5

\* A function that doubles at every step ends in RfcDoubled.
LEMMA DoubledIs ==
  ASSUME NEW n \in Nat, NEW s, NEW f,
         f = [k \in 0 .. n |-> IF k = 0 THEN s ELSE RfcDouble(f[k - 1])]
  PROVE  RfcDoubled(s, n) = f[n]
<1> DEFINE Body(g) == [k \in 0 .. n |-> IF k = 0 THEN s ELSE RfcDouble(g[k - 1])]
           d == CHOOSE g : g = Body(g)
<1>1. RfcDoubled(s, n) = d[n]
  BY Zenon DEF RfcDoubled
<1>2. f = Body(f)
  OBVIOUS
<1>3. d = Body(d)
  <2> HIDE DEF Body
  <2> QED
    BY <1>2
<1>4. \A g : g = Body(g) => g[0] = s /\ \A i \in 1 .. n : g[i] = RfcDouble(g[i - 1])
  <2> TAKE g
  <2> HAVE g = Body(g)
  <2>1. \A i \in 0 .. n : g[i] = IF i = 0 THEN s ELSE RfcDouble(g[i - 1])
    BY Zenon
  <2> QED
    BY <2>1
<1> HIDE DEF d, Body
<1>5. /\ f[0] = s /\ \A i \in 1 .. n : f[i] = RfcDouble(f[i - 1])
      /\ d[0] = s /\ \A i \in 1 .. n : d[i] = RfcDouble(d[i - 1])
  BY <1>2, <1>3, <1>4, Zenon
<1>6. \A i \in 1 .. n : d[i - 1] = f[i - 1] => d[i] = f[i]
  BY <1>5, Zenon
<1>7. d[0] = f[0]
  BY <1>5, Zenon
<1> QED
  BY <1>1, <1>6, <1>7, SameEnd, Zenon

\* The first two of the RFC's L.
LEMMA FirstLs ==
  ASSUME NEW key
  PROVE  LET L0 == RfcDouble(RfcDouble(Cipher[key][zero_block]))
         IN  RfcL(key, 0) = L0 /\ RfcL(key, 1) = RfcDouble(L0)
<1> DEFINE L0 == RfcDouble(RfcDouble(Cipher[key][zero_block]))
<1> HIDE DEF L0
<1>1. RfcDoubled(L0, 0) = L0
  <2> DEFINE f == [k \in 0 .. 0 |-> L0]
  <2>1. f = [k \in 0 .. 0 |-> IF k = 0 THEN L0 ELSE RfcDouble(f[k - 1])] /\ f[0] = L0
    OBVIOUS
  <2> HIDE DEF f
  <2>2. 0 \in Nat
    OBVIOUS
  <2> QED
    BY <2>1, <2>2, DoubledIs, Zenon
<1>2. RfcDoubled(L0, 1) = RfcDouble(L0)
  <2> DEFINE f == [k \in 0 .. 1 |-> IF k = 0 THEN L0 ELSE RfcDouble(L0)]
             g == [k \in 0 .. 1 |-> IF k = 0 THEN L0 ELSE RfcDouble(f[k - 1])]
  <2>1. f[0] = L0 /\ f[1] = RfcDouble(L0)
    OBVIOUS
  <2>2. f = g
    <3>1. \A k \in 0 .. 1 : (IF k = 0 THEN L0 ELSE RfcDouble(L0)) = (IF k = 0 THEN L0 ELSE RfcDouble(f[k - 1]))
      <4> HIDE DEF f
      <4>1. \A k \in 0 .. 1 : k = 0 \/ k - 1 = 0
        OBVIOUS
      <4> QED
        BY <2>1, <4>1, Zenon
    <3> QED
      BY <3>1, Zenon
  <2>3. f = [k \in 0 .. 1 |-> IF k = 0 THEN L0 ELSE RfcDouble(f[k - 1])]
    BY <2>2, Zenon
  <2> HIDE DEF f, g
  <2>4. ASSUME NEW n \in Nat, f = [k \in 0 .. n |-> IF k = 0 THEN L0 ELSE RfcDouble(f[k - 1])]
        PROVE  RfcDoubled(L0, n) = f[n]
    BY <2>4, DoubledIs, Zenon
  <2>5. RfcDoubled(L0, 1) = f[1]
    BY <2>3, <2>4
  <2> QED
    BY <2>1, <2>5, Zenon
<1> QED
  BY <1>1, <1>2, Zenon DEF RfcL, L0

\* The trailing zeros of 1 and of 2.
LEMMA FirstNtz == RfcNtz(1) = 0 /\ RfcNtz(2) = 1
<1>0. 2^0 = 1 /\ 2^1 = 2 /\ 2^2 = 4 /\ 2^3 = 8
  OBVIOUS
<1>1. RfcNtz(1) = 0
  <2> DEFINE Q(n) == 1 % 2^n = 0 /\ 1 % 2^(n + 1) # 0
  <2>1. RfcNtz(1) = CHOOSE n \in 0 .. 1 : Q(n)
    BY DEF RfcNtz
  <2>2. Q(0)
    BY <1>0
  <2>3. ~ Q(1)
    BY <1>0
  <2> HIDE DEF Q
  <2>4. \A n \in 0 .. 1 : Q(n) <=> n = 0
    BY <2>2, <2>3
  <2> QED
    BY <2>1, <2>4
<1>2. RfcNtz(2) = 1
  <2> DEFINE Q(n) == 2 % 2^n = 0 /\ 2 % 2^(n + 1) # 0
  <2>1. RfcNtz(2) = CHOOSE n \in 0 .. 2 : Q(n)
    BY DEF RfcNtz
  <2>2. ~ Q(0)
    BY <1>0
  <2>3. Q(1)
    BY <1>0
  <2>5. ~ Q(2)
    BY <1>0
  <2> HIDE DEF Q
  <2>4. \A n \in 0 .. 2 : Q(n) <=> n = 1
    BY <2>2, <2>3, <2>5
  <2> QED
    BY <2>1, <2>4
<1> QED
  BY <1>1, <1>2

\* The code's ntz of the places of the first two blocks of associated data.
LEMMA FirstPlaces == ntz(0) = 0 /\ ntz(BlockBytes) > 0
<1>1. BlockBytes \in Nat \ {0, 1} /\ BlockBytes < 2^30
  BY OcbAssumption, StretchAssumption
<1> DEFINE Q(n) == 2^n <= BlockBytes /\ BlockBytes < 2^(n + 1)
<1>2. ntz(BlockBytes) = CHOOSE n \in 0 .. 31 : Q(n)
  BY <1>1 DEF ntz
<1>3. \E n \in 0 .. 31 : Q(n)
  <2> SUFFICES ASSUME \A n \in 0 .. 31 : ~ Q(n) PROVE FALSE
    OBVIOUS
  <2>1. ~ Q(1) /\ ~ Q(2) /\ ~ Q(3) /\ ~ Q(4) /\ ~ Q(5) /\ ~ Q(6) /\ ~ Q(7) /\ ~ Q(8) /\ ~ Q(9) /\ ~ Q(10)
        /\ ~ Q(11) /\ ~ Q(12) /\ ~ Q(13) /\ ~ Q(14) /\ ~ Q(15) /\ ~ Q(16) /\ ~ Q(17) /\ ~ Q(18)
        /\ ~ Q(19) /\ ~ Q(20) /\ ~ Q(21) /\ ~ Q(22) /\ ~ Q(23) /\ ~ Q(24) /\ ~ Q(25) /\ ~ Q(26)
        /\ ~ Q(27) /\ ~ Q(28) /\ ~ Q(29)
    <3> HIDE DEF Q
    <3> QED
      OBVIOUS
  <2> QED
    BY <1>1, <2>1
<1>4. \A n \in 0 .. 31 : Q(n) => n > 0
  <2>1. ~ Q(0)
    BY <1>1
  <2> HIDE DEF Q
  <2> QED
    BY <2>1
<1> HIDE DEF Q
<1>5. ntz(BlockBytes) > 0
  BY <1>2, <1>3, <1>4
<1> QED
  BY <1>5 DEF ntz

\* The function of at most three values.
Three(n, a, b, c) == [k \in 0 .. n |-> IF k = 0 THEN a ELSE IF k = 1 THEN b ELSE c]

\* Its values, and the values before them.
LEMMA ThreeValues ==
  ASSUME NEW n \in 0 .. 2, NEW a, NEW b, NEW c
  PROVE  LET w == Three(n, a, b, c)
         IN  /\ w[0] = a /\ (n >= 1 => w[1] = b) /\ (n = 2 => w[2] = c)
             /\ \A k \in 0 .. n : \/ k = 0 /\ w[k] = a
                                  \/ k = 1 /\ w[k] = b /\ w[k - 1] = a
                                  \/ k = 2 /\ w[k] = c /\ w[k - 1] = b
<1> DEFINE w == Three(n, a, b, c)
<1>1. /\ w[0] = a /\ (n >= 1 => w[1] = b) /\ (n = 2 => w[2] = c)
  BY DEF Three
<1> HIDE DEF w
<1>2. \A k \in 0 .. n : k = 0 \/ k = 1 \/ k = 2
  OBVIOUS
<1>3. \A k \in 0 .. n : (k = 1 => n >= 1 /\ k - 1 = 0) /\ (k = 2 => n >= 1 /\ n = 2 /\ k - 1 = 1)
  OBVIOUS
<1>4. \A k \in 0 .. n : \/ k = 0 /\ w[k] = a
                        \/ k = 1 /\ w[k] = b /\ w[k - 1] = a
                        \/ k = 2 /\ w[k] = c /\ w[k - 1] = b
  BY <1>1, <1>2, <1>3, Zenon
<1> QED
  BY <1>1, <1>4 DEF w

\* The RFC's first three offsets.
LEMMA FirstOffsets ==
  ASSUME NEW key, NEW first, NEW n \in 0 .. 2
  PROVE  LET o == RfcOffsets(key, first, n)
         IN  /\ o[0] = first
             /\ n >= 1 => o[1] = xor_block(first, RfcL(key, 0))
             /\ n = 2 => o[2] = xor_block(xor_block(first, RfcL(key, 0)), RfcL(key, 1))
<1> DEFINE Step(k, x) == xor_block(x, RfcL(key, RfcNtz(k)))
           Body(g) == [k \in 0 .. n |-> IF k = 0 THEN first ELSE Step(k, g[k - 1])]
           o == CHOOSE g : g = Body(g)
           w == Three(n, first, Step(1, first), Step(2, Step(1, first)))
<1>1. RfcOffsets(key, first, n) = o
  BY Zenon DEF RfcOffsets
<1>2. \A k \in 0 .. n : \/ k = 0 /\ w[k] = first
                        \/ k = 1 /\ w[k] = Step(k, w[k - 1])
                        \/ k = 2 /\ w[k] = Step(k, w[k - 1])
  <2> DEFINE b == Step(1, first)
             c == Step(2, b)
             v == Three(n, first, b, c)
  <2> HIDE DEF b, c
  <2>1. \A k \in 0 .. n : \/ k = 0 /\ v[k] = first
                          \/ k = 1 /\ v[k] = b /\ v[k - 1] = first
                          \/ k = 2 /\ v[k] = c /\ v[k - 1] = b
    BY ThreeValues
  <2> HIDE DEF v, Step
  <2>2. \A k \in 0 .. n : \/ k = 0 /\ v[k] = first
                          \/ k = 1 /\ v[k] = Step(k, v[k - 1])
                          \/ k = 2 /\ v[k] = Step(k, v[k - 1])
    BY <2>1, Zenon DEF b, c
  <2>3. w = v
    BY DEF v, b, c
  <2> HIDE DEF w
  <2> QED
    BY <2>2, <2>3, Zenon
<1>3. w = [k \in 0 .. n |-> w[k]]
  BY Zenon DEF Three
<1>4. w = Body(w)
  <2> HIDE DEF w, Step
  <2>1. 1 # 0 /\ 2 # 0
    OBVIOUS
  <2>2. \A k \in 0 .. n : w[k] = IF k = 0 THEN first ELSE Step(k, w[k - 1])
    BY <1>2, <2>1
  <2> QED
    BY <1>3, <2>2, Zenon
<1>5. o = Body(o)
  <2> HIDE DEF Body, w
  <2> QED
    BY <1>4
<1>6. \A k \in 0 .. n : o[k] = IF k = 0 THEN first ELSE Step(k, o[k - 1])
  <2> HIDE DEF o, Step
  <2> QED
    BY <1>5, Zenon
<1> HIDE DEF o, Body, Step
<1>7. o[0] = first /\ (n >= 1 => o[1] = Step(1, first)) /\ (n = 2 => o[2] = Step(2, Step(1, first)))
  <2>1. 0 \in 0 .. n /\ o[0] = first
    BY <1>6
  <2>2. n >= 1 => o[1] = Step(1, o[0])
    BY <1>6
  <2>3. n = 2 => o[2] = Step(2, o[1])
    BY <1>6
  <2>4. n = 2 => n >= 1
    OBVIOUS
  <2> QED
    BY <2>1, <2>2, <2>3, <2>4, Zenon
<1>8. Step(1, first) = xor_block(first, RfcL(key, 0))
  BY FirstNtz, Zenon DEF Step
<1>9. Step(2, Step(1, first)) = xor_block(xor_block(first, RfcL(key, 0)), RfcL(key, 1))
  BY <1>8, FirstNtz, Zenon DEF Step
<1> QED
  BY <1>1, <1>7, <1>8, <1>9, Zenon

\* Padding gives a block.
LEMMA PaddedBlock ==
  ASSUME NEW n \in 0 .. BlockBytes - 1, NEW in \in [1 .. n -> Byte]
  PROVE  Padded(in) \in Block /\ Len(in) = n /\ (in = <<>> <=> n = 0)
<1>1. ByteBits \in Nat \ {0} /\ BlockBytes \in Nat \ {0, 1} /\ n \in Nat
  BY OcbAssumption
<1>2. in \in Seq(Byte) /\ Len(in) = n
  BY <1>1
<1>3. \A k \in 1 .. BlockBytes :
        (IF k <= n THEN in[k] ELSE IF k = n + 1 THEN {ByteBits - 1} ELSE {}) \in Byte
  <2> TAKE k \in 1 .. BlockBytes
  <2>1. k <= n => k \in 1 .. n
    BY <1>1
  <2>2. {} \in Byte /\ {ByteBits - 1} \in Byte
    <3>1. ByteBits - 1 \in 0 .. ByteBits - 1
      BY <1>1
    <3> QED
      BY <3>1, Zenon DEF Byte
  <2> QED
    BY <2>1, <2>2, Zenon
<1>4. Padded(in) = [k \in 1 .. BlockBytes |->
                      IF k <= n THEN in[k] ELSE IF k = n + 1 THEN {ByteBits - 1} ELSE {}]
  BY <1>2, Zenon DEF Padded
<1>5. Padded(in) \in Block
  BY <1>3, <1>4, Zenon DEF Block
<1>6. in = <<>> <=> n = 0
  BY <1>1, <1>2, EmptySeq
<1> QED
  BY <1>2, <1>5, <1>6

\* The code pads by bytes what the RFC pads by bits.
LEMMA PaddedAsRfc ==
  ASSUME NEW n \in 0 .. BlockBytes - 1, NEW in \in [1 .. n -> Byte]
  PROVE  RfcPad(in) = Padded(in)
<1>1. ByteBits \in Nat \ {0} /\ BlockBytes \in Nat \ {0, 1} /\ n \in Nat
  BY OcbAssumption
<1>2. Len(in) = n /\ Padded(in) \in Block
  BY PaddedBlock
<1> DEFINE size == n * ByteBits
           At(k, b) == (k * ByteBits) - b
           P(p) == IF p <= size THEN Bit(in, p) ELSE p = size + 1
<1>3. RfcPad(in) = [k \in 1 .. BlockBytes |-> {b \in 0 .. ByteBits - 1 : P(At(k, b))}]
  BY <1>2, Zenon DEF RfcPad, FromBits
<1>4. ASSUME NEW k \in 1 .. BlockBytes, NEW b \in 0 .. ByteBits - 1
      PROVE  P(At(k, b)) <=> b \in Padded(in)[k]
  <2>1. Padded(in)[k] = IF k <= n THEN in[k] ELSE IF k = n + 1 THEN {ByteBits - 1} ELSE {}
    BY <1>2, Zenon DEF Padded
  <2>2. k \in Nat \ {0} /\ size \in Int /\ k * ByteBits \in Int
    BY <1>1
  <2>3. CASE k <= n
    <3>1. k * ByteBits <= size
      BY <1>1, <2>3
    <3>2. At(k, b) <= size
      BY <1>1, <2>2, <3>1
    <3>3. Bit(in, At(k, b)) <=> b \in in[k]
      BY <2>2, BitAt
    <3> HIDE DEF At, size
    <3> QED
      BY <2>1, <2>3, <3>2, <3>3
  <2>4. CASE k = n + 1
    <3>1. k * ByteBits = size + ByteBits
      BY <1>1, <2>4
    <3>2. ~ (At(k, b) <= size) /\ (At(k, b) = size + 1 <=> b = ByteBits - 1)
      BY <1>1, <2>2, <3>1
    <3>3. ~ (k <= n)
      BY <1>1, <2>4
    <3> HIDE DEF At, size
    <3> QED
      BY <2>1, <2>4, <3>2, <3>3
  <2>5. CASE k > n + 1
    <3>1. k * ByteBits >= (n + 2) * ByteBits /\ (n + 2) * ByteBits = (size + ByteBits) + ByteBits
      BY <1>1, <2>5
    <3>2. ~ (At(k, b) <= size) /\ At(k, b) # size + 1
      BY <1>1, <2>2, <3>1
    <3>3. ~ (k <= n) /\ k # n + 1
      BY <1>1, <2>5
    <3> HIDE DEF At, size
    <3> QED
      BY <2>1, <3>2, <3>3
  <2> QED
    BY <1>1, <2>3, <2>4, <2>5
<1> HIDE DEF P, At
<1>5. \A k \in 1 .. BlockBytes : {b \in 0 .. ByteBits - 1 : P(At(k, b))} = Padded(in)[k]
  <2> TAKE k \in 1 .. BlockBytes
  <2>1. Padded(in)[k] \subseteq 0 .. ByteBits - 1
    BY <1>2, Zenon DEF Block, Byte
  <2> QED
    BY <1>4, <2>1, Zenon
<1>6. Padded(in) = [k \in 1 .. BlockBytes |-> Padded(in)[k]]
  BY <1>2, Zenon DEF Block
<1> QED
  BY <1>3, <1>5, <1>6, Zenon

\* The RFC's L_0 and the one after it, as the code computes them, are blocks.
LEMMA KeyBlocks ==
  ASSUME NEW key \in Keys
  PROVE  /\ Cipher[key][zero_block] \in Block
         /\ double_block(Cipher[key][zero_block]) = RfcDouble(Cipher[key][zero_block])
         /\ RfcDouble(Cipher[key][zero_block]) \in Block
         /\ keyvar_init(key) \in Block /\ keyvar_init(key) = RfcL(key, 0)
         /\ double_block(keyvar_init(key)) \in Block
         /\ double_block(keyvar_init(key)) = RfcL(key, 1)
<1> DEFINE e == Cipher[key][zero_block]
<1>1. e \in Block
  BY ZeroBlock, AesPermutes, Zenon DEF aes_encrypt
<1>2. keyvar_init(key) = double_block(double_block(e))
  BY Zenon DEF keyvar_init, aes_encrypt
<1> DEFINE l == RfcDouble(RfcDouble(e))
<1>3. RfcL(key, 0) = l /\ RfcL(key, 1) = RfcDouble(l)
  BY FirstLs, Zenon
<1> HIDE DEF e
<1>4. double_block(e) = RfcDouble(e) /\ RfcDouble(e) \in Block
  BY <1>1, DoubleBlock, DoubleAsRfc, Zenon
<1>5. double_block(double_block(e)) = l /\ l \in Block
  BY <1>4, DoubleBlock, DoubleAsRfc, Zenon
<1> HIDE DEF l
<1>6. double_block(l) = RfcDouble(l) /\ double_block(l) \in Block
  BY <1>5, DoubleBlock, DoubleAsRfc, Zenon
<1> QED
  BY <1>1, <1>2, <1>3, <1>4, <1>5, <1>6, Zenon DEF e

-------------------------------------------------------------------------------
(* Associated data, and the end of a text. *)

\* The RFC's sum over associated data of up to two blocks.
LEMMA RfcHashIs ==
  ASSUME NEW key \in Keys, NEW A, Len(A.blocks) \in 0 .. 2
  PROVE  LET m  == Len(A.blocks)
             l0 == RfcL(key, 0)
             o1 == xor_block(zero_block, l0)
             o2 == xor_block(o1, RfcL(key, 1))
             s1 == xor_block(zero_block, Cipher[key][xor_block(A.blocks[1], o1)])
             s2 == xor_block(s1, Cipher[key][xor_block(A.blocks[2], o2)])
             star == xor_block(zero_block, Cipher[key][zero_block])
         IN  /\ m = 0 /\ A.tail = <<>> => RfcHash(key, A) = zero_block
             /\ m = 0 /\ A.tail # <<>> =>
                  RfcHash(key, A) = xor_block(zero_block, Cipher[key][xor_block(RfcPad(A.tail), star)])
             /\ m = 1 /\ A.tail = <<>> => RfcHash(key, A) = s1
             /\ m = 2 /\ A.tail = <<>> => RfcHash(key, A) = s2
<1> DEFINE n == Len(A.blocks)
           o == RfcOffsets(key, zero_block, n)
           Step(k, x) == xor_block(x, Cipher[key][xor_block(A.blocks[k], o[k])])
           Body(g) == [k \in 0 .. n |-> IF k = 0 THEN zero_block ELSE Step(k, g[k - 1])]
           s == CHOOSE g : g = Body(g)
           w == Three(n, zero_block, Step(1, zero_block), Step(2, Step(1, zero_block)))
           o1 == xor_block(zero_block, RfcL(key, 0))
           o2 == xor_block(o1, RfcL(key, 1))
           last == xor_block(o[n], Cipher[key][zero_block])
<1>1. RfcHash(key, A) = IF A.tail = <<>> THEN s[n]
                          ELSE xor_block(s[n], Cipher[key][xor_block(RfcPad(A.tail), last)])
  BY Zenon DEF RfcHash
<1>2. n \in 0 .. 2
  OBVIOUS
<1> HIDE DEF n
<1>3. o[0] = zero_block /\ (n >= 1 => o[1] = o1) /\ (n = 2 => o[2] = o2)
  BY <1>2, FirstOffsets
<1> HIDE DEF o, o1, o2
<1>4. \A k \in 0 .. n : \/ k = 0 /\ w[k] = zero_block
                        \/ k = 1 /\ w[k] = Step(k, w[k - 1])
                        \/ k = 2 /\ w[k] = Step(k, w[k - 1])
  <2> DEFINE b == Step(1, zero_block)
             c == Step(2, b)
             v == Three(n, zero_block, b, c)
  <2> HIDE DEF b, c
  <2>1. \A k \in 0 .. n : \/ k = 0 /\ v[k] = zero_block
                          \/ k = 1 /\ v[k] = b /\ v[k - 1] = zero_block
                          \/ k = 2 /\ v[k] = c /\ v[k - 1] = b
    BY <1>2, ThreeValues
  <2> HIDE DEF v, Step
  <2>2. \A k \in 0 .. n : \/ k = 0 /\ v[k] = zero_block
                          \/ k = 1 /\ v[k] = Step(k, v[k - 1])
                          \/ k = 2 /\ v[k] = Step(k, v[k - 1])
    BY <2>1, Zenon DEF b, c
  <2>3. w = v
    BY DEF v, b, c
  <2> HIDE DEF w
  <2> QED
    BY <2>2, <2>3, Zenon
<1>5. w = [k \in 0 .. n |-> w[k]]
  BY Zenon DEF Three
<1>6. w = Body(w)
  <2> HIDE DEF w, Step
  <2>1. 1 # 0 /\ 2 # 0
    OBVIOUS
  <2>2. \A k \in 0 .. n : w[k] = IF k = 0 THEN zero_block ELSE Step(k, w[k - 1])
    BY <1>4, <2>1
  <2> QED
    BY <1>5, <2>2, Zenon
<1>7. s = Body(s)
  <2> HIDE DEF Body, w
  <2> QED
    BY <1>6
<1>8. \A k \in 0 .. n : s[k] = IF k = 0 THEN zero_block ELSE Step(k, s[k - 1])
  <2> HIDE DEF s, Step
  <2> QED
    BY <1>7, Zenon
<1> HIDE DEF s, Body, Step
<1>9. /\ s[0] = zero_block
      /\ n >= 1 => s[1] = Step(1, zero_block)
      /\ n = 2 => s[2] = Step(2, Step(1, zero_block))
  <2>1. s[0] = zero_block
    BY <1>2, <1>8
  <2>2. n >= 1 => s[1] = Step(1, s[0])
    BY <1>2, <1>8
  <2>3. n = 2 => s[2] = Step(2, s[1])
    BY <1>2, <1>8
  <2>4. n = 2 => n >= 1
    OBVIOUS
  <2> QED
    BY <2>1, <2>2, <2>3, <2>4, Zenon
<1> DEFINE s1 == xor_block(zero_block, Cipher[key][xor_block(A.blocks[1], o1)])
           s2 == xor_block(s1, Cipher[key][xor_block(A.blocks[2], o2)])
<1>10. (n >= 1 => Step(1, zero_block) = s1) /\ (n = 2 => Step(2, Step(1, zero_block)) = s2)
  <2>1. n = 2 => n >= 1
    OBVIOUS
  <2> QED
    BY <1>3, <2>1, Zenon DEF Step
<1>11. n = 0 => s[n] = zero_block /\ o[n] = zero_block
  BY <1>3, <1>9
<1>12. (n = 1 => s[n] = s1) /\ (n = 2 => s[n] = s2)
  <2>1. n = 1 => n >= 1
    OBVIOUS
  <2>2. n = 2 => n >= 1
    OBVIOUS
  <2> QED
    BY <1>9, <1>10, <2>1, <2>2, Zenon
<1> QED
  BY <1>1, <1>11, <1>12, Zenon DEF n, o1, o2

\* The state of the hash's loop.
Hash(s, o, v) == [sum |-> s, offset |-> o, keyvar |-> v]

\* One round of it.
LEMMA HashRound ==
  ASSUME NEW key, NEW block, NEW s, NEW o, NEW u
  PROVE  ocb3_hash_block(key, block, Hash(s, o, u))
           = Hash(xor_block(Cipher[key][xor_block(block, xor_block(o, u))], s), xor_block(o, u), u)
<1> DEFINE p == xor_block(o, u)
           t == xor_block(Cipher[key][xor_block(block, p)], s)
<1>1. Hash(s, o, u).offset = o /\ Hash(s, o, u).keyvar = u /\ Hash(s, o, u).sum = s
  BY DEF Hash
<1>2. ocb3_hash_block(key, block, Hash(s, o, u)) = [Hash(s, o, u) EXCEPT !.offset = p, !.sum = t]
  BY <1>1, Zenon DEF ocb3_hash_block, aes_encrypt
<1> HIDE DEF p, t
<1>3. [Hash(s, o, u) EXCEPT !.offset = p] = Hash(s, p, u)
  BY DEF Hash
<1>4. [Hash(s, p, u) EXCEPT !.sum = t] = Hash(t, p, u)
  BY DEF Hash
<1>5. [Hash(s, o, u) EXCEPT !.offset = p, !.sum = t]
        = [[Hash(s, o, u) EXCEPT !.offset = p] EXCEPT !.sum = t]
  BY Zenon
<1> QED
  BY <1>2, <1>3, <1>4, <1>5, Zenon DEF p, t

\* The key variable set.
LEMMA HashKeyvar ==
  ASSUME NEW s, NEW o, NEW v, NEW u
  PROVE  [Hash(s, o, v) EXCEPT !.keyvar = u] = Hash(s, o, u)
BY DEF Hash

\* The code's sum over associated data of up to two blocks.
LEMMA CodeHashIs ==
  ASSUME NEW key \in Keys, NEW A, Len(A.blocks) \in 0 .. 2, A.blocks \in Seq(Block),
         A.tail \in Seq(Byte), Len(A.blocks) = 0 \/ A.tail = <<>>
  PROVE  LET m  == Len(A.blocks)
             l0 == keyvar_init(key)
             o1 == xor_block(zero_block, l0)
             o2 == xor_block(o1, double_block(l0))
             s1 == xor_block(Cipher[key][xor_block(A.blocks[1], o1)], zero_block)
             s2 == xor_block(Cipher[key][xor_block(A.blocks[2], o2)], s1)
             star == xor_block(zero_block, Cipher[key][zero_block])
         IN  /\ m = 0 /\ A.tail = <<>> => ocb3_hash_plaintext(key, A) = zero_block
             /\ m = 0 /\ A.tail # <<>> =>
                  ocb3_hash_plaintext(key, A)
                    = xor_block(Cipher[key][xor_block(Padded(A.tail), star)], zero_block)
             /\ m = 1 => ocb3_hash_plaintext(key, A) = s1
             /\ m = 2 => ocb3_hash_plaintext(key, A) = s2
<1> DEFINE n == Len(A.blocks)
           l0 == keyvar_init(key)
           start == [sum |-> zero_block, offset |-> zero_block, keyvar |-> l0]
           Place(k) == (k - 1) * BlockBytes
           Before(k) == IF k = 1 THEN 0 ELSE Place(k) - BlockBytes
           Step(k, h) == ocb3_hash_block(key, A.blocks[k],
                                         [h EXCEPT !.keyvar = Bumped(@, Place(k), Before(k))])
           Body(g) == [k \in 0 .. n |-> IF k = 0 THEN start ELSE Step(k, g[k - 1])]
           s == CHOOSE g : g = Body(g)
           w == Three(n, start, Step(1, start), Step(2, Step(1, start)))
           size == Len(A.tail)
           first == IF A.blocks = <<>> THEN A.tail ELSE SubSeq(A.blocks[1], 1, size)
           o1 == xor_block(zero_block, l0)
           l1 == double_block(l0)
           o2 == xor_block(o1, l1)
           s1 == xor_block(Cipher[key][xor_block(A.blocks[1], o1)], zero_block)
           s2 == xor_block(Cipher[key][xor_block(A.blocks[2], o2)], s1)
           star == xor_block(zero_block, Cipher[key][zero_block])
<1>1. ocb3_hash_plaintext(key, A)
        = IF size = 0 THEN s[n].sum
            ELSE ocb3_hash_block(key, Padded(first),
                                 [s[n] EXCEPT !.keyvar = aes_encrypt(key, zero_block)]).sum
  BY Zenon DEF ocb3_hash_plaintext
<1>2. n \in 0 .. 2
  OBVIOUS
<1>3. (A.blocks = <<>> <=> n = 0) /\ (A.tail = <<>> <=> size = 0)
  BY EmptySeq
<1> HIDE DEF n, l0
<1>4. \A k \in 0 .. n : \/ k = 0 /\ w[k] = start
                        \/ k = 1 /\ w[k] = Step(k, w[k - 1])
                        \/ k = 2 /\ w[k] = Step(k, w[k - 1])
  <2> HIDE DEF start
  <2> DEFINE b == Step(1, start)
             c == Step(2, b)
             v == Three(n, start, b, c)
  <2> HIDE DEF b, c
  <2>1. \A k \in 0 .. n : \/ k = 0 /\ v[k] = start
                          \/ k = 1 /\ v[k] = b /\ v[k - 1] = start
                          \/ k = 2 /\ v[k] = c /\ v[k - 1] = b
    BY <1>2, ThreeValues
  <2> HIDE DEF v, Step
  <2>2. \A k \in 0 .. n : \/ k = 0 /\ v[k] = start
                          \/ k = 1 /\ v[k] = Step(k, v[k - 1])
                          \/ k = 2 /\ v[k] = Step(k, v[k - 1])
    BY <2>1, Zenon DEF b, c
  <2>3. w = v
    BY DEF v, b, c
  <2> HIDE DEF w
  <2> QED
    BY <2>2, <2>3, Zenon
<1>5. w = [k \in 0 .. n |-> w[k]]
  BY Zenon DEF Three
<1>6. w = Body(w)
  <2> HIDE DEF w, Step, start
  <2>1. 1 # 0 /\ 2 # 0
    OBVIOUS
  <2>2. \A k \in 0 .. n : w[k] = IF k = 0 THEN start ELSE Step(k, w[k - 1])
    BY <1>4, <2>1
  <2> QED
    BY <1>5, <2>2, Zenon
<1>7. s = Body(s)
  <2> HIDE DEF Body, w
  <2> QED
    BY <1>6
<1>8. \A k \in 0 .. n : s[k] = IF k = 0 THEN start ELSE Step(k, s[k - 1])
  <2> HIDE DEF s, Step, start
  <2> QED
    BY <1>7, Zenon
<1> HIDE DEF s, Body, Step, start
<1>9. s[0] = start /\ (n >= 1 => s[1] = Step(1, start)) /\ (n = 2 => s[2] = Step(2, Step(1, start)))
  <2>1. s[0] = start
    BY <1>2, <1>8
  <2>2. n >= 1 => s[1] = Step(1, s[0])
    BY <1>2, <1>8
  <2>3. n = 2 => s[2] = Step(2, s[1])
    BY <1>2, <1>8
  <2>4. n = 2 => n >= 1
    OBVIOUS
  <2> QED
    BY <2>1, <2>2, <2>3, <2>4, Zenon
<1>10. start = Hash(zero_block, zero_block, l0)
  BY Zenon DEF start, Hash
<1>11. Step(1, start) = Hash(s1, o1, l0)
  <2>1. BlockBytes \in Nat
    BY OcbAssumption
  <2>2. Place(1) = 0 /\ Before(1) = 0
    BY <2>1
  <2>3. Bumped(start.keyvar, Place(1), Before(1)) = l0
    <3>1. start.keyvar = l0
      BY DEF start
    <3>2. ntz(0) = 0 /\ ~ (0 > 0)
      BY FirstPlaces
    <3> QED
      BY <2>2, <3>1, <3>2, Zenon DEF Bumped
  <2>4. Step(1, start) = ocb3_hash_block(key, A.blocks[1], [start EXCEPT !.keyvar = l0])
    <3> HIDE DEF Place, Before
    <3> QED
      BY <2>3, Zenon DEF Step
  <2>5. [Hash(zero_block, zero_block, l0) EXCEPT !.keyvar = l0] = Hash(zero_block, zero_block, l0)
    BY HashKeyvar
  <2>6. ocb3_hash_block(key, A.blocks[1], Hash(zero_block, zero_block, l0)) = Hash(s1, o1, l0)
    BY HashRound
  <2> QED
    BY <1>10, <2>4, <2>5, <2>6, Zenon
<1>12. Step(2, Step(1, start)) = Hash(s2, o2, l1)
  <2>1. BlockBytes \in Nat
    BY OcbAssumption
  <2>2. Place(2) = BlockBytes /\ Before(2) = 0
    BY <2>1
  <2> DEFINE r == Hash(s1, o1, l0)
  <2>3. Bumped(r.keyvar, Place(2), Before(2)) = l1
    <3>1. r.keyvar = l0
      BY DEF Hash
    <3>2. ntz(BlockBytes) > ntz(0)
      BY FirstPlaces
    <3> HIDE DEF Place, Before, r
    <3> QED
      BY <2>2, <3>1, <3>2, Zenon DEF Bumped
  <2>4. Step(2, r) = ocb3_hash_block(key, A.blocks[2], [r EXCEPT !.keyvar = l1])
    <3> HIDE DEF Place, Before, r, l1
    <3> QED
      BY <2>3, Zenon DEF Step
  <2>5. [r EXCEPT !.keyvar = l1] = Hash(s1, o1, l1)
    <3> HIDE DEF s1, o1, l1
    <3> QED
      BY HashKeyvar
  <2>6. ocb3_hash_block(key, A.blocks[2], Hash(s1, o1, l1)) = Hash(s2, o2, l1)
    <3> HIDE DEF s1, o1, l1
    <3> QED
      BY HashRound
  <2> QED
    BY <1>11, <2>4, <2>5, <2>6, Zenon
<1>13. CASE size = 0
  <2>1. n = 0 => s[n].sum = zero_block
    BY <1>9, <1>10 DEF Hash
  <2>2. n = 1 => s[n].sum = s1
    <3> HAVE n = 1
    <3>1. s[n] = Hash(s1, o1, l0)
      BY <1>9, <1>11, <1>2
    <3> HIDE DEF s1
    <3> QED
      BY <3>1 DEF Hash
  <2>3. n = 2 => s[n].sum = s2
    <3> HAVE n = 2
    <3>1. s[n] = Hash(s2, o2, l1)
      BY <1>9, <1>12, Zenon
    <3> HIDE DEF s2
    <3> QED
      BY <3>1 DEF Hash
  <2> QED
    BY <1>1, <1>3, <1>13, <2>1, <2>2, <2>3, Zenon DEF n, l0
<1>14. CASE size # 0
  <2>1. n = 0 /\ first = A.tail
    BY <1>3, <1>14 DEF n
  <2>2. s[n] = Hash(zero_block, zero_block, l0)
    BY <1>9, <1>10, <2>1, Zenon
  <2> DEFINE t == xor_block(Cipher[key][xor_block(Padded(A.tail), star)], zero_block)
  <2>3. ocb3_hash_block(key, Padded(first), [s[n] EXCEPT !.keyvar = aes_encrypt(key, zero_block)])
          = Hash(t, star, Cipher[key][zero_block])
    <3> DEFINE e == Cipher[key][zero_block]
               x == Padded(A.tail)
    <3> HIDE DEF e, x
    <3>1. [Hash(zero_block, zero_block, l0) EXCEPT !.keyvar = e] = Hash(zero_block, zero_block, e)
      BY HashKeyvar
    <3>2. ocb3_hash_block(key, x, Hash(zero_block, zero_block, e))
            = Hash(xor_block(Cipher[key][xor_block(x, xor_block(zero_block, e))], zero_block),
                   xor_block(zero_block, e), e)
      BY HashRound
    <3> QED
      BY <2>1, <2>2, <3>1, <3>2, Zenon DEF aes_encrypt, e, x
  <2>4. Hash(t, star, Cipher[key][zero_block]).sum = t
    <3> HIDE DEF t
    <3> QED
      BY DEF Hash
  <2>5. 0 # 1 /\ 0 # 2
    OBVIOUS
  <2> QED
    BY <1>1, <1>3, <1>14, <2>1, <2>3, <2>4, <2>5, Zenon DEF n
<1> QED
  BY <1>13, <1>14

\* A text's parts have their types.
LEMMA TextParts ==
  ASSUME NEW t \in Text
  PROVE  /\ t.blocks \in Seq(Block) /\ Len(t.blocks) \in Nat
         /\ \E n \in 0 .. BlockBytes - 1 : t.tail \in [1 .. n -> Byte]
         /\ t.tail \in Seq(Byte)
<1>1. /\ t.blocks \in Seq(Block)
      /\ t.tail \in UNION {[1 .. n -> Byte] : n \in 0 .. BlockBytes - 1}
  BY DEF Text
<1>2. PICK n \in 0 .. BlockBytes - 1 : t.tail \in [1 .. n -> Byte]
  BY <1>1, Zenon
<1>3. t.tail \in Seq(Byte)
  <2>1. BlockBytes \in Nat
    BY OcbAssumption
  <2>2. n \in Nat
    BY <2>1
  <2> QED
    BY <1>2, <2>2
<1> QED
  BY <1>1, <1>2, <1>3, LenProperties, Zenon

\* ocb3_hash_plaintext computes the RFC's hash of associated data of less than
\* a block, and of one and of two blocks.
LEMMA HashAsRfc ==
  ASSUME NEW key \in Keys, NEW A \in Text,
         A.blocks = <<>> \/ (Len(A.blocks) <= 2 /\ A.tail = <<>>)
  PROVE  ocb3_hash_plaintext(key, A) = RfcHash(key, A) /\ RfcHash(key, A) \in Block
<1> DEFINE m == Len(A.blocks)
           e == Cipher[key][zero_block]
           l0 == RfcL(key, 0)
           l1 == RfcL(key, 1)
           z == zero_block
           o1 == xor_block(z, l0)
           o2 == xor_block(o1, l1)
           c1 == Cipher[key][xor_block(A.blocks[1], o1)]
           c2 == Cipher[key][xor_block(A.blocks[2], o2)]
           star == xor_block(z, e)
           ct == Cipher[key][xor_block(Padded(A.tail), star)]
<1>1. A.blocks \in Seq(Block) /\ A.tail \in Seq(Byte) /\ m \in Nat
  BY TextParts
<1>2. m \in 0 .. 2 /\ (m = 0 \/ A.tail = <<>>) /\ (m = 0 \/ m = 1 \/ m = 2)
  <2>1. A.blocks = <<>> => m = 0
    BY EmptySeq, Zenon
  <2> HIDE DEF m
  <2>2. m = 0 \/ (m <= 2 /\ A.tail = <<>>)
    BY <2>1 DEF m
  <2> QED
    BY <1>1, <2>2
<1>3. /\ m = 0 /\ A.tail = <<>> => RfcHash(key, A) = z
      /\ m = 0 /\ A.tail # <<>> => RfcHash(key, A) = xor_block(z, ct)
      /\ m = 1 /\ A.tail = <<>> => RfcHash(key, A) = xor_block(z, c1)
      /\ m = 2 /\ A.tail = <<>> => RfcHash(key, A) = xor_block(xor_block(z, c1), c2)
  <2> DEFINE cr == Cipher[key][xor_block(RfcPad(A.tail), star)]
  <2>1. /\ m = 0 /\ A.tail = <<>> => RfcHash(key, A) = z
        /\ m = 0 /\ A.tail # <<>> => RfcHash(key, A) = xor_block(z, cr)
        /\ m = 1 /\ A.tail = <<>> => RfcHash(key, A) = xor_block(z, c1)
        /\ m = 2 /\ A.tail = <<>> => RfcHash(key, A) = xor_block(xor_block(z, c1), c2)
    BY <1>2, RfcHashIs
  <2>2. RfcPad(A.tail) = Padded(A.tail)
    <3>1. PICK n \in 0 .. BlockBytes - 1 : A.tail \in [1 .. n -> Byte]
      BY TextParts
    <3> DEFINE t == A.tail
    <3>2. t \in [1 .. n -> Byte]
      BY <3>1
    <3> HIDE DEF t
    <3>3. RfcPad(t) = Padded(t)
      BY <3>2, PaddedAsRfc, Zenon
    <3> QED
      BY <3>3 DEF t
  <2>3. cr = ct
    BY <2>2, Zenon
  <2> HIDE DEF cr, ct, c1, c2
  <2> QED
    BY <2>1, <2>3, Zenon
<1>4. keyvar_init(key) = l0 /\ double_block(keyvar_init(key)) = l1 /\ l0 \in Block /\ l1 \in Block /\ e \in Block
  BY KeyBlocks, Zenon
<1>5. /\ m = 0 /\ A.tail = <<>> => ocb3_hash_plaintext(key, A) = z
      /\ m = 0 /\ A.tail # <<>> => ocb3_hash_plaintext(key, A) = xor_block(ct, z)
      /\ m = 1 => ocb3_hash_plaintext(key, A) = xor_block(c1, z)
      /\ m = 2 => ocb3_hash_plaintext(key, A) = xor_block(c2, xor_block(c1, z))
  <2> DEFINE k0 == keyvar_init(key)
             k1 == double_block(k0)
             p1 == xor_block(z, k0)
             p2 == xor_block(p1, k1)
             d1 == Cipher[key][xor_block(A.blocks[1], p1)]
             d2 == Cipher[key][xor_block(A.blocks[2], p2)]
  <2>1. /\ m = 0 /\ A.tail = <<>> => ocb3_hash_plaintext(key, A) = z
        /\ m = 0 /\ A.tail # <<>> => ocb3_hash_plaintext(key, A) = xor_block(ct, z)
        /\ m = 1 => ocb3_hash_plaintext(key, A) = xor_block(d1, z)
        /\ m = 2 => ocb3_hash_plaintext(key, A) = xor_block(d2, xor_block(d1, z))
    BY <1>1, <1>2, CodeHashIs
  <2>2. k0 = l0 /\ k1 = l1
    BY <1>4
  <2>3. p1 = o1 /\ p2 = o2
    BY <2>2, Zenon
  <2>4. d1 = c1 /\ d2 = c2
    BY <2>3, Zenon
  <2> HIDE DEF d1, d2, c1, c2
  <2> QED
    BY <2>1, <2>4, Zenon
<1>6. z \in Block
  BY ZeroBlock
<1> HIDE DEF m, l0, l1, z, e
<1>7. \A x \in Block : Cipher[key][x] \in Block
  BY AesPermutes, Zenon DEF aes_encrypt
<1>8. \A x, y \in Block : xor_block(x, y) \in Block /\ xor_block(x, y) = xor_block(y, x)
  BY XorBlock, Zenon
<1>9. o1 \in Block /\ o2 \in Block /\ star \in Block
  BY <1>4, <1>6, <1>8, Zenon
<1>10. ct \in Block
  <2>1. Padded(A.tail) \in Block
    <3>1. PICK n \in 0 .. BlockBytes - 1 : A.tail \in [1 .. n -> Byte]
      BY TextParts
    <3> DEFINE t == A.tail
    <3>2. t \in [1 .. n -> Byte]
      BY <3>1
    <3> HIDE DEF t
    <3>3. Padded(t) \in Block
      BY <3>2, PaddedBlock, Zenon
    <3> QED
      BY <3>3 DEF t
  <2> HIDE DEF star
  <2> QED
    BY <1>7, <1>8, <1>9, <2>1, Zenon
<1>11. m >= 1 => A.blocks[1] \in Block
  BY <1>1, ElementOfSeq DEF m
<1>12. m = 2 => A.blocks[2] \in Block
  BY <1>1, ElementOfSeq DEF m
<1> HIDE DEF o1, o2, star
<1>13. m >= 1 => c1 \in Block
  BY <1>7, <1>8, <1>9, <1>11, Zenon
<1>14. m = 2 => c2 \in Block
  BY <1>7, <1>8, <1>9, <1>12, Zenon
<1> HIDE DEF c1, c2, ct
<1>15. CASE m = 0
  BY <1>3, <1>5, <1>6, <1>8, <1>10, <1>15, Zenon
<1>16. CASE m = 1
  <2>1. m >= 1 /\ A.tail = <<>>
    BY <1>2, <1>16
  <2> QED
    BY <1>3, <1>5, <1>6, <1>8, <1>13, <1>16, <2>1, Zenon
<1>17. CASE m = 2
  <2>1. m >= 1 /\ A.tail = <<>>
    BY <1>2, <1>17
  <2>2. xor_block(z, c1) \in Block /\ xor_block(c1, z) = xor_block(z, c1)
    BY <1>6, <1>8, <1>13, <2>1, Zenon
  <2> DEFINE x == xor_block(z, c1)
  <2>3. x \in Block /\ xor_block(c1, z) = x
    BY <2>2
  <2>4. RfcHash(key, A) = xor_block(x, c2) /\ ocb3_hash_plaintext(key, A) = xor_block(c2, x)
    BY <1>3, <1>5, <1>17, <2>1, <2>3, Zenon
  <2> HIDE DEF x
  <2> QED
    BY <1>8, <1>14, <1>17, <2>3, <2>4, Zenon
<1> QED
  BY <1>2, <1>15, <1>16, <1>17 DEF m

\* The RFC's encryption of a text of at most one block and a tail.
LEMMA RfcEncryptIs ==
  ASSUME NEW key \in Keys, NEW N, NEW A, NEW P, P.blocks \in Seq(Block), Len(P.blocks) \in 0 .. 1
  PROVE  LET m     == Len(P.blocks)
             e     == Cipher[key][zero_block]
             first == RfcFirst(key, N)
             o1    == xor_block(first, RfcL(key, 0))
             om    == IF m = 0 THEN first ELSE o1
             sm    == IF m = 0 THEN zero_block ELSE xor_block(zero_block, P.blocks[1])
             star  == IF P.tail = <<>> THEN om ELSE xor_block(om, e)
             all   == IF P.tail = <<>> THEN sm ELSE xor_block(sm, RfcPad(P.tail))
         IN  RfcEncrypt(key, N, A, P) =
               [text |-> [blocks |-> IF m = 0 THEN <<>>
                                       ELSE <<xor_block(o1, Cipher[key][xor_block(P.blocks[1], o1)])>>,
                          tail |-> xor_block_ex(P.tail, Cipher[key][star], Len(P.tail))],
                tag |-> xor_block(Cipher[key][xor_block(xor_block(all, star), RfcDouble(e))],
                                  RfcHash(key, A))]
<1> DEFINE n == Len(P.blocks)
           e == Cipher[key][zero_block]
           first == RfcFirst(key, N)
           o1 == xor_block(first, RfcL(key, 0))
           om == IF n = 0 THEN first ELSE o1
           t1 == xor_block(zero_block, P.blocks[1])
           sm == IF n = 0 THEN zero_block ELSE t1
           o == RfcOffsets(key, first, n)
           Body(g) == [k \in 0 .. n |-> IF k = 0 THEN zero_block ELSE xor_block(g[k - 1], P.blocks[k])]
           s == CHOOSE g : g = Body(g)
           w == Three(n, zero_block, t1, t1)
           bl == [k \in 1 .. n |-> xor_block(o[k], Cipher[key][xor_block(P.blocks[k], o[k])])]
           out1 == <<xor_block(o1, Cipher[key][xor_block(P.blocks[1], o1)])>>
           Star(x) == IF P.tail = <<>> THEN x ELSE xor_block(x, e)
           All(x) == IF P.tail = <<>> THEN x ELSE xor_block(x, RfcPad(P.tail))
           Result(b, x, y) ==
             [text |-> [blocks |-> b, tail |-> xor_block_ex(P.tail, Cipher[key][Star(x)], Len(P.tail))],
              tag |-> xor_block(Cipher[key][xor_block(xor_block(All(y), Star(x)), RfcDouble(e))],
                                RfcHash(key, A))]
<1>1. RfcEncrypt(key, N, A, P) = Result(bl, o[n], s[n])
  BY Zenon DEF RfcEncrypt
<1>2. n \in 0 .. 1 /\ n \in 0 .. 2
  OBVIOUS
<1>3. o[0] = first /\ (n >= 1 => o[1] = o1)
  <2> HIDE DEF n, first
  <2> QED
    BY <1>2, FirstOffsets
<1>4. w = Body(w)
  <2> HIDE DEF n, t1
  <2>1. /\ w[0] = zero_block
        /\ \A k \in 0 .. n : \/ k = 0 /\ w[k] = zero_block
                             \/ k = 1 /\ w[k] = t1 /\ w[k - 1] = zero_block
                             \/ k = 2 /\ w[k] = t1 /\ w[k - 1] = t1
    BY <1>2, ThreeValues
  <2>2. w = [k \in 0 .. n |-> w[k]]
    BY Zenon DEF Three
  <2> HIDE DEF w
  <2>3. \A k \in 0 .. n : k # 2 /\ (k = 1 => k # 0)
    BY <1>2
  <2>4. \A k \in 0 .. n : w[k] = IF k = 0 THEN zero_block ELSE xor_block(w[k - 1], P.blocks[k])
    BY <2>1, <2>3, Zenon DEF t1
  <2> QED
    BY <2>2, <2>4, Zenon
<1>5. s = Body(s)
  <2> HIDE DEF Body, w
  <2> QED
    BY <1>4
<1>6. \A k \in 0 .. n : s[k] = IF k = 0 THEN zero_block ELSE xor_block(s[k - 1], P.blocks[k])
  <2> HIDE DEF s, n
  <2> QED
    BY <1>5, Zenon
<1>7. s[n] = sm
  <2> HIDE DEF s, n, Body
  <2>1. s[0] = zero_block
    BY <1>2, <1>6
  <2>2. n = 1 => s[1] = xor_block(s[0], P.blocks[1])
    BY <1>2, <1>6
  <2>3. n = 0 \/ (n = 1 /\ n # 0)
    BY <1>2
  <2> QED
    BY <2>1, <2>2, <2>3, Zenon
<1>8. o[n] = om
  <2> HIDE DEF o, n, first, o1
  <2>1. n = 0 \/ (n = 1 /\ n # 0 /\ n >= 1)
    BY <1>2
  <2> QED
    BY <1>3, <2>1, Zenon
<1>9. bl = IF n = 0 THEN <<>> ELSE out1
  <2> DEFINE f(x) == xor_block(x, Cipher[key][xor_block(P.blocks[1], x)])
  <2>1. CASE n = 0
    <3>1. bl = [k \in 1 .. 0 |-> xor_block(o[k], Cipher[key][xor_block(P.blocks[k], o[k])])]
      BY <2>1
    <3>2. bl = <<>>
      BY <3>1
    <3> QED
      BY <2>1, <3>2
  <2>2. CASE n = 1
    <3> DEFINE b == [k \in 1 .. 1 |-> xor_block(o[k], Cipher[key][xor_block(P.blocks[k], o[k])])]
    <3>1. bl = b
      BY <2>2
    <3>2. b[1] = f(o[1])
      OBVIOUS
    <3>3. f(o[1]) = f(o1)
      <4>1. o[1] = o1
        BY <1>3, <2>2
      <4> HIDE DEF o, o1
      <4> QED
        BY <4>1, Zenon
    <3> DEFINE x == f(o1)
    <3> HIDE DEF x, o, f
    <3>4. b[1] = x
      BY <3>2, <3>3 DEF x
    <3>5. b = [k \in 1 .. 1 |-> x]
      <4>1. b = [k \in 1 .. 1 |-> b[k]]
        BY Zenon
      <4> HIDE DEF b
      <4>2. \A k \in 1 .. 1 : b[k] = x
        BY <3>4
      <4> QED
        BY <4>1, <4>2, Zenon
    <3>6. [k \in 1 .. 1 |-> x] = <<x>>
      OBVIOUS
    <3>7. out1 = <<x>>
      BY DEF x, f
    <3> HIDE DEF b
    <3> QED
      BY <2>2, <3>1, <3>5, <3>6, <3>7
  <2> QED
    BY <1>2, <2>1, <2>2
<1> HIDE DEF bl, o, s
<1>10. RfcEncrypt(key, N, A, P) = Result(IF n = 0 THEN <<>> ELSE out1, om, sm)
  <2> HIDE DEF om, sm, out1, Star, All
  <2> QED
    BY <1>1, <1>7, <1>8, <1>9, Zenon
<1> QED
  BY <1>10, Zenon

\* ocb3_encrypt_block_final, from an offset and a checksum, computes the RFC's
\* last bytes and tag.
LEMMA FinalAsRfc ==
  ASSUME NEW key \in Keys, NEW n \in 0 .. BlockBytes - 1, NEW in \in [1 .. n -> Byte],
         NEW o \in Block, NEW c \in Block, NEW A \in Text,
         A.blocks = <<>> \/ (Len(A.blocks) <= 2 /\ A.tail = <<>>)
  PROVE  LET e    == Cipher[key][zero_block]
             star == IF in = <<>> THEN o ELSE xor_block(o, e)
             all  == IF in = <<>> THEN c ELSE xor_block(c, RfcPad(in))
         IN  ocb3_encrypt_block_final(key, in, o, c, A) =
               [out |-> xor_block_ex(in, Cipher[key][star], Len(in)),
                tag |-> xor_block(Cipher[key][xor_block(xor_block(all, star), RfcDouble(e))],
                                  RfcHash(key, A))]
<1> DEFINE e == Cipher[key][zero_block]
           h == RfcHash(key, A)
           Tag(x, y) == xor_block(Cipher[key][xor_block(xor_block(x, y), RfcDouble(e))], h)
<1>1. e \in Block /\ double_block(e) = RfcDouble(e) /\ RfcDouble(e) \in Block
  BY KeyBlocks, Zenon
<1>2. ocb3_hash_plaintext(key, A) = h /\ h \in Block
  BY HashAsRfc
<1>3. Padded(in) \in Block /\ Len(in) = n /\ (in = <<>> <=> n = 0) /\ RfcPad(in) = Padded(in)
  BY PaddedBlock, PaddedAsRfc
<1> HIDE DEF e, h
<1>4. \A x \in Block : Cipher[key][x] \in Block
  BY AesPermutes, Zenon DEF aes_encrypt
<1>5. \A x, y \in Block : xor_block(x, y) \in Block /\ xor_block(x, y) = xor_block(y, x)
  BY XorBlock, Zenon
<1>6. ASSUME NEW x \in Block, NEW y \in Block PROVE ocb3_compute_tag(key, x, y, A) = Tag(x, y)
  <2> DEFINE v == xor_block(xor_block(x, y), RfcDouble(e))
  <2>1. v \in Block
    BY <1>1, <1>5, Zenon
  <2>2. ocb3_compute_tag(key, x, y, A) = xor_block(h, Cipher[key][v])
    BY <1>1, <1>2, Zenon DEF ocb3_compute_tag, aes_encrypt, e
  <2>3. Tag(x, y) = xor_block(Cipher[key][v], h)
    OBVIOUS
  <2> HIDE DEF v, Tag
  <2> QED
    BY <1>2, <1>4, <1>5, <2>1, <2>2, <2>3, Zenon
<1> HIDE DEF Tag
<1>7. CASE in = <<>>
  <2>1. ocb3_encrypt_block_final(key, in, o, c, A) = [out |-> <<>>, tag |-> Tag(c, o)]
    BY <1>6, <1>7, Zenon DEF ocb3_encrypt_block_final
  <2>2. \A p : xor_block_ex(in, p, Len(in)) = <<>>
    <3>1. Len(in) = 0
      BY <1>3, <1>7
    <3> QED
      BY <3>1 DEF xor_block_ex
  <2> QED
    BY <1>7, <2>1, <2>2, Zenon DEF Tag, e, h
<1>8. CASE in # <<>>
  <2> DEFINE x == xor_block(c, Padded(in))
             y == xor_block(o, e)
             p == Cipher[key][y]
  <2>1. x \in Block /\ y \in Block
    BY <1>1, <1>3, <1>5, Zenon
  <2>2. xor_block(e, o) = y
    BY <1>1, <1>5, Zenon
  <2>3. ocb3_encrypt_block_final(key, in, o, c, A)
          = [out |-> xor_block_ex(p, in, Len(in)), tag |-> ocb3_compute_tag(key, x, y, A)]
    BY <1>8, <2>2, Zenon DEF ocb3_encrypt_block_final, aes_encrypt, e
  <2>4. xor_block_ex(p, in, Len(in)) = xor_block_ex(in, p, Len(in))
    <3> HIDE DEF p
    <3>1. \A k : (p[k] \ in[k]) \cup (in[k] \ p[k]) = (in[k] \ p[k]) \cup (p[k] \ in[k])
      BY Zenon
    <3> QED
      BY <3>1, Zenon DEF xor_block_ex
  <2>5. ocb3_compute_tag(key, x, y, A) = Tag(x, y)
    BY <1>6, <2>1
  <2>6. ocb3_encrypt_block_final(key, in, o, c, A)
          = [out |-> xor_block_ex(in, p, Len(in)), tag |-> Tag(x, y)]
    <3> HIDE DEF x, y, p
    <3> QED
      BY <2>3, <2>4, <2>5, Zenon
  <2> QED
    BY <1>3, <1>8, <2>6, Zenon DEF Tag, e, h
<1> QED
  BY <1>7, <1>8

-------------------------------------------------------------------------------
(* The loop of OCB3 on a call in the RFC's range. *)

\* The RFC's offset, checksum and ciphertext behind the first i blocks (0 or 1).
OffsetAfter(i) ==
  IF i = 0 THEN RfcFirst(job.key, job.iv)
    ELSE xor_block(RfcFirst(job.key, job.iv), RfcL(job.key, 0))
SumAfter(i) == IF i = 0 THEN zero_block ELSE xor_block(zero_block, job.text.blocks[1])
OutAfter(i) ==
  IF i = 0 THEN <<>>
    ELSE <<xor_block(OffsetAfter(1),
                     Cipher[job.key][xor_block(job.text.blocks[1], OffsetAfter(1))])>>

Ocb3Inv ==
  /\ job \in Jobs
  /\ job.mode = "ocb3" => phase \in {"encrypt", "done"}
  /\ job.mode = "ocb3" /\ InRfcRange(job) =>
       /\ phase = "encrypt" =>
            /\ done \in 0 .. Whole /\ delta = OffsetAfter(done) /\ keyvar = RfcL(job.key, 0)
            /\ checksum = SumAfter(done) /\ out = [blocks |-> OutAfter(done), tail |-> <<>>]
       /\ Ocb3AsInRfc

\* The call starts so.
LEMMA Ocb3InitInv == OcbInit => Ocb3Inv
<1> SUFFICES ASSUME OcbInit PROVE Ocb3Inv
  OBVIOUS
<1>1. job \in Jobs /\ phase = "encrypt" /\ done = 0 /\ phase # "done"
  BY DEF OcbInit
<1>2. job.key \in Keys /\ job.iv \in Block /\ job.text.blocks \in Seq(Block)
  BY <1>1, JobParts, Zenon
<1>3. ASSUME job.mode = "ocb3", InRfcRange(job)
      PROVE  /\ done \in 0 .. Whole /\ delta = OffsetAfter(done) /\ keyvar = RfcL(job.key, 0)
             /\ checksum = SumAfter(done) /\ out = [blocks |-> OutAfter(done), tail |-> <<>>]
  <2>1. /\ delta = offset_init(job.key, job.iv) /\ keyvar = keyvar_init(job.key)
        /\ checksum = zero_block /\ out = [blocks |-> <<>>, tail |-> <<>>]
    BY <1>3 DEF OcbInit, Empty
  <2>2. offset_init(job.key, job.iv) = RfcFirst(job.key, job.iv)
    <3> DEFINE k == job.key
               v == job.iv
    <3>1. k \in Keys /\ v \in Block /\ LowBits - 1 \notin v[IvBytes]
      BY <1>2, <1>3 DEF InRfcRange
    <3> HIDE DEF k, v
    <3>2. offset_init(k, v) = RfcFirst(k, v)
      BY <3>1, OffsetAsRfc, Zenon
    <3> QED
      BY <3>2 DEF k, v
  <2>3. keyvar_init(job.key) = RfcL(job.key, 0)
    BY <1>2, KeyBlocks, Zenon
  <2>4. 0 \in 0 .. Whole
    BY <1>2, LenProperties DEF Whole
  <2> QED
    BY <1>1, <2>1, <2>2, <2>3, <2>4, Zenon DEF OffsetAfter, SumAfter, OutAfter
<1>4. Ocb3AsInRfc
  BY <1>1, Zenon DEF Ocb3AsInRfc
<1>5. phase \in {"encrypt", "done"}
  BY <1>1
<1> QED
  BY <1>1, <1>3, <1>4, <1>5, Zenon DEF Ocb3Inv

\* A block enciphered.
LEMMA Ocb3BlockInv == Ocb3Inv /\ Ocb3EncryptBlock => Ocb3Inv'
<1> SUFFICES ASSUME Ocb3Inv, Ocb3EncryptBlock PROVE Ocb3Inv'
  OBVIOUS
<1> DEFINE in == job.text.blocks[done + 1]
           c == xor_block(delta', aes_encrypt(job.key, xor_block(in, delta')))
<1>1. /\ phase = "encrypt" /\ job.mode = "ocb3" /\ done < Whole
      /\ keyvar' = Bumped(keyvar, done, IF done = 0 THEN 0 ELSE done - 1)
      /\ delta' = xor_block(delta, keyvar')
      /\ out' = [out EXCEPT !.blocks = Append(@, c)]
      /\ checksum' = xor_block(checksum, in)
      /\ done' = done + 1 /\ job' = job /\ phase' = phase
  BY DEF Ocb3EncryptBlock, Whole
<1>2. job \in Jobs
  BY DEF Ocb3Inv
<1>3. ASSUME InRfcRange(job)
      PROVE  /\ done' \in 0 .. Whole' /\ delta' = OffsetAfter(done)' /\ keyvar' = RfcL(job.key, 0)
             /\ checksum' = SumAfter(done)' /\ out' = [blocks |-> OutAfter(done)', tail |-> <<>>]
  <2>1. /\ done \in 0 .. Whole /\ delta = OffsetAfter(done) /\ keyvar = RfcL(job.key, 0)
        /\ checksum = SumAfter(done) /\ out = [blocks |-> OutAfter(done), tail |-> <<>>]
    BY <1>1, <1>3, Zenon DEF Ocb3Inv
  <2>2. Whole \in Nat /\ Whole <= 1
    <3>1. Whole \in Nat
      BY <1>2, JobParts, LenProperties, Zenon DEF Whole
    <3> QED
      BY <1>3, <3>1 DEF InRfcRange, Whole
  <2>3. done = 0 /\ done' = 1 /\ Whole = 1 /\ done + 1 = 1
    BY <1>1, <2>1, <2>2
  <2>4. keyvar' = RfcL(job.key, 0)
    <3>1. ~ (ntz(0) > ntz(0))
      BY FirstPlaces
    <3> QED
      BY <1>1, <2>1, <2>3, <3>1, Zenon DEF Bumped
  <2>5. delta' = OffsetAfter(1)
    <3>1. 1 # 0
      OBVIOUS
    <3> QED
      BY <1>1, <2>1, <2>3, <2>4, <3>1, Zenon DEF OffsetAfter
  <2>6. checksum' = SumAfter(1)
    <3>1. 1 # 0
      OBVIOUS
    <3> QED
      BY <1>1, <2>1, <2>3, <3>1, Zenon DEF SumAfter
  <2>7. OutAfter(1) = <<c>>
    <3>1. 1 # 0
      OBVIOUS
    <3> QED
      BY <2>3, <2>5, <3>1, Zenon DEF OutAfter, aes_encrypt
  <2>8. out' = [blocks |-> <<c>>, tail |-> <<>>]
    <3> HIDE DEF c
    <3>1. out = [blocks |-> <<>>, tail |-> <<>>]
      BY <2>1, <2>3, Zenon DEF OutAfter
    <3>2. out' = [out EXCEPT !.blocks = Append(@, c)]
      BY <1>1
    <3>3. Append(<<>>, c) = <<c>>
      OBVIOUS
    <3> QED
      BY <3>1, <3>2, <3>3
  <2>9. OffsetAfter(done)' = OffsetAfter(1) /\ SumAfter(done)' = SumAfter(1) /\ OutAfter(done)' = OutAfter(1)
    BY <1>1, <2>3, Zenon DEF OffsetAfter, SumAfter, OutAfter
  <2>10. done' \in 0 .. Whole'
    <3>1. Whole' = Whole
      BY <1>1, Zenon DEF Whole
    <3> QED
      BY <2>3, <3>1
  <2> HIDE DEF c
  <2> QED
    BY <2>4, <2>5, <2>6, <2>7, <2>8, <2>9, <2>10, Zenon
<1>4. Ocb3AsInRfc'
  BY <1>1 DEF Ocb3AsInRfc
<1>5. InRfcRange(job)' <=> InRfcRange(job)
  BY <1>1, Zenon DEF InRfcRange
<1>6. phase' \in {"encrypt", "done"}
  BY <1>1
<1> QED
  BY <1>1, <1>2, <1>3, <1>4, <1>5, <1>6, Zenon DEF Ocb3Inv

\* The last bytes and the tag.
LEMMA Ocb3FinalInv == Ocb3Inv /\ Ocb3EncryptFinal => Ocb3Inv'
<1> SUFFICES ASSUME Ocb3Inv, Ocb3EncryptFinal PROVE Ocb3Inv'
  OBVIOUS
<1> DEFINE final == ocb3_encrypt_block_final(job.key, job.text.tail, delta, checksum, job.plain)
<1>1. /\ phase = "encrypt" /\ job.mode = "ocb3" /\ done = Whole
      /\ out' = [out EXCEPT !.tail = final.out] /\ tag' = final.tag
      /\ sent' = [text |-> out', tag |-> tag']
      /\ phase' = "done" /\ job' = job
  BY DEF Ocb3EncryptFinal, Whole
<1>2. job \in Jobs
  BY DEF Ocb3Inv
<1>3. ASSUME InRfcRange(job) PROVE sent' = RfcEncrypt(job.key, job.iv, job.plain, job.text)
  <2> DEFINE key == job.key
             iv == job.iv
             A == job.plain
             P == job.text
             tl == P.tail
  <2>1. /\ done \in 0 .. Whole /\ delta = OffsetAfter(done)
        /\ checksum = SumAfter(done) /\ out = [blocks |-> OutAfter(done), tail |-> <<>>]
    BY <1>1, <1>3, Zenon DEF Ocb3Inv
  <2>2. key \in Keys /\ iv \in Block /\ A \in Text /\ P \in Text
    BY <1>2, OcbAssumption, Zenon
  <2>3. P.blocks \in Seq(Block) /\ Whole \in Nat /\ Whole <= 1 /\ Whole \in 0 .. 1
    <3>1. P.blocks \in Seq(Block) /\ Whole \in Nat
      BY <2>2, TextParts, Zenon DEF Whole
    <3>2. Whole <= 1
      BY <1>3, Zenon DEF InRfcRange, Whole
    <3> QED
      BY <3>1, <3>2
  <2>4. PICK n \in 0 .. BlockBytes - 1 : tl \in [1 .. n -> Byte]
    BY <2>2, TextParts, Zenon
  <2>5. A.blocks = <<>> \/ (Len(A.blocks) <= 2 /\ A.tail = <<>>)
    BY <1>3, Zenon DEF InRfcRange
  <2>6. OffsetAfter(Whole) \in Block /\ SumAfter(Whole) \in Block
    <3>1. RfcFirst(key, iv) \in Block
      <4>1. LowBits - 1 \notin iv[IvBytes]
        BY <1>3 DEF InRfcRange
      <4> HIDE DEF key, iv
      <4>2. offset_init(key, iv) \in Block /\ offset_init(key, iv) = RfcFirst(key, iv)
        BY <2>2, <4>1, OffsetAsRfc, Zenon
      <4> QED
        BY <4>2, Zenon
    <3>2. RfcL(key, 0) \in Block /\ zero_block \in Block
      BY <2>2, KeyBlocks, ZeroBlock, Zenon
    <3>3. Whole # 0 => P.blocks[1] \in Block
      BY <2>3, ElementOfSeq DEF Whole
    <3> QED
      BY <3>1, <3>2, <3>3, XorBlock, Zenon DEF OffsetAfter, SumAfter
  <2> DEFINE e == Cipher[key][zero_block]
             o == OffsetAfter(Whole)
             c == SumAfter(Whole)
             star == IF tl = <<>> THEN o ELSE xor_block(o, e)
             all == IF tl = <<>> THEN c ELSE xor_block(c, RfcPad(tl))
             ob == xor_block_ex(tl, Cipher[key][star], Len(tl))
             tg == xor_block(Cipher[key][xor_block(xor_block(all, star), RfcDouble(e))], RfcHash(key, A))
  <2>7. final = [out |-> ob, tag |-> tg]
    <3>1. final = ocb3_encrypt_block_final(key, tl, o, c, A)
      BY <1>1, <2>1, Zenon
    <3> HIDE DEF key, tl, o, c, A
    <3>2. ocb3_encrypt_block_final(key, tl, o, c, A) = [out |-> ob, tag |-> tg]
      <4>1. o \in Block /\ c \in Block
        BY <2>6 DEF o, c
      <4> QED
        BY <2>2, <2>4, <2>5, <4>1, FinalAsRfc
    <3> HIDE DEF ob, tg, final
    <3> QED
      BY <3>1, <3>2, Zenon
  <2> DEFINE b == OutAfter(Whole)
  <2>8. RfcEncrypt(key, iv, A, P) = [text |-> [blocks |-> b, tail |-> ob], tag |-> tg]
    <3> DEFINE first == RfcFirst(key, iv)
               o1 == xor_block(first, RfcL(key, 0))
               om == IF Whole = 0 THEN first ELSE o1
               sm == IF Whole = 0 THEN zero_block ELSE xor_block(zero_block, P.blocks[1])
               st == IF P.tail = <<>> THEN om ELSE xor_block(om, e)
               al == IF P.tail = <<>> THEN sm ELSE xor_block(sm, RfcPad(P.tail))
               bl == IF Whole = 0 THEN <<>>
                       ELSE <<xor_block(o1, Cipher[key][xor_block(P.blocks[1], o1)])>>
    <3>1. RfcEncrypt(key, iv, A, P) =
            [text |-> [blocks |-> bl, tail |-> xor_block_ex(P.tail, Cipher[key][st], Len(P.tail))],
             tag |-> xor_block(Cipher[key][xor_block(xor_block(al, st), RfcDouble(e))],
                               RfcHash(key, A))]
      <4> DEFINE m == Len(P.blocks)
      <4>1. m \in 0 .. 1 /\ Whole = m
        BY <2>3 DEF Whole
      <4> HIDE DEF key, iv, A, P, Whole
      <4> QED
        BY <2>2, <2>3, <4>1, RfcEncryptIs
    <3>2. o = om /\ c = sm
      BY Zenon DEF OffsetAfter, SumAfter
    <3>3. b = bl
      <4>1. OffsetAfter(1) = o1
        BY DEF OffsetAfter
      <4> QED
        BY <4>1, Zenon DEF OutAfter
    <3> HIDE DEF om, sm, o, c, bl, b
    <3> QED
      BY <3>1, <3>2, <3>3, Zenon
  <2>9. out' = [blocks |-> b, tail |-> ob] /\ tag' = tg
    <3>1. out = [blocks |-> b, tail |-> <<>>]
      BY <1>1, <2>1, Zenon
    <3> HIDE DEF b, ob, tg, final
    <3>2. final.out = ob /\ final.tag = tg
      BY <2>7
    <3> QED
      BY <1>1, <3>1, <3>2
  <2> HIDE DEF b, ob, tg
  <2> QED
    BY <1>1, <2>8, <2>9, Zenon
<1>4. Ocb3AsInRfc' <=> (InRfcRange(job) => sent' = RfcEncrypt(job.key, job.iv, job.plain, job.text))
  BY <1>1, Zenon DEF Ocb3AsInRfc, InRfcRange
<1>5. phase' \in {"encrypt", "done"} /\ phase' # "encrypt"
  BY <1>1
<1> QED
  BY <1>1, <1>2, <1>3, <1>4, <1>5, Zenon DEF Ocb3Inv

\* Every step keeps it.
LEMMA Ocb3NextInv == Ocb3Inv /\ [OcbNext]_ocbVars => Ocb3Inv'
<1> SUFFICES ASSUME Ocb3Inv, [OcbNext]_ocbVars PROVE Ocb3Inv'
  OBVIOUS
<1>1. CASE Ocb3EncryptBlock
  BY <1>1, Ocb3BlockInv
<1>2. CASE Ocb3EncryptFinal
  BY <1>2, Ocb3FinalInv
<1>3. CASE Ocb2EncryptBlock \/ Ocb2EncryptFinal
  <2>1. job' = job /\ job.mode # "ocb3" /\ job \in Jobs
    BY <1>3 DEF Ocb2EncryptBlock, Ocb2EncryptFinal, Ocb3Inv
  <2> QED
    BY <2>1, Zenon DEF Ocb3Inv
<1>4. CASE Ocb2DecryptBlock \/ Ocb2DecryptFinal
  <2>1. job' = job /\ phase = "decrypt"
    BY <1>4 DEF Ocb2DecryptBlock, Ocb2DecryptFinal
  <2>2. job.mode # "ocb3" /\ job \in Jobs
    BY <2>1 DEF Ocb3Inv
  <2> QED
    BY <2>1, <2>2, Zenon DEF Ocb3Inv
<1>5. CASE UNCHANGED ocbVars
  <2>1. /\ job' = job /\ phase' = phase /\ done' = done /\ delta' = delta /\ keyvar' = keyvar
        /\ checksum' = checksum /\ out' = out /\ sent' = sent
    BY <1>5 DEF ocbVars
  <2> QED
    BY <2>1, Zenon DEF Ocb3Inv, Ocb3AsInRfc, InRfcRange, OffsetAfter, SumAfter, OutAfter, Whole
<1> QED
  BY <1>1, <1>2, <1>3, <1>4, <1>5 DEF OcbNext, OcbRest

\* ocb3_aes_encrypt is the RFC's encryption for every call in its range.
THEOREM Ocb3FollowsRfc == OcbSpec => []Ocb3AsInRfc
<1>1. Ocb3Inv => Ocb3AsInRfc
  BY DEF Ocb3Inv, Ocb3AsInRfc
<1> QED
  BY <1>1, Ocb3InitInv, Ocb3NextInv, PTL DEF OcbSpec

-------------------------------------------------------------------------------
(* The offsets of OCB2. *)

\* How many offsets a call takes: one for each block and one for the tail.
OffsetsInv ==
  /\ OcbInv
  /\ job.mode = "ocb3" => offsets = <<>>
  /\ job.mode = "ocb2" => Len(offsets) <= Whole + 1

\* No step takes more.
LEMMA OffsetsNextInv == OffsetsInv /\ [OcbNext]_ocbVars => OffsetsInv'
<1> SUFFICES ASSUME OffsetsInv, [OcbNext]_ocbVars PROVE OffsetsInv'
  OBVIOUS
<1>1. OcbInv /\ OcbInv' /\ job \in Jobs
  BY OcbNextInv DEF OffsetsInv, OcbInv
<1>2. Whole \in Nat
  BY <1>1, JobParts, LenProperties, Zenon DEF Whole
<1>3. CASE Ocb2EncryptBlock
  <2>1. job' = job /\ job.mode = "ocb2" /\ phase' = "encrypt"
    BY <1>3 DEF Ocb2EncryptBlock
  <2>2. Encrypting'
    BY <1>1, <2>1, Zenon DEF OcbInv
  <2>3. done' \in 0 .. Whole' /\ Len(offsets') = done' /\ Whole' = Whole
    BY <2>1, <2>2, Zenon DEF Encrypting, Whole
  <2>4. Len(offsets') <= Whole' + 1
    BY <1>2, <2>3
  <2>5. job'.mode # "ocb3"
    BY <2>1
  <2> QED
    BY <1>1, <2>4, <2>5, Zenon DEF OffsetsInv
<1>4. CASE Ocb2EncryptFinal
  <2>1. job' = job /\ job.mode = "ocb2" /\ phase' = "decrypt"
    BY <1>4 DEF Ocb2EncryptFinal
  <2>2. Decrypting'
    BY <1>1, <2>1, Zenon DEF OcbInv
  <2>3. Len(offsets') = Whole' + 1 /\ Whole' = Whole
    BY <2>1, <2>2, Zenon DEF Decrypting, Whole
  <2>4. Len(offsets') <= Whole' + 1
    BY <1>2, <2>3
  <2>5. job'.mode # "ocb3"
    BY <2>1
  <2> QED
    BY <1>1, <2>4, <2>5, Zenon DEF OffsetsInv
<1>5. CASE \/ Ocb2DecryptBlock \/ Ocb2DecryptFinal \/ Ocb3EncryptBlock \/ Ocb3EncryptFinal
           \/ UNCHANGED ocbVars
  <2>1. job' = job /\ offsets' = offsets
    BY <1>5 DEF Ocb2DecryptBlock, Ocb2DecryptFinal, Ocb3EncryptBlock, Ocb3EncryptFinal, ocbVars
  <2> QED
    BY <1>1, <2>1, Zenon DEF OffsetsInv, Whole
<1> QED
  BY <1>3, <1>4, <1>5 DEF OcbNext, OcbRest

\* The offsets taken are distinct and not zero: two that were the same would be
\* one block, doubled fewer times than it takes to come back to it.
LEMMA OffsetsDiffer == OffsetsInv => OffsetsDistinct
<1> SUFFICES ASSUME OffsetsInv, aes_encrypt(job.key, job.iv) # zero_block
             PROVE  /\ \A i \in DOMAIN offsets : offsets[i] # zero_block
                    /\ \A i, j \in DOMAIN offsets : i # j => offsets[i] # offsets[j]
  BY Zenon DEF OffsetsDistinct
<1>1. job \in Jobs
  BY DEF OffsetsInv, OcbInv
<1>2. job.mode \in {"ocb2", "ocb3"}
  BY <1>1, OcbAssumption, Zenon
<1>3. CASE job.mode = "ocb3"
  <2>1. offsets = <<>>
    BY <1>3 DEF OffsetsInv
  <2>2. DOMAIN offsets = {}
    BY <2>1
  <2> QED
    BY <2>2, Zenon
<1>4. CASE job.mode = "ocb2"
  <2> DEFINE n == Len(offsets)
  <2>1. Doubled /\ n <= Whole + 1
    BY <1>4 DEF OffsetsInv, OcbInv
  <2>2. /\ offsets \in Seq(Block) /\ n \in Nat /\ DOMAIN offsets = 1 .. n /\ Whole \in Nat
        /\ \A i \in 1 .. n : offsets[i] = double_block(Offset(i - 1))
    <3>1. offsets \in Seq(Block) /\ \A i \in 1 .. n : offsets[i] = double_block(Offset(i - 1))
      BY <2>1, Zenon DEF Doubled
    <3>2. Whole \in Nat
      BY <1>1, JobParts, LenProperties, Zenon DEF Whole
    <3> QED
      BY <3>1, <3>2, LenProperties, Zenon
  <2>3. \A i \in 0 .. n : Offset(i) \in Block
    BY <1>1, <2>1, OffsetBlock, Zenon
  <2>4. Offset(0) # zero_block
    BY Zenon DEF Offset
  <2>5. \A i \in 1 .. n : Offset(i) = offsets[i] /\ Offset(i) = double_block(Offset(i - 1))
    <3>1. \A i \in 1 .. n : i # 0
      OBVIOUS
    <3> QED
      BY <2>2, <3>1, Zenon DEF Offset
  <2> HIDE DEF n
  <2>6. \A i \in 0 .. n : Offset(i) # zero_block
    <3> DEFINE T == {i \in 0 .. n : Offset(i) = zero_block}
    <3> SUFFICES ASSUME T # {} PROVE FALSE
      OBVIOUS
    <3>1. T \subseteq Nat
      BY <2>2
    <3> HIDE DEF T
    <3>2. PICK x \in T : \A y \in T : x <= y
      BY <3>1, LeastElement
    <3>3. x \in 0 .. n /\ Offset(x) = zero_block
      BY <3>2, Zenon DEF T
    <3>4. x # 0
      BY <2>4, <3>3, Zenon
    <3>5. x \in 1 .. n /\ x - 1 \in 0 .. n /\ ~ (x <= x - 1)
      BY <2>2, <3>3, <3>4
    <3>6. x - 1 \notin T
      BY <3>2, <3>5
    <3>7. Offset(x - 1) # zero_block /\ Offset(x - 1) \in Block
      BY <2>3, <3>5, <3>6, Zenon DEF T
    <3> QED
      BY <2>5, <3>3, <3>5, <3>7, DoubleNotZero, Zenon
  <2>7. ASSUME NEW i \in 1 .. n, NEW j \in 1 .. n, i < j PROVE offsets[i] # offsets[j]
    <3> SUFFICES ASSUME offsets[i] = offsets[j] PROVE FALSE
      OBVIOUS
    <3> DEFINE m == j - i
               f == [k \in 0 .. m |-> offsets[i + k]]
               b == offsets[i]
    <3>1. m \in Nat /\ m \in 1 .. Whole /\ 0 \in 0 .. m /\ m \in 0 .. m /\ i + m = j
      BY <2>1, <2>2, <2>7 DEF n
    <3>2. \A k \in 1 .. m : /\ k - 1 \in 0 .. m /\ i + k \in 1 .. n /\ (i + k) - 1 \in 1 .. n
                            /\ (i + k) - 1 = i + (k - 1) /\ k # 0
      BY <2>2, <2>7
    <3>3. \A k \in 1 .. m : offsets[i + k] = RfcDouble(offsets[i + (k - 1)])
      <4> TAKE k \in 1 .. m
      <4>1. offsets[i + k] = double_block(offsets[(i + k) - 1])
        BY <2>2, <2>5, <3>2, Zenon
      <4>2. offsets[(i + k) - 1] \in Block
        BY <2>2, <3>2, ElementOfSeq DEF n
      <4>3. double_block(offsets[(i + k) - 1]) = RfcDouble(offsets[(i + k) - 1])
        BY <4>2, DoubleAsRfc, Zenon
      <4>4. (i + k) - 1 = i + (k - 1)
        BY <3>2
      <4> QED
        BY <4>1, <4>3, <4>4, Zenon
    <3> HIDE DEF m
    <3>4. f = [k \in 0 .. m |-> IF k = 0 THEN b ELSE RfcDouble(f[k - 1])]
      <4>1. \A k \in 0 .. m : f[k] = offsets[i + k]
        BY Zenon
      <4>2. \A k \in 0 .. m : f[k] = IF k = 0 THEN b ELSE RfcDouble(f[k - 1])
        <5> TAKE k \in 0 .. m
        <5>1. CASE k = 0
          <6>1. i + k = i
            BY <5>1
          <6> QED
            BY <4>1, <5>1, <6>1, Zenon
        <5>2. CASE k # 0
          <6>1. k \in 1 .. m
            BY <3>1, <5>2
          <6>2. f[k - 1] = offsets[i + (k - 1)]
            BY <3>2, <4>1, <6>1, Zenon
          <6> HIDE DEF f
          <6> QED
            BY <3>3, <4>1, <5>2, <6>1, <6>2, Zenon
        <5> QED
          BY <5>1, <5>2
      <4>3. f = [k \in 0 .. m |-> f[k]]
        BY Zenon
      <4> HIDE DEF f, b
      <4> QED
        BY <4>2, <4>3, Zenon
    <3>5. f[m] = b
      BY <3>1
    <3> HIDE DEF f
    <3>6. RfcDoubled(b, m) = b
      <4> HIDE DEF b
      <4> QED
        BY <3>1, <3>4, <3>5, DoubledIs
    <3>7. b \in Block \ {zero_block}
      <4>1. i \in 0 .. n
        BY <2>2
      <4> QED
        BY <2>3, <2>5, <2>6, <4>1, Zenon
    <3>8. m \in UNION {1 .. Len(l.text.blocks) : l \in Jobs}
      BY <1>1, <3>1, Zenon DEF Whole
    <3> HIDE DEF b
    <3> QED
      BY <3>6, <3>7, <3>8, FieldAssumption, Zenon
  <2>8. \A i \in 1 .. n : offsets[i] # zero_block
    <3>1. \A i \in 1 .. n : i \in 0 .. n
      BY <2>2
    <3> QED
      BY <2>5, <2>6, <3>1, Zenon
  <2>9. \A i, j \in 1 .. n : i # j => offsets[i] # offsets[j]
    <3> TAKE i, j \in 1 .. n
    <3>1. i # j => i < j \/ j < i
      BY <2>2
    <3> QED
      BY <2>7, <3>1, Zenon
  <2> QED
    BY <2>2, <2>8, <2>9, Zenon
<1> QED
  BY <1>2, <1>3, <1>4, Zenon

\* No packet uses an offset twice, or none at all, unless the nonce enciphers to
\* zero.
THEOREM Ocb2OffsetsDistinct == OcbSpec => []OffsetsDistinct
<1>1. OcbInit => OffsetsInv
  <2> SUFFICES ASSUME OcbInit PROVE OffsetsInv
    OBVIOUS
  <2>1. OcbInv /\ offsets = <<>> /\ job \in Jobs
    BY OcbInitInv DEF OcbInit
  <2>2. Whole \in Nat
    BY <2>1, JobParts, LenProperties, Zenon DEF Whole
  <2>3. Len(offsets) <= Whole + 1
    BY <2>1, <2>2
  <2> QED
    BY <2>1, <2>3, Zenon DEF OffsetsInv
<1> QED
  BY <1>1, OffsetsNextInv, OffsetsDiffer, PTL DEF OcbSpec
===============================================================================
