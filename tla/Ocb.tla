---------------------------------- MODULE Ocb ----------------------------------
(***************************************************************************)
(* lib/mumble/ocb_aes.c: the voice packets' cipher.  The client uses OCB2  *)
(* (a peer that decrypts does it with the same code); OCB3 is encrypting   *)
(* only, and ocb3_aes_decrypt is empty.                                    *)
(*                                                                         *)
(* A byte is the set of its bits, so xor is symmetric difference.  Its     *)
(* width and the block's are parameters: what the loops do at the borders  *)
(* of bytes and blocks does not depend on 8 and 16.  A text is its whole   *)
(* blocks and the tail behind them.                                        *)
(***************************************************************************)
EXTENDS Integers, Sequences

CONSTANTS
  ByteBits,    \* 8
  BlockBytes,  \* AES_BLOCK_SIZE, 16
  IvBytes,     \* AES_IV_SIZE, 12: the bytes of the nonce that OCB3 uses
  LowBits,     \* 6: the bits of an OCB3 nonce that choose a shift
  Poly,        \* 0x87, what doubling folds the carry into
  Keys,
  Cipher,      \* AES: a permutation of the blocks for every key.  External.
  Jobs         \* the calls made

Byte  == SUBSET (0 .. ByteBits - 1)
Block == [1 .. BlockBytes -> Byte]
Text  == [blocks : Seq(Block), tail : UNION {[1 .. n -> Byte] : n \in 0 .. BlockBytes - 1}]

ASSUME OcbAssumption ==
  /\ ByteBits \in Nat \ {0} /\ BlockBytes \in Nat \ {0, 1}
  /\ IvBytes \in 1 .. BlockBytes - 1
  /\ LowBits \in 1 .. ByteBits
  /\ Poly \in Byte
  /\ Cipher \in [Keys -> [Block -> Block]]
  /\ \A k \in Keys : \A a, b \in Block : Cipher[k][a] = Cipher[k][b] => a = b
  /\ \A k \in Keys : \A b \in Block : \E a \in Block : Cipher[k][a] = b
  /\ \A j \in Jobs : /\ j.mode \in {"ocb2", "ocb3"} /\ j.key \in Keys /\ j.iv \in Block
                     /\ j.text \in Text /\ j.plain \in Text

-------------------------------------------------------------------------------
(* Blocks. *)
ByteOf(n) == {b \in 0 .. ByteBits - 1 : (n \div 2^b) % 2 = 1}
NumOf(B)  == CHOOSE n \in 0 .. 2^ByteBits - 1 : ByteOf(n) = B

zero_block == [k \in 1 .. BlockBytes |-> {}]

aes_encrypt(key, block) == Cipher[key][block]
aes_decrypt(key, block) == CHOOSE b \in Block : Cipher[key][b] = block

xor_block_ex(a, b, n) == [k \in 1 .. n |-> (a[k] \ b[k]) \cup (b[k] \ a[k])]
xor_block(a, b) == xor_block_ex(a, b, BlockBytes)

Up(B, s) == {b + s : b \in {c \in B : c + s < ByteBits}}
Down(B, s) == {b - s : b \in {c \in B : c >= s}}

\* Faulty variant: the next byte's bits are not brought in.
ShiftNoBackfill(in, inl, bits) ==
  [k \in 1 .. inl |->
     LET index == k + (bits \div ByteBits)
     IN  IF index <= inl THEN Up(in[index], bits % ByteBits) ELSE {}]
left_shift(in, inl, bits) ==
  [k \in 1 .. inl |->
     LET index == k + (bits \div ByteBits)
         shift == bits % ByteBits
     IN  (IF index <= inl THEN Up(in[index], shift) ELSE {})
           \cup (IF index + 1 <= inl THEN Down(in[index + 1], ByteBits - shift) ELSE {})]

\* Faulty variant: the carry is dropped.
DoubleNoCarry(in) == left_shift(in, BlockBytes, 1)
double_block(in) ==
  LET out == left_shift(in, BlockBytes, 1)
  IN  IF ByteBits - 1 \in in[1]
        THEN [out EXCEPT ![BlockBytes] = (@ \ Poly) \cup (Poly \ @)]
        ELSE out

triple_block(in) == xor_block(in, double_block(in))

\* "Find log base 2 of i", and 0 for 0: not the trailing zeros its name means.
ntz(i) == IF i = 0 THEN 0 ELSE CHOOSE n \in 0 .. 31 : 2^n <= i /\ i < 2^(n + 1)

-------------------------------------------------------------------------------
(* OCB2.  Both directions end in ocb2_encrypt_block_final.                  *)
ocb2_encrypt_block(key, in, delta) ==
  LET delta_new == double_block(delta)
  IN  xor_block(aes_encrypt(key, xor_block(delta_new, in)), delta_new)

\* Faulty variant: the offset of the block before.
DecryptStale(key, in, delta) == xor_block(aes_decrypt(key, xor_block(delta, in)), delta)
ocb2_decrypt_block(key, in, delta) ==
  LET delta_new == double_block(delta)
  IN  xor_block(aes_decrypt(key, xor_block(delta_new, in)), delta_new)

\* The tail is hidden under a pad, and goes into the checksum as it comes in,
\* also when it comes in encrypted.
ocb2_encrypt_block_final(key, in, delta, checksum) ==
  LET n == Len(in)
      delta_new == double_block(delta)
      size == [zero_block EXCEPT ![BlockBytes] = ByteOf(n * ByteBits)]
      pad == aes_encrypt(key, xor_block(size, delta_new))
      tmp == [k \in 1 .. BlockBytes |-> IF k <= n THEN in[k] ELSE pad[k]]
  IN  [out |-> xor_block_ex(in, pad, n),
       tag |-> aes_encrypt(key, xor_block(triple_block(delta_new), xor_block(tmp, checksum)))]

-------------------------------------------------------------------------------
(* OCB3. *)
nonce_init(iv) ==
  [k \in 1 .. BlockBytes |-> LET n == k - (BlockBytes - IvBytes)
                             IN  IF n > 0 THEN iv[n] ELSE IF n = 0 THEN {0} ELSE {}]

ktop_init(key, nonce) ==
  aes_encrypt(key, [nonce EXCEPT ![BlockBytes] = @ \ (0 .. LowBits - 1)])

StretchBytes == BlockBytes + (BlockBytes \div 2)
stretch_init(ktop) ==
  [k \in 1 .. StretchBytes |->
     IF k <= BlockBytes THEN ktop[k]
       ELSE xor_block_ex(ktop, Tail(ktop), BlockBytes \div 2)[k - BlockBytes]]

\* The shift takes one bit less of the nonce than ktop_init clears.
offset_init(key, iv) ==
  LET nonce  == nonce_init(iv)
      bottom == NumOf(nonce[BlockBytes] \cap (0 .. LowBits - 2))
  IN  SubSeq(left_shift(stretch_init(ktop_init(key, nonce)), StretchBytes, bottom), 1, BlockBytes)

keyvar_init(key) == double_block(double_block(aes_encrypt(key, zero_block)))

\* The test both loops make before a block, of its index and the one before.
Bumped(keyvar, index, before) ==
  IF ntz(index) > ntz(before) THEN double_block(keyvar) ELSE keyvar

Padded(in) ==
  [k \in 1 .. BlockBytes |-> IF k <= Len(in) THEN in[k]
                               ELSE IF k = Len(in) + 1 THEN {ByteBits - 1} ELSE {}]

ocb3_hash_block(key, block, h) ==
  LET offset == xor_block(h.offset, h.keyvar)
  IN  [h EXCEPT !.offset = offset,
                !.sum = xor_block(aes_encrypt(key, xor_block(block, offset)), @)]

\* Its index counts bytes; for the tail it is passed the start of the plaintext.
ocb3_hash_plaintext(key, plain) ==
  LET start == [sum |-> zero_block, offset |-> zero_block, keyvar |-> keyvar_init(key)]
      upTo[n \in 0 .. Len(plain.blocks)] ==
        IF n = 0 THEN start
          ELSE LET i == (n - 1) * BlockBytes
                   before == IF n = 1 THEN 0 ELSE i - BlockBytes
               IN  ocb3_hash_block(key, plain.blocks[n],
                                   [upTo[n - 1] EXCEPT !.keyvar = Bumped(@, i, before)])
      whole == upTo[Len(plain.blocks)]
      size  == Len(plain.tail)
      first == IF plain.blocks = <<>> THEN plain.tail ELSE SubSeq(plain.blocks[1], 1, size)
  IN  IF size = 0 THEN whole.sum
        ELSE ocb3_hash_block(key, Padded(first),
                             [whole EXCEPT !.keyvar = aes_encrypt(key, zero_block)]).sum

ocb3_compute_tag(key, checksum, offset, plain) ==
  LET keyvar == double_block(aes_encrypt(key, zero_block))
  IN  xor_block(ocb3_hash_plaintext(key, plain),
                aes_encrypt(key, xor_block(xor_block(checksum, offset), keyvar)))

ocb3_encrypt_block_final(key, in, offset, checksum, plain) ==
  LET offset_next == xor_block(aes_encrypt(key, zero_block), offset)
      pad == aes_encrypt(key, offset_next)
  IN  IF in = <<>>
        THEN [out |-> <<>>, tag |-> ocb3_compute_tag(key, checksum, offset, plain)]
        ELSE [out |-> xor_block_ex(pad, in, Len(in)),
              tag |-> ocb3_compute_tag(key, xor_block(checksum, Padded(in)), offset_next, plain)]

-------------------------------------------------------------------------------
VARIABLES
  job,       \* the call's arguments
  phase,     \* "encrypt", "decrypt" (by a peer, what was encrypted), "done"
  done,      \* blocks of the running loop that are behind it
  delta,     \* OCB2's delta, OCB3's offset
  keyvar,    \* OCB3 only
  checksum,
  out,       \* blocks and tail put out
  tag,
  sent,      \* what the encryption put out, with its tag
  offsets    \* history: OCB2's deltas when encrypting

ocbVars == <<job, phase, done, delta, keyvar, checksum, out, tag, sent, offsets>>

Empty == [blocks |-> <<>>, tail |-> <<>>]

\* The first lines of ocb2_aes_encrypt and ocb3_aes_encrypt.
OcbInit ==
  /\ job \in Jobs
  /\ phase = "encrypt" /\ done = 0
  /\ delta = IF job.mode = "ocb2" THEN aes_encrypt(job.key, job.iv) ELSE offset_init(job.key, job.iv)
  /\ keyvar = IF job.mode = "ocb2" THEN zero_block ELSE keyvar_init(job.key)
  /\ checksum = zero_block /\ out = Empty /\ tag = zero_block
  /\ sent = [text |-> Empty, tag |-> zero_block] /\ offsets = <<>>

Ocb2EncryptBlock ==
  /\ phase = "encrypt" /\ job.mode = "ocb2" /\ done < Len(job.text.blocks)
  /\ LET in == job.text.blocks[done + 1]
     IN  /\ out' = [out EXCEPT !.blocks = Append(@, ocb2_encrypt_block(job.key, in, delta))]
         /\ checksum' = xor_block(checksum, in)
  /\ delta' = double_block(delta) /\ offsets' = Append(offsets, delta')
  /\ done' = done + 1
  /\ UNCHANGED <<job, phase, keyvar, tag, sent>>

\* The end of ocb2_aes_encrypt; a peer with the same nonce starts to decrypt.
Ocb2EncryptFinal ==
  /\ phase = "encrypt" /\ job.mode = "ocb2" /\ done = Len(job.text.blocks)
  /\ LET final == ocb2_encrypt_block_final(job.key, job.text.tail, delta, checksum)
     IN  sent' = [text |-> [out EXCEPT !.tail = final.out], tag |-> final.tag]
  /\ offsets' = Append(offsets, double_block(delta))
  /\ phase' = "decrypt" /\ done' = 0 /\ out' = Empty
  /\ delta' = aes_encrypt(job.key, job.iv) /\ checksum' = zero_block
  /\ UNCHANGED <<job, keyvar, tag>>

Ocb2DecryptBlock ==
  /\ phase = "decrypt" /\ done < Len(sent.text.blocks)
  /\ LET plain == ocb2_decrypt_block(job.key, sent.text.blocks[done + 1], delta)
     IN  /\ out' = [out EXCEPT !.blocks = Append(@, plain)]
         /\ checksum' = xor_block(checksum, plain)
  /\ delta' = double_block(delta)
  /\ done' = done + 1
  /\ UNCHANGED <<job, phase, keyvar, tag, sent, offsets>>

Ocb2DecryptFinal ==
  /\ phase = "decrypt" /\ done = Len(sent.text.blocks)
  /\ LET final == ocb2_encrypt_block_final(job.key, sent.text.tail, delta, checksum)
     IN  out' = [out EXCEPT !.tail = final.out] /\ tag' = final.tag
  /\ phase' = "done"
  /\ UNCHANGED <<job, done, delta, keyvar, checksum, sent, offsets>>

Ocb3EncryptBlock ==
  /\ phase = "encrypt" /\ job.mode = "ocb3" /\ done < Len(job.text.blocks)
  /\ LET in == job.text.blocks[done + 1]
     IN  /\ keyvar' = Bumped(keyvar, done, IF done = 0 THEN 0 ELSE done - 1)
         /\ delta' = xor_block(delta, keyvar')
         /\ out' = [out EXCEPT !.blocks =
                      Append(@, xor_block(delta', aes_encrypt(job.key, xor_block(in, delta'))))]
         /\ checksum' = xor_block(checksum, in)
  /\ done' = done + 1
  /\ UNCHANGED <<job, phase, tag, sent, offsets>>

Ocb3EncryptFinal ==
  /\ phase = "encrypt" /\ job.mode = "ocb3" /\ done = Len(job.text.blocks)
  /\ LET final == ocb3_encrypt_block_final(job.key, job.text.tail, delta, checksum, job.plain)
     IN  /\ out' = [out EXCEPT !.tail = final.out] /\ tag' = final.tag
         /\ sent' = [text |-> out', tag |-> tag']
  /\ phase' = "done"
  /\ UNCHANGED <<job, done, delta, keyvar, checksum, offsets>>

OcbRest == phase = "done" /\ UNCHANGED ocbVars

OcbNext ==
  \/ Ocb2EncryptBlock \/ Ocb2EncryptFinal \/ Ocb2DecryptBlock \/ Ocb2DecryptFinal
  \/ Ocb3EncryptBlock \/ Ocb3EncryptFinal \/ OcbRest

OcbSpec == OcbInit /\ [][OcbNext]_ocbVars

-------------------------------------------------------------------------------
\* ocb2_aes_decrypt gives back every text ocb2_aes_encrypt was given, whole
\* blocks and tail.
RoundTrip == phase = "done" /\ job.mode = "ocb2" => out = job.text

\* For a text of whole blocks the tag ocb2_aes_decrypt computes is the one
\* ocb2_aes_encrypt computed: the two loops sum up the same blocks and end at
\* the same offset.
TagsMeet ==
  phase = "done" /\ job.mode = "ocb2" /\ job.text.tail = <<>> => tag = sent.tag

\* The tag of ocb2_aes_decrypt is the encryption's for every text, as test_ocb2_dec2
\* compares them for one of two blocks and a half (ocb_aes_test.c:318).
TagsAgree == phase = "done" /\ job.mode = "ocb2" => tag = sent.tag

\* double_block never brings the offset of one block of a packet back at
\* another, and never to zero, where the block would be enciphered as it is.
OffsetsDistinct ==
  aes_encrypt(job.key, job.iv) # zero_block =>
    /\ \A i \in DOMAIN offsets : offsets[i] # zero_block
    /\ \A i, j \in DOMAIN offsets : i # j => offsets[i] # offsets[j]

-------------------------------------------------------------------------------
(* RFC 7253, section 4.2, on strings of bits. *)
Bit(s, p) == (ByteBits - 1) - ((p - 1) % ByteBits) \in s[((p - 1) \div ByteBits) + 1]
FromBits(P(_)) ==
  [k \in 1 .. BlockBytes |-> {b \in 0 .. ByteBits - 1 : P(k * ByteBits - b)}]

RfcDouble(s) ==
  LET last == BlockBytes * ByteBits
  IN  FromBits(LAMBDA p : (p < last /\ Bit(s, p + 1)) # (last - p \in Poly /\ Bit(s, 1)))

RfcDoubled(s, n) ==
  LET d[k \in 0 .. n] == IF k = 0 THEN s ELSE RfcDouble(d[k - 1])
  IN  d[n]

RfcL(key, n) == RfcDoubled(RfcDouble(RfcDouble(Cipher[key][zero_block])), n)

RfcNtz(i) == CHOOSE n \in 0 .. i : i % 2^n = 0 /\ i % 2^(n + 1) # 0

RfcOffsets(key, first, n) ==
  LET offset[k \in 0 .. n] == IF k = 0 THEN first ELSE xor_block(offset[k - 1], RfcL(key, RfcNtz(k)))
  IN  offset

\* in || 1 || zeros
RfcPad(in) ==
  LET size == Len(in) * ByteBits
  IN  FromBits(LAMBDA p : IF p <= size THEN Bit(in, p) ELSE p = size + 1)

RfcHash(key, A) ==
  LET m == Len(A.blocks)
      offset == RfcOffsets(key, zero_block, m)
      sum[k \in 0 .. m] ==
        IF k = 0 THEN zero_block
          ELSE xor_block(sum[k - 1], Cipher[key][xor_block(A.blocks[k], offset[k])])
      last == xor_block(offset[m], Cipher[key][zero_block])
  IN  IF A.tail = <<>> THEN sum[m]
        ELSE xor_block(sum[m], Cipher[key][xor_block(RfcPad(A.tail), last)])

\* Bit p of num2str(TAGLEN mod 128, 7) || zeros || 1 || N: a tag is a block, and
\* the number 0.
RfcNonce(N, p) ==
  LET before == (BlockBytes - IvBytes) * ByteBits
  IN  IF p <= before THEN p = before ELSE Bit(N, p - before)

\* The last LowBits bits of the nonce choose the shift, the others make Ktop.
RfcFirst(key, N) ==
  LET bits   == BlockBytes * ByteBits
      bottom == NumOf({b \in 0 .. LowBits - 1 : RfcNonce(N, bits - b)})
      ktop   == Cipher[key][FromBits(LAMBDA p : p <= bits - LowBits /\ RfcNonce(N, p))]
      Stretch(p) == IF p <= bits THEN Bit(ktop, p)
                      ELSE Bit(ktop, p - bits) # Bit(ktop, (p - bits) + ByteBits)
  IN  FromBits(LAMBDA p : Stretch(p + bottom))

RfcEncrypt(key, N, A, P) ==
  LET m      == Len(P.blocks)
      offset == RfcOffsets(key, RfcFirst(key, N), m)
      star   == IF P.tail = <<>> THEN offset[m] ELSE xor_block(offset[m], Cipher[key][zero_block])
      sum[k \in 0 .. m] == IF k = 0 THEN zero_block ELSE xor_block(sum[k - 1], P.blocks[k])
      all    == IF P.tail = <<>> THEN sum[m] ELSE xor_block(sum[m], RfcPad(P.tail))
  IN  [text |-> [blocks |-> [k \in 1 .. m |->
                   xor_block(offset[k], Cipher[key][xor_block(P.blocks[k], offset[k])])],
                 tail |-> xor_block_ex(P.tail, Cipher[key][star], Len(P.tail))],
       tag |-> xor_block(Cipher[key][xor_block(xor_block(all, star),
                                               RfcDouble(Cipher[key][zero_block]))],
                         RfcHash(key, A))]

\* The polynomial's x is invertible, and no packet has as many blocks as its
\* order (2^128 - 1 in the code: the polynomial of 0x87 is primitive).
ASSUME FieldAssumption ==
  /\ 0 \in Poly
  /\ \A n \in UNION {1 .. Len(j.text.blocks) : j \in Jobs} :
       \A b \in Block \ {zero_block} : RfcDoubled(b, n) # b

\* No shift a nonce chooses (31 bits at most in the code) runs off the stretch,
\* and the size of a block is an int.
ASSUME StretchAssumption ==
  /\ \A B \in SUBSET (0 .. LowBits - 2) : NumOf(B) \in 0 .. (BlockBytes \div 2) * ByteBits
  /\ BlockBytes < 2^30

\* Where the code follows the RFC: one whole block of text at most (ntz gives
\* the second block the offset of the first), associated data of less than a
\* block or of one or two whole ones, and a clear bit in the nonce's last byte.
InRfcRange(j) ==
  /\ Len(j.text.blocks) <= 1
  /\ j.plain.blocks = <<>> \/ (Len(j.plain.blocks) <= 2 /\ j.plain.tail = <<>>)
  /\ LowBits - 1 \notin j.iv[IvBytes]

\* ocb3_aes_encrypt computes the ciphertext and the tag of RFC 7253 for every
\* call in that range.
Ocb3AsInRfc ==
  phase = "done" /\ job.mode = "ocb3" /\ InRfcRange(job) =>
    sent = RfcEncrypt(job.key, job.iv, job.plain, job.text)
===============================================================================
