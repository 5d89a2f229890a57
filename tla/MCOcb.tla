--------------------------------- MODULE MCOcb ---------------------------------
(* Bytes of three bits and blocks of two bytes, for TLC: 64 blocks, doubled    *)
(* in the field of x^6 + x + 1.                                                *)
EXTENDS Ocb

SmallByte  == SUBSET (0 .. 2)
SmallBlock == [1 .. 2 -> SmallByte]

Weight(B) == (IF 0 \in B THEN 1 ELSE 0) + (IF 1 \in B THEN 2 ELSE 0) + (IF 2 \in B THEN 4 ELSE 0)
ToNum(b)  == 8 * Weight(b[1]) + Weight(b[2])
ToByte(n) == {k \in 0 .. 2 : (n \div 2^k) % 2 = 1}
ToBlock(n) == <<ToByte(n \div 8), ToByte(n % 8)>>

\* x(2x + 1) is a permutation of the numbers below 2^w; the halves are swapped
\* so that high bits reach low ones.
Mix(n)  == LET m == (n * (2 * n + 1)) % 64 IN 8 * (m % 8) + m \div 8
Aes(k)  == [b \in SmallBlock |-> ToBlock(Mix((Mix((ToNum(b) + k) % 64) + 5 * k) % 64))]
SmallCipher == [k \in {1, 2} |-> Aes(k)]

TextOf(blocks, tail) == [blocks |-> blocks, tail |-> tail]
Nothing == TextOf(<<>>, <<>>)
Counting(n, seed) == [k \in 1 .. n |-> ToBlock((seed * k * k + 11 * k) % 64)]
Tails == {<<>>, <<{}>>, <<{0, 2}>>}

Ocb2Jobs == {[mode |-> "ocb2", key |-> k, iv |-> ToBlock(v), text |-> TextOf(Counting(n, s), t),
              plain |-> Nothing] : k \in {1, 2}, v \in 0 .. 63, n \in {0, 1, 2, 3, 8},
                                   s \in {1, 6}, t \in Tails}
Ocb3Jobs == {[mode |-> "ocb3", key |-> k, iv |-> ToBlock(8 * v), text |-> TextOf(Counting(n, 1), t),
              plain |-> TextOf(Counting(a, 6), u)] :
                k \in {1, 2}, v \in 0 .. 7, n \in 0 .. 3, t \in Tails, a \in 0 .. 3, u \in Tails}
\* The shape of test_ocb2_dec2: two blocks and half a one.
HalfJobs == {j \in Ocb2Jobs : Len(j.text.blocks) = 2 /\ j.text.tail # <<>>}
AllJobs == Ocb2Jobs \cup Ocb3Jobs
===============================================================================
