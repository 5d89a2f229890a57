----------------------------- MODULE UdpSslProofs -----------------------------
(***************************************************************************)
(* For nonces of every length and base, every number of keys, datagrams    *)
(* and writes, and every fault of the network: the types, that a pool of   *)
(* two buffers is never empty when a buffer is asked for, and that the     *)
(* nonces of both directions count what was received and sent.             *)
(***************************************************************************)
EXTENDS UdpSsl, FiniteSetTheorems, WellFoundedInduction, TLAPS

Cipher   == [key : 0 .. MaxSetups, enc_iv : Iv, dec_iv : Iv]
Datagram == [key : {-1} \cup 1 .. MaxSetups, n : 0 .. MaxSent,
             kind : {"ping", "voice", "stray", "scrap"}]

\* The receive loop holds one buffer from alloc_cb to the tail of recv_cb, and
\* none outside; while the process runs nobody else keeps one between steps.
\* Buffers are given back in the opposite order of their acquiring.
OneBufferAtMost ==
  Running =>
    IF at \in {"recv", "cb"} THEN pool.in_use = 1 /\ buf = pool.buffers[0]
                             ELSE pool.in_use = 0 /\ buf = -1

UdpInv == UdpTypeOK /\ OneBufferAtMost /\ UdpPoolSuffices

USE DEF BP!Pool, BP!Buf

-------------------------------------------------------------------------------
\* The pool of buffer_pool_init.
LEMMA PoolStart ==
  /\ BP!buffer_pool_init \in BP!Pool
  /\ BP!buffer_pool_init.in_use = 0
BY UdpAssumption DEF BP!buffer_pool_init

\* Acquiring takes the entry at in_use and leaves the array.
LEMMA AcquireTakes ==
  ASSUME NEW p \in BP!Pool, p.in_use < N
  PROVE  /\ BP!CanAcquire(p)
         /\ BP!buffer_pool_acquire(p) \in BP!Pool
         /\ BP!buffer_pool_acquire(p).in_use = p.in_use + 1
         /\ BP!buffer_pool_acquire(p).buffers = p.buffers
         /\ BP!Acquired(p) = p.buffers[p.in_use]
         /\ BP!Acquired(p) \in 0 .. N - 1
<1>1. p.in_use \in 0 .. N /\ N \in Nat /\ p.buffers \in [0 .. N - 1 -> 0 .. N - 1]
  BY UdpAssumption
<1>2. BP!CanAcquire(p)
  BY DEF BP!CanAcquire
<1>3. BP!buffer_pool_acquire(p) = [p EXCEPT !.in_use = p.in_use + 1]
  BY <1>2 DEF BP!buffer_pool_acquire
<1>4. BP!Acquired(p) = p.buffers[p.in_use]
  BY <1>2 DEF BP!Acquired
<1>5. p.in_use \in 0 .. N - 1
  BY <1>1
<1> QED
  BY <1>1, <1>2, <1>3, <1>4, <1>5

\* Releasing what was acquired last only shrinks the prefix.
LEMMA ReleaseLast ==
  ASSUME NEW p \in BP!Pool, p.in_use > 0, NEW b, b = p.buffers[p.in_use - 1]
  PROVE  /\ BP!buffer_pool_release(p, b) \in BP!Pool
         /\ BP!buffer_pool_release(p, b).in_use = p.in_use - 1
         /\ BP!buffer_pool_release(p, b).buffers = p.buffers
<1> DEFINE i == BP!IndexOf(p, b)
           last == p.in_use - 1
<1>1. /\ p.in_use \in 0 .. N /\ N \in Nat /\ p.buffers \in [0 .. N - 1 -> 0 .. N - 1]
      /\ last \in 0 .. N - 1 /\ last \in 0 .. N
  BY UdpAssumption, SMTT(60)
<1>2. i \in 0 .. N - 1 /\ p.buffers[i] = b
  BY <1>1 DEF BP!IndexOf
<1>3. BP!buffer_pool_release(p, b) = [buffers |-> BP!SwapOut(p, b), in_use |-> last]
  BY <1>1 DEF BP!buffer_pool_release
<1>4. BP!SwapOut(p, b) = [[p.buffers EXCEPT ![i] = p.buffers[last]] EXCEPT ![last] = b]
  BY DEF BP!SwapOut
<1> HIDE DEF i
<1>5. BP!SwapOut(p, b) = p.buffers
  BY <1>1, <1>2, <1>4
<1> QED
  BY <1>1, <1>3, <1>5

\* increment_iv yields a nonce.
LEMMA IncrementType ==
  ASSUME NEW iv \in Iv
  PROVE  increment_iv(iv) \in Iv
<1>1. ASSUME NEW a \in 0 .. Base - 1 PROVE (a + 1) % Base \in 0 .. Base - 1
  BY UdpAssumption
<1> QED
  BY <1>1 DEF Iv, increment_iv

-------------------------------------------------------------------------------
\* The parts of the invariant that the connection, the network and the two
\* histories answer for.
ConnOK ==
  /\ cipher \in Cipher /\ pool \in BP!Pool /\ buf \in BP!Buf \cup {-1}
  /\ at \in {"idle", "alloc", "recv", "cb"}
NetworkOK ==
  /\ server \in [key : 0 .. MaxSetups, sent : 0 .. MaxSent]
  /\ setup \in 0 .. MaxSetups /\ heard \in 0 .. MaxSetups
  /\ flying \subseteq Datagram
ReceivedOK == got \in 0 .. MaxSent /\ inStep \in BOOLEAN /\ garbled \in BOOLEAN
SentOK == sent \subseteq Iv /\ reused \in BOOLEAN
Outcomes == {"no", "no_buffer", "try_send", "uv_udp_ssl.c:34", "audio_decoder.c:18",
             "audio_decoder.c"}

\* The type invariant is the conjunction of these parts, before and after a step.
LEMMA TypeParts ==
  /\ UdpTypeOK <=> ConnOK /\ NetworkOK /\ ReceivedOK /\ SentOK /\ aborted \in Outcomes
  /\ UdpTypeOK' <=> ConnOK' /\ NetworkOK' /\ ReceivedOK' /\ SentOK' /\ aborted' \in Outcomes
BY DEF UdpTypeOK, ConnOK, NetworkOK, ReceivedOK, SentOK, Outcomes, Cipher, Datagram

\* What a step leaves alone stays typed.
LEMMA PartsKept ==
  /\ ConnOK /\ UNCHANGED connVars => ConnOK'
  /\ NetworkOK /\ UNCHANGED networkVars => NetworkOK'
  /\ ReceivedOK /\ UNCHANGED receivedVars => ReceivedOK'
  /\ SentOK /\ UNCHANGED sentVars => SentOK'
BY DEF ConnOK, NetworkOK, ReceivedOK, SentOK, connVars, networkVars, receivedVars, sentVars

\* uv_udp_ssl_init
LEMMA UdpInitInv == UdpInit => UdpInv
<1> SUFFICES ASSUME UdpInit PROVE UdpInv
  OBVIOUS
<1>1. ConnOK /\ pool.in_use = 0
  <2>1. [i \in 1 .. IvLen |-> 0] \in Iv
    BY UdpAssumption DEF Iv
  <2>2. cipher \in Cipher
    BY <2>1, UdpAssumption DEF UdpInit, Cipher
  <2> QED
    BY <2>2, PoolStart DEF UdpInit, ConnOK
<1>2. NetworkOK
  BY UdpAssumption DEF UdpInit, NetworkOK
<1>3. ReceivedOK /\ SentOK
  <2>1. inStep \in BOOLEAN /\ garbled \in BOOLEAN /\ reused \in BOOLEAN
    BY Zenon DEF UdpInit
  <2> QED
    BY <2>1, UdpAssumption DEF UdpInit, ReceivedOK, SentOK
<1>4. UdpTypeOK
  BY <1>1, <1>2, <1>3, TypeParts DEF UdpInit, Outcomes
<1> QED
  BY <1>1, <1>4 DEF UdpInit, UdpInv, OneBufferAtMost, UdpPoolSuffices

\* Steps of the server and the network.
LEMMA NetworkInv ==
  ASSUME UdpInv,
         \/ ServerRekeys
         \/ \E kind \in {"ping", "voice"} : ServerSends(kind)
         \/ \E kind \in {"stray", "scrap"} : Stray(kind)
         \/ \E d \in flying : Lose(d)
  PROVE  UdpInv'
<1>1. UNCHANGED <<connVars, receivedVars, sentVars, aborted>>
  BY DEF ServerRekeys, ServerSends, Stray, Lose
<1>2. ConnOK' /\ ReceivedOK' /\ SentOK' /\ aborted' \in Outcomes
  BY <1>1, TypeParts, PartsKept DEF UdpInv
<1>3. NetworkOK /\ MaxSetups \in Nat /\ MaxSent \in Nat
  BY TypeParts, UdpAssumption DEF UdpInv
<1>4. NetworkOK'
  <2>1. CASE ServerRekeys
    BY <1>3, <2>1 DEF ServerRekeys, NetworkOK
  <2>2. ASSUME NEW kind \in {"ping", "voice"}, ServerSends(kind) PROVE NetworkOK'
    <3>1. server.key \in 1 .. MaxSetups /\ server.sent + 1 \in 1 .. MaxSent
          /\ server' = [server EXCEPT !.sent = server.sent + 1]
      BY <1>3, <2>2 DEF ServerSends, NetworkOK
    <3>2. server' \in [key : 0 .. MaxSetups, sent : 0 .. MaxSent]
      BY <1>3, <3>1 DEF NetworkOK
    <3>3. [key |-> server.key, n |-> server.sent + 1, kind |-> kind] \in Datagram
      BY <3>1 DEF Datagram
    <3>4. flying' \subseteq Datagram /\ setup' = setup /\ heard' = heard
      BY <1>3, <2>2, <3>3 DEF ServerSends, NetworkOK
    <3> QED
      BY <1>3, <3>2, <3>4 DEF NetworkOK
  <2>3. ASSUME NEW d \in flying, Lose(d) PROVE NetworkOK'
    BY <1>3, <2>3 DEF Lose, NetworkOK
  <2>4. ASSUME NEW kind \in {"stray", "scrap"}, Stray(kind) PROVE NetworkOK'
    <3>1. [key |-> -1, n |-> 0, kind |-> kind] \in Datagram
      BY <1>3 DEF Datagram
    <3> QED
      BY <1>3, <2>4, <3>1 DEF Stray, NetworkOK
  <2> QED
    BY <2>1, <2>2, <2>3, <2>4
<1>5. UdpTypeOK'
  BY <1>2, <1>4, TypeParts
<1>6. OneBufferAtMost' /\ UdpPoolSuffices'
  BY <1>1 DEF UdpInv, OneBufferAtMost, UdpPoolSuffices, Running, connVars
<1> QED
  BY <1>5, <1>6 DEF UdpInv

\* uv_udp_ssl_set_encryption
LEMMA SetEncryptionInv == UdpInv /\ uv_udp_ssl_set_encryption => UdpInv'
<1> SUFFICES ASSUME UdpInv, uv_udp_ssl_set_encryption PROVE UdpInv'
  OBVIOUS
<1>1. /\ cipher' = [key |-> setup, enc_iv |-> EncNonce, dec_iv |-> DecNonce]
      /\ UNCHANGED <<pool, at, buf, server, heard, flying, garbled, reused, aborted>>
      /\ setup' = 0 /\ got' = 0 /\ inStep' = TRUE /\ sent' = {}
  BY DEF uv_udp_ssl_set_encryption, ocb_aes_set_keys
<1>2. ConnOK /\ NetworkOK /\ ReceivedOK /\ SentOK /\ aborted \in Outcomes
  BY TypeParts DEF UdpInv
<1>3. cipher' \in Cipher
  BY <1>1, <1>2, UdpAssumption DEF NetworkOK, Cipher
<1>4. ConnOK' /\ NetworkOK' /\ aborted' \in Outcomes
  BY <1>1, <1>2, <1>3, UdpAssumption DEF ConnOK, NetworkOK
<1>5. inStep' \in BOOLEAN
  BY <1>1, Zenon
<1>6. ReceivedOK' /\ SentOK'
  BY <1>1, <1>2, <1>5, UdpAssumption DEF ReceivedOK, SentOK
<1>7. OneBufferAtMost' /\ UdpPoolSuffices'
  BY <1>1 DEF UdpInv, OneBufferAtMost, UdpPoolSuffices, Running
<1> QED
  BY <1>4, <1>6, <1>7, TypeParts DEF UdpInv

\* uv_udp_ssl_decrypt and the callback.
LEMMA DecryptInv ==
  ASSUME UdpInv, NEW d \in flying, uv_udp_ssl_decrypt(d)
  PROVE  UdpInv'
<1> DEFINE ordered == inStep /\ d.key = cipher.key /\ d.n = got + 1
           next == [cipher EXCEPT !.dec_iv = increment_iv(cipher.dec_iv)]
<1>1. /\ at = "recv" /\ Running /\ flying' \subseteq flying /\ cipher' = next
      /\ got' = IF ordered THEN got + 1 ELSE 0
      /\ inStep' = ordered
      /\ garbled' = (garbled \/ (ordered /\ ~Decrypts(next, d)))
      /\ aborted' \in Reactions(d, Decrypts(next, d))
      /\ at' = "cb"
      /\ UNCHANGED <<pool, buf, server, setup, heard, sentVars>>
  BY DEF uv_udp_ssl_decrypt
<1>2. ConnOK /\ NetworkOK /\ ReceivedOK /\ SentOK /\ aborted \in Outcomes
  BY TypeParts DEF UdpInv
<1>3. cipher' \in Cipher
  BY <1>1, <1>2, IncrementType DEF ConnOK, Cipher
<1>4. ConnOK' /\ NetworkOK' /\ SentOK'
  BY <1>1, <1>2, <1>3, PartsKept DEF ConnOK, NetworkOK
<1>5. aborted' \in Outcomes /\ aborted' # "no_buffer"
  BY <1>1 DEF Reactions, Outcomes
<1>6. ReceivedOK'
  <2>1. inStep' \in BOOLEAN /\ garbled' \in BOOLEAN
    BY <1>1, <1>2, Zenon DEF ReceivedOK
  <2>2. d.n \in 0 .. MaxSent /\ MaxSent \in Nat /\ got \in 0 .. MaxSent
    BY <1>2, UdpAssumption DEF NetworkOK, Datagram, ReceivedOK
  <2>3. got' \in 0 .. MaxSent
    BY <1>1, <2>2
  <2> QED
    BY <2>1, <2>3 DEF ReceivedOK
<1>7. OneBufferAtMost' /\ UdpPoolSuffices'
  BY <1>1, <1>5 DEF UdpInv, OneBufferAtMost, UdpPoolSuffices, Running
<1> QED
  BY <1>4, <1>5, <1>6, <1>7, TypeParts DEF UdpInv

\* alloc_cb finds a buffer, because the loop holds none.
LEMMA AllocInv == UdpInv /\ alloc_cb => UdpInv'
<1> SUFFICES ASSUME UdpInv, alloc_cb PROVE UdpInv'
  OBVIOUS
<1>1. ConnOK /\ NetworkOK /\ ReceivedOK /\ SentOK /\ aborted \in Outcomes
  BY TypeParts DEF UdpInv
<1>2. Running /\ at = "alloc" /\ pool \in BP!Pool /\ pool.in_use = 0 /\ pool.in_use < N
  BY <1>1, UdpAssumption DEF alloc_cb, ConnOK, UdpInv, OneBufferAtMost
<1>3. /\ BP!CanAcquire(pool)
      /\ BP!buffer_pool_acquire(pool) \in BP!Pool
      /\ BP!buffer_pool_acquire(pool).in_use = 1
      /\ BP!buffer_pool_acquire(pool).buffers = pool.buffers
      /\ BP!Acquired(pool) = pool.buffers[0]
      /\ BP!Acquired(pool) \in 0 .. N - 1
  BY <1>2, AcquireTakes
<1>4. /\ pool' = BP!buffer_pool_acquire(pool) /\ buf' = BP!Acquired(pool) /\ at' = "recv"
      /\ UNCHANGED <<cipher, networkVars, receivedVars, sentVars, aborted>>
  BY <1>3 DEF alloc_cb
<1>5. ConnOK'
  BY <1>1, <1>3, <1>4 DEF ConnOK
<1>6. OneBufferAtMost'
  BY <1>3, <1>4 DEF OneBufferAtMost
<1> QED
  BY <1>1, <1>4, <1>5, <1>6, PartsKept, TypeParts DEF UdpInv, UdpPoolSuffices

\* The tail of recv_cb gives the buffer back, after a datagram or without one.
LEMMA ReleaseBufInv == UdpInv /\ (RecvCbReturn \/ RecvNothing) => UdpInv'
<1> SUFFICES ASSUME UdpInv, RecvCbReturn \/ RecvNothing PROVE UdpInv'
  OBVIOUS
<1>1. ConnOK /\ NetworkOK /\ ReceivedOK /\ SentOK /\ aborted \in Outcomes
  BY TypeParts DEF UdpInv
<1>2. Running /\ at \in {"recv", "cb"}
  BY DEF RecvCbReturn, RecvNothing
<1>3. pool \in BP!Pool /\ pool.in_use = 1 /\ buf = pool.buffers[pool.in_use - 1]
  BY <1>1, <1>2 DEF ConnOK, UdpInv, OneBufferAtMost
<1>4. /\ BP!buffer_pool_release(pool, buf) \in BP!Pool
      /\ BP!buffer_pool_release(pool, buf).in_use = 0
  BY <1>3, ReleaseLast
<1>5. /\ pool' = BP!buffer_pool_release(pool, buf) /\ buf' = -1 /\ at' \in {"alloc", "idle"}
      /\ UNCHANGED <<cipher, networkVars, receivedVars, sentVars, aborted>>
  BY DEF RecvCbReturn, RecvNothing, ReleaseBuf
<1>6. ConnOK'
  BY <1>1, <1>4, <1>5 DEF ConnOK
<1>7. OneBufferAtMost'
  BY <1>4, <1>5 DEF OneBufferAtMost
<1> QED
  BY <1>1, <1>5, <1>6, <1>7, PartsKept, TypeParts DEF UdpInv, UdpPoolSuffices

\* uv_udp_ssl_write finds a second buffer even inside recv_cb, and gives it
\* back unless the assertion after uv_udp_try_send ends the process.
LEMMA WriteInv == UdpInv /\ uv_udp_ssl_write => UdpInv'
<1> SUFFICES ASSUME UdpInv, uv_udp_ssl_write PROVE UdpInv'
  OBVIOUS
<1>1. ConnOK /\ NetworkOK /\ ReceivedOK /\ SentOK /\ aborted \in Outcomes
  BY TypeParts DEF UdpInv
<1>2. Running /\ pool \in BP!Pool /\ pool.in_use \in {0, 1} /\ pool.in_use < N
  BY <1>1, UdpAssumption DEF uv_udp_ssl_write, ConnOK, UdpInv, OneBufferAtMost
<1> DEFINE p == BP!buffer_pool_acquire(pool)
           b == BP!Acquired(pool)
           iv == increment_iv(cipher.enc_iv)
<1>3. /\ BP!CanAcquire(pool) /\ p \in BP!Pool
      /\ p.in_use = pool.in_use + 1 /\ p.buffers = pool.buffers
      /\ b = pool.buffers[pool.in_use]
  BY <1>2, AcquireTakes
<1>4. /\ cipher' = [cipher EXCEPT !.enc_iv = iv]
      /\ reused' = (reused \/ iv \in sent)
      /\ sent' = sent \cup {iv}
      /\ \/ /\ pool' = BP!buffer_pool_release(p, b)
            /\ heard' \in {heard, cipher.key}
            /\ aborted' = aborted
         \/ /\ aborted' = "try_send" /\ pool' = p /\ heard' = heard
      /\ UNCHANGED <<at, buf, server, setup, flying, receivedVars>>
  BY <1>3 DEF uv_udp_ssl_write
<1>5. iv \in Iv
  BY <1>1, IncrementType DEF ConnOK, Cipher
<1>6. /\ BP!buffer_pool_release(p, b) \in BP!Pool
      /\ BP!buffer_pool_release(p, b).in_use = pool.in_use
      /\ BP!buffer_pool_release(p, b).buffers = pool.buffers
  <2>1. p.in_use > 0 /\ p.in_use - 1 = pool.in_use /\ b = p.buffers[p.in_use - 1]
    BY <1>2, <1>3
  <2> HIDE DEF p, b
  <2> QED
    BY <1>3, <2>1, ReleaseLast
<1> HIDE DEF p, b, iv
<1>7. cipher' \in Cipher
  BY <1>1, <1>4, <1>5 DEF ConnOK, Cipher
<1>8. ConnOK'
  BY <1>1, <1>3, <1>4, <1>6, <1>7 DEF ConnOK
<1>9. NetworkOK'
  <2>1. cipher.key \in 0 .. MaxSetups
    BY <1>1 DEF ConnOK, Cipher
  <2> QED
    BY <1>1, <1>4, <2>1 DEF NetworkOK
<1>10. SentOK'
  <2>1. reused' \in BOOLEAN
    BY <1>1, <1>4, Zenon DEF SentOK
  <2> QED
    BY <1>1, <1>4, <1>5, <2>1 DEF SentOK
<1>11. OneBufferAtMost' /\ UdpPoolSuffices' /\ aborted' \in Outcomes
  <2>1. CASE aborted' = "try_send"
    BY <2>1 DEF OneBufferAtMost, UdpPoolSuffices, Running, Outcomes
  <2>2. CASE aborted' = aborted /\ pool' = BP!buffer_pool_release(p, b)
    BY <1>1, <1>4, <1>6, <2>2 DEF UdpInv, OneBufferAtMost, UdpPoolSuffices, Running
  <2> QED
    BY <1>4, <2>1, <2>2
<1> QED
  BY <1>1, <1>4, <1>8, <1>9, <1>10, <1>11, PartsKept, TypeParts DEF UdpInv

\* Every step preserves the invariant.
LEMMA UdpNextInv == UdpInv /\ [UdpNext]_udpVars => UdpInv'
<1> SUFFICES ASSUME UdpInv, [UdpNext]_udpVars PROVE UdpInv'
  OBVIOUS
<1>1. CASE \/ ServerRekeys
           \/ \E kind \in {"ping", "voice"} : ServerSends(kind)
           \/ \E kind \in {"stray", "scrap"} : Stray(kind)
           \/ \E d \in flying : Lose(d)
  BY <1>1, NetworkInv
<1>2. ASSUME NEW d \in flying, uv_udp_ssl_decrypt(d) PROVE UdpInv'
  BY <1>2, DecryptInv
<1>3. CASE uv_udp_ssl_set_encryption
  BY <1>3, SetEncryptionInv
<1>4. CASE uv_udp_ssl_write
  BY <1>4, WriteInv
<1>5. CASE UdpReadable
  <2>1. ConnOK /\ NetworkOK /\ ReceivedOK /\ SentOK /\ aborted \in Outcomes
    BY TypeParts DEF UdpInv
  <2>2. /\ at = "idle" /\ at' = "alloc"
        /\ UNCHANGED <<cipher, pool, buf, networkVars, receivedVars, sentVars, aborted>>
    BY <1>5 DEF UdpReadable
  <2>3. ConnOK'
    BY <2>1, <2>2 DEF ConnOK
  <2>4. OneBufferAtMost' /\ UdpPoolSuffices'
    BY <2>2 DEF UdpInv, OneBufferAtMost, UdpPoolSuffices, Running
  <2> QED
    BY <2>1, <2>2, <2>3, <2>4, PartsKept, TypeParts DEF UdpInv
<1>6. CASE alloc_cb
  BY <1>6, AllocInv
<1>7. CASE RecvCbReturn \/ RecvNothing
  BY <1>7, ReleaseBufInv
<1>8. CASE UNCHANGED udpVars
  <2>1. UNCHANGED <<connVars, networkVars, receivedVars, sentVars, aborted>>
    BY <1>8 DEF udpVars, connVars, networkVars, receivedVars, sentVars
  <2>2. UdpTypeOK'
    BY <2>1, PartsKept, TypeParts DEF UdpInv
  <2> QED
    BY <2>1, <2>2 DEF UdpInv, OneBufferAtMost, UdpPoolSuffices, Running, connVars
<1> QED
  BY <1>1, <1>2, <1>3, <1>4, <1>5, <1>6, <1>7, <1>8 DEF UdpNext, UdpRest

-------------------------------------------------------------------------------
(* Recursive definitions.  Induction over the naturals is the principle of *)
(* the least element, applied to the set of the counterexamples.           *)

\* Every set of naturals has a least element.
LEMMA LeastElement ==
  ASSUME NEW T, T \subseteq Nat, T # {}
  PROVE  \E x \in T : \A y \in T : x <= y
<1> DEFINE R == {ss \in Nat \X Nat : ss[1] < ss[2]}
<1>1. IsWellFoundedOn(OpToRel(<, Nat), Nat)
  BY NatLessThanWellFounded
<1>2. OpToRel(<, Nat) = R
  BY DEF OpToRel
<1>3. IsWellFoundedOn(R, Nat)
  BY <1>1, <1>2
<1> HIDE DEF R
<1>4. PICK x \in T : \A y \in T : <<y, x>> \notin R
  BY <1>3, WFMin
<1>5. ASSUME NEW y \in T PROVE x <= y
  <2>1. x \in Nat /\ y \in Nat
    OBVIOUS
  <2>2. ~(y < x)
    <3>1. SUFFICES ASSUME y < x PROVE <<y, x>> \in R
      BY <1>4
    <3>2. <<y, x>> \in Nat \X Nat
      BY <2>1
    <3> QED
      BY <3>1, <3>2 DEF R
  <2> QED
    BY <2>1, <2>2
<1> QED
  BY <1>5

\* A set that has 0, and with every number below n its successor, has all up to n.
LEMMA UpwardTo ==
  ASSUME NEW n \in Nat, NEW S, 0 \in S, \A i \in 0 .. n - 1 : i \in S => i + 1 \in S
  PROVE  \A i \in 0 .. n : i \in S
<1> SUFFICES ASSUME \E i \in 0 .. n : i \notin S PROVE FALSE
  OBVIOUS
<1> DEFINE T == {i \in 0 .. n : i \notin S}
<1>1. T \subseteq Nat /\ T # {}
  OBVIOUS
<1> HIDE DEF T
<1>2. PICK x \in T : \A y \in T : x <= y
  BY <1>1, LeastElement
<1>3. x \in 0 .. n /\ x \notin S /\ x # 0
  BY <1>2 DEF T
<1>4. x - 1 \in 0 .. n - 1
  BY <1>3
<1>5. x - 1 \in S
  <2>1. x - 1 \notin T
    BY <1>2, <1>3, <1>4
  <2> QED
    BY <1>4, <2>1 DEF T
<1>6. (x - 1) + 1 \in S
  BY <1>4, <1>5
<1>7. (x - 1) + 1 = x
  BY <1>3
<1> QED
  BY <1>3, <1>6, <1>7

\* A function can be defined by a first value and a step from each value to the next.
LEMMA Recursion ==
  ASSUME NEW n \in Nat, NEW c \in Int, NEW F \in [1 .. n -> [Int -> Int]]
  PROVE  \E g \in [0 .. n -> Int] : g[0] = c /\ \A i \in 1 .. n : g[i] = F[i][g[i - 1]]
<1> DEFINE Good(g, m) == g[0] = c /\ \A i \in 1 .. m : g[i] = F[i][g[i - 1]]
           S == {m \in 0 .. n : \E g \in [0 .. m -> Int] : Good(g, m)}
<1>1. 0 \in S
  <2> DEFINE g == [j \in 0 .. 0 |-> c]
  <2>1. g \in [0 .. 0 -> Int] /\ g[0] = c
    OBVIOUS
  <2>2. Good(g, 0)
    BY <2>1
  <2> HIDE DEF g, Good
  <2> QED
    BY <2>1, <2>2
<1>2. ASSUME NEW m \in 0 .. n - 1, m \in S PROVE m + 1 \in S
  <2>1. PICK g \in [0 .. m -> Int] : Good(g, m)
    BY <1>2
  <2> DEFINE h == [j \in 0 .. m + 1 |-> IF j = m + 1 THEN F[m + 1][g[m]] ELSE g[j]]
  <2>2. m + 1 \in 1 .. n /\ m \in 0 .. m
    OBVIOUS
  <2>3. F[m + 1] \in [Int -> Int] /\ g[m] \in Int
    BY <2>2
  <2>4. F[m + 1][g[m]] \in Int
    BY <2>3
  <2>5. h \in [0 .. m + 1 -> Int]
    BY <2>4
  <2>6. Good(h, m + 1)
    <3>1. h[0] = c
      BY <2>1
    <3>2. ASSUME NEW i \in 1 .. m + 1 PROVE h[i] = F[i][h[i - 1]]
      <4>1. CASE i = m + 1
        BY <4>1
      <4>2. CASE i # m + 1
        BY <2>1, <4>2
      <4> QED
        BY <4>1, <4>2
    <3> QED
      BY <3>1, <3>2
  <2> HIDE DEF h, Good
  <2>7. m + 1 \in 0 .. n
    OBVIOUS
  <2> QED
    BY <2>5, <2>6, <2>7
<1> HIDE DEF S
<1>3. \A m \in 0 .. n : m \in S
  BY <1>1, <1>2, UpwardTo
<1>4. n \in S
  BY <1>3
<1> QED
  BY <1>4 DEF S

\* The equations of Weight.
LEMMA WeightEquations ==
  /\ Weight \in [0 .. IvLen -> Int]
  /\ Weight[0] = 1
  /\ \A i \in 1 .. IvLen : Weight[i] = Base * Weight[i - 1]
<1> DEFINE Body(g) == [i \in 0 .. IvLen |-> IF i = 0 THEN 1 ELSE Base * g[i - 1]]
           F == [i \in 1 .. IvLen |-> [x \in Int |-> Base * x]]
<1>1. IvLen \in Nat /\ Base \in Int /\ 1 \in Int
  BY UdpAssumption
<1>2. F \in [1 .. IvLen -> [Int -> Int]]
  BY <1>1
<1>3. ASSUME NEW i \in 1 .. IvLen, NEW x \in Int PROVE F[i][x] = Base * x
  OBVIOUS
<1> HIDE DEF F
<1>4. PICK g \in [0 .. IvLen -> Int] :
        g[0] = 1 /\ \A i \in 1 .. IvLen : g[i] = F[i][g[i - 1]]
  BY <1>1, <1>2, Recursion, Zenon
<1>5. g = Body(g)
  <2>1. ASSUME NEW i \in 1 .. IvLen PROVE g[i] = Base * g[i - 1]
    <3>1. g[i - 1] \in Int
      BY <1>1
    <3> QED
      BY <1>3, <1>4, <3>1
  <2> QED
    BY <1>1, <1>4, <2>1
<1>6. Weight = CHOOSE f : f = Body(f)
  BY DEF Weight
<1>7. Weight = Body(Weight)
  <2> HIDE DEF Body
  <2> QED
    BY <1>5, <1>6
<1>8. ASSUME NEW i \in 0 .. IvLen PROVE Weight[i] = IF i = 0 THEN 1 ELSE Base * Weight[i - 1]
  BY <1>7
<1>9. Weight[0] = 1 /\ \A i \in 1 .. IvLen : Weight[i] = Base * Weight[i - 1]
  BY <1>1, <1>8
<1>10. \A i \in 0 .. IvLen : Weight[i] \in Int
  <2> DEFINE S == {i \in 0 .. IvLen : Weight[i] \in Int}
  <2>1. 0 \in S
    BY <1>1, <1>9
  <2>2. ASSUME NEW i \in 0 .. IvLen - 1, i \in S PROVE i + 1 \in S
    <3>1. i + 1 \in 1 .. IvLen /\ (i + 1) - 1 = i
      BY <1>1
    <3>2. Weight[i + 1] = Base * Weight[i]
      BY <1>9, <3>1
    <3> QED
      BY <1>1, <2>2, <3>1, <3>2
  <2> HIDE DEF S
  <2>3. \A i \in 0 .. IvLen : i \in S
    BY <1>1, <2>1, <2>2, UpwardTo
  <2> QED
    BY <2>3 DEF S
<1>11. Weight = [i \in 0 .. IvLen |-> Weight[i]]
  <2>1. Weight = [i \in 0 .. IvLen |-> IF i = 0 THEN 1 ELSE Base * Weight[i - 1]]
    BY <1>7
  <2> QED
    BY <1>8, <2>1
<1> QED
  BY <1>9, <1>10, <1>11

\* The numbers of the first bytes of a nonce, up to all of them.
IsPrefixSum(u, iv) ==
  /\ u \in [0 .. IvLen -> Int]
  /\ u[0] = 0
  /\ \A i \in 1 .. IvLen : u[i] = u[i - 1] + iv[i] * Weight[i - 1]

\* Number is the last of these numbers.
LEMMA NumberIsSum ==
  ASSUME NEW iv \in Iv
  PROVE  \E u : IsPrefixSum(u, iv) /\ Number(iv) = u[IvLen]
<1> DEFINE Body(g) == [i \in 0 .. IvLen |-> IF i = 0 THEN 0 ELSE g[i - 1] + iv[i] * Weight[i - 1]]
           F == [i \in 1 .. IvLen |-> [x \in Int |-> x + iv[i] * Weight[i - 1]]]
           Sum == CHOOSE f : f = Body(f)
<1>1. IvLen \in Nat /\ Base \in Int /\ 0 \in Int
  BY UdpAssumption
<1>2. ASSUME NEW i \in 1 .. IvLen PROVE iv[i] * Weight[i - 1] \in Int
  <2>1. i - 1 \in 0 .. IvLen /\ iv[i] \in Int
    BY <1>1 DEF Iv
  <2>2. Weight[i - 1] \in Int
    BY <2>1, WeightEquations
  <2> QED
    BY <2>1, <2>2
<1>3. F \in [1 .. IvLen -> [Int -> Int]]
  BY <1>1, <1>2
<1>4. ASSUME NEW i \in 1 .. IvLen, NEW x \in Int PROVE F[i][x] = x + iv[i] * Weight[i - 1]
  OBVIOUS
<1> HIDE DEF F
<1>5. PICK g \in [0 .. IvLen -> Int] :
        g[0] = 0 /\ \A i \in 1 .. IvLen : g[i] = F[i][g[i - 1]]
  BY <1>1, <1>3, Recursion, Zenon
<1>6. ASSUME NEW i \in 1 .. IvLen PROVE g[i - 1] \in Int /\ g[i] = g[i - 1] + iv[i] * Weight[i - 1]
  <2>1. g[i - 1] \in Int
    BY <1>1
  <2> QED
    BY <1>4, <1>5, <2>1
<1>7. g = Body(g)
  BY <1>1, <1>5, <1>6
<1>8. Sum = Body(Sum)
  <2> HIDE DEF Body
  <2> QED
    BY <1>7
<1>9. Number(iv) = Sum[IvLen]
  BY DEF Number
<1> HIDE DEF Sum
<1>10. ASSUME NEW i \in 0 .. IvLen
       PROVE  Sum[i] = IF i = 0 THEN 0 ELSE Sum[i - 1] + iv[i] * Weight[i - 1]
  BY <1>8
<1>11. Sum[0] = 0 /\ \A i \in 1 .. IvLen : Sum[i] = Sum[i - 1] + iv[i] * Weight[i - 1]
  BY <1>1, <1>10
<1>12. \A i \in 0 .. IvLen : Sum[i] \in Int
  <2> DEFINE S == {i \in 0 .. IvLen : Sum[i] \in Int}
  <2>1. 0 \in S
    BY <1>1, <1>11
  <2>2. ASSUME NEW i \in 0 .. IvLen - 1, i \in S PROVE i + 1 \in S
    <3>1. i + 1 \in 1 .. IvLen /\ (i + 1) - 1 = i
      BY <1>1
    <3>2. Sum[i + 1] = Sum[i] + iv[i + 1] * Weight[i] /\ iv[i + 1] * Weight[i] \in Int
      BY <1>2, <1>11, <3>1
    <3> QED
      BY <1>1, <2>2, <3>1, <3>2
  <2> HIDE DEF S
  <2>3. \A i \in 0 .. IvLen : i \in S
    BY <1>1, <2>1, <2>2, UpwardTo
  <2> QED
    BY <2>3 DEF S
<1>13. Sum = [i \in 0 .. IvLen |-> Sum[i]]
  <2>1. Sum = [i \in 0 .. IvLen |-> IF i = 0 THEN 0 ELSE Sum[i - 1] + iv[i] * Weight[i - 1]]
    BY <1>8
  <2> QED
    BY <1>10, <2>1
<1>14. IsPrefixSum(Sum, iv)
  BY <1>11, <1>12, <1>13 DEF IsPrefixSum
<1> QED
  BY <1>9, <1>14

\* Weights are positive.
LEMMA WeightPositive == \A i \in 0 .. IvLen : Weight[i] \in Nat \ {0}
<1> DEFINE S == {i \in 0 .. IvLen : Weight[i] \in Nat \ {0}}
<1>1. IvLen \in Nat /\ Base \in Nat \ {0, 1}
  BY UdpAssumption
<1>2. 0 \in S
  BY <1>1, WeightEquations
<1>3. ASSUME NEW i \in 0 .. IvLen - 1, i \in S PROVE i + 1 \in S
  <2>1. i + 1 \in 1 .. IvLen /\ (i + 1) - 1 = i /\ Weight[i] \in Nat \ {0}
    BY <1>1, <1>3
  <2>2. Weight[i + 1] = Base * Weight[i]
    BY <2>1, WeightEquations
  <2>3. ASSUME NEW a \in Nat \ {0}, NEW b \in Nat \ {0} PROVE a * b \in Nat \ {0}
    OBVIOUS
  <2> QED
    BY <1>1, <2>1, <2>2, <2>3
<1> HIDE DEF S
<1>4. \A i \in 0 .. IvLen : i \in S
  BY <1>1, <1>2, <1>3, UpwardTo
<1> QED
  BY <1>4 DEF S

\* The number of i bytes is below the weight of a unit behind them.
LEMMA PrefixSumBound ==
  ASSUME NEW iv \in Iv, NEW u, IsPrefixSum(u, iv)
  PROVE  \A i \in 0 .. IvLen : u[i] \in 0 .. Weight[i] - 1
<1> DEFINE S == {i \in 0 .. IvLen : u[i] \in 0 .. Weight[i] - 1}
<1>1. IvLen \in Nat /\ Base \in Nat \ {0, 1}
  BY UdpAssumption
<1>2. 0 \in S
  BY <1>1, WeightEquations DEF IsPrefixSum
<1>3. ASSUME NEW i \in 0 .. IvLen - 1, i \in S PROVE i + 1 \in S
  <2>1. i + 1 \in 1 .. IvLen /\ (i + 1) - 1 = i /\ u[i] \in 0 .. Weight[i] - 1
    BY <1>1, <1>3
  <2>2. /\ Weight[i + 1] = Base * Weight[i]
        /\ u[i + 1] = u[i] + iv[i + 1] * Weight[i]
        /\ Weight[i] \in Nat \ {0}
        /\ iv[i + 1] \in 0 .. Base - 1
    <3>1. i \in 0 .. IvLen
      BY <1>1
    <3>2. Weight[i] \in Nat \ {0} /\ Weight[i + 1] = Base * Weight[i]
      BY <2>1, <3>1, WeightEquations, WeightPositive
    <3>3. u[i + 1] = u[(i + 1) - 1] + iv[i + 1] * Weight[(i + 1) - 1]
      BY <2>1 DEF IsPrefixSum
    <3>4. iv[i + 1] \in 0 .. Base - 1
      BY <2>1 DEF Iv
    <3> QED
      BY <2>1, <3>2, <3>3, <3>4
  <2>3. ASSUME NEW w \in Nat \ {0}, NEW x \in 0 .. w - 1, NEW b \in Nat, NEW a \in 0 .. b - 1
        PROVE  x + a * w \in 0 .. b * w - 1
    <3>1. b - 1 - a \in Nat
      OBVIOUS
    <3>2. (b - 1 - a) * w \in Nat /\ a * w \in Nat
      BY <3>1
    <3>3. b * w = (b - 1 - a) * w + a * w + w
      OBVIOUS
    <3> QED
      BY <3>2, <3>3
  <2>4. u[i] + iv[i + 1] * Weight[i] \in 0 .. Base * Weight[i] - 1
    BY <1>1, <2>1, <2>2, <2>3
  <2> QED
    BY <2>1, <2>2, <2>4
<1> HIDE DEF S
<1>4. \A i \in 0 .. IvLen : i \in S
  BY <1>1, <1>2, <1>3, UpwardTo
<1> QED
  BY <1>4 DEF S

\* The carry of increment_iv, byte by byte: behind i bytes that were all at
\* their highest the number of the first i bytes has wrapped, else it is one more.
LEMMA CarryByteByByte ==
  ASSUME NEW iv \in Iv, NEW u, NEW v, IsPrefixSum(u, iv), IsPrefixSum(v, increment_iv(iv))
  PROVE  \A i \in 0 .. IvLen :
           IF \A j \in 1 .. i : iv[j] = Base - 1 THEN v[i] = 0 /\ u[i] = Weight[i] - 1
                                                 ELSE v[i] = u[i] + 1
<1> DEFINE Full(i) == \A j \in 1 .. i : iv[j] = Base - 1
           Right(i) == IF Full(i) THEN v[i] = 0 /\ u[i] = Weight[i] - 1 ELSE v[i] = u[i] + 1
           S == {i \in 0 .. IvLen : Right(i)}
<1>1. IvLen \in Nat /\ Base \in Nat \ {0, 1}
  BY UdpAssumption
<1>2. 0 \in S
  BY <1>1, WeightEquations DEF IsPrefixSum
<1>3. ASSUME NEW i \in 0 .. IvLen - 1, i \in S PROVE i + 1 \in S
  <2>1. i + 1 \in 1 .. IvLen /\ i + 1 \in 0 .. IvLen /\ (i + 1) - 1 = i /\ Right(i)
    BY <1>1, <1>3
  <2> DEFINE a == iv[i + 1]
             b == increment_iv(iv)[i + 1]
             w == Weight[i]
  <2>2. /\ Weight[i + 1] = Base * w
        /\ u[i + 1] = u[i] + a * w
        /\ v[i + 1] = v[i] + b * w
        /\ w \in Nat \ {0} /\ a \in 0 .. Base - 1
        /\ u[i] \in Int /\ v[i] \in Int
    <3>1. i \in 0 .. IvLen
      BY <1>1
    <3>2. w \in Nat \ {0} /\ Weight[i + 1] = Base * w
      BY <2>1, <3>1, WeightEquations, WeightPositive
    <3>3. u[i] \in Int /\ v[i] \in Int
      BY <3>1 DEF IsPrefixSum
    <3>4. u[i + 1] = u[i] + a * w /\ v[i + 1] = v[i] + b * w
      <4> HIDE DEF Right
      <4>1. u[i + 1] = u[(i + 1) - 1] + a * Weight[(i + 1) - 1]
        BY <2>1 DEF IsPrefixSum
      <4>2. v[i + 1] = v[(i + 1) - 1] + b * Weight[(i + 1) - 1]
        BY <2>1 DEF IsPrefixSum
      <4> QED
        BY <2>1, <4>1, <4>2
    <3>5. a \in 0 .. Base - 1
      BY <2>1 DEF Iv
    <3> QED
      BY <3>2, <3>3, <3>4, <3>5
  <2>3. b = IF Full(i) THEN (a + 1) % Base ELSE a
    BY <2>1 DEF increment_iv
  <2>4. Full(i + 1) <=> Full(i) /\ a = Base - 1
    <3>1. 1 .. i + 1 = (1 .. i) \cup {i + 1}
      BY <1>1
    <3> QED
      BY <3>1
  <2> HIDE DEF a, b, w, Full
  <2>5. CASE Full(i) /\ a = Base - 1
    <3>1. v[i] = 0 /\ u[i] = w - 1
      BY <2>1, <2>5 DEF w
    <3>2. b = 0
      <4>1. (Base - 1 + 1) % Base = 0
        BY <1>1
      <4> QED
        BY <2>3, <2>5, <4>1
    <3>3. v[i + 1] = 0
      BY <2>2, <3>1, <3>2
    <3>4. u[i + 1] = Base * w - 1
      <4>1. (Base - 1) * w = Base * w - w
        BY <1>1, <2>2
      <4>2. Base * w \in Int
        BY <1>1, <2>2
      <4> QED
        BY <2>2, <2>5, <3>1, <4>1, <4>2
    <3> QED
      BY <2>1, <2>2, <2>4, <2>5, <3>3, <3>4
  <2>6. CASE Full(i) /\ a # Base - 1
    <3>1. v[i] = 0 /\ u[i] = w - 1
      BY <2>1, <2>6 DEF w
    <3>2. b = a + 1
      <4>1. a + 1 \in 0 .. Base - 1
        BY <1>1, <2>2, <2>6
      <4>2. (a + 1) % Base = a + 1
        BY <1>1, <4>1
      <4> QED
        BY <2>3, <2>6, <4>2
    <3>3. b * w = a * w + w /\ a * w \in Int
      BY <1>1, <2>2, <3>2
    <3>4. v[i + 1] = u[i + 1] + 1
      BY <2>2, <3>1, <3>3
    <3> QED
      BY <2>1, <2>4, <2>6, <3>4
  <2>7. CASE ~Full(i)
    <3>1. v[i] = u[i] + 1 /\ b = a
      BY <2>1, <2>3, <2>7
    <3>2. a * w \in Int
      BY <1>1, <2>2
    <3>3. v[i + 1] = u[i + 1] + 1
      BY <2>2, <3>1, <3>2
    <3> QED
      BY <2>1, <2>4, <2>7, <3>3
  <2> QED
    BY <2>5, <2>6, <2>7
<1> HIDE DEF S
<1>4. \A i \in 0 .. IvLen : i \in S
  BY <1>1, <1>2, <1>3, UpwardTo
<1> QED
  BY <1>4 DEF S

\* increment_iv adds one, modulo the number of nonces, and stays a nonce.
LEMMA IncrementAddsOne ==
  ASSUME NEW iv \in Iv
  PROVE  /\ Number(iv) \in 0 .. Weight[IvLen] - 1
         /\ Number(increment_iv(iv)) = (Number(iv) + 1) % Weight[IvLen]
<1>1. IvLen \in 0 .. IvLen /\ Weight[IvLen] \in Nat \ {0}
  BY UdpAssumption, WeightPositive
<1>2. PICK u : IsPrefixSum(u, iv) /\ Number(iv) = u[IvLen]
  BY NumberIsSum
<1>3. increment_iv(iv) \in Iv
  BY IncrementType
<1>4. PICK v : IsPrefixSum(v, increment_iv(iv)) /\ Number(increment_iv(iv)) = v[IvLen]
  BY <1>3, NumberIsSum
<1>5. u[IvLen] \in 0 .. Weight[IvLen] - 1 /\ v[IvLen] \in 0 .. Weight[IvLen] - 1
  BY <1>1, <1>2, <1>3, <1>4, PrefixSumBound
<1>6. \/ v[IvLen] = 0 /\ u[IvLen] = Weight[IvLen] - 1
      \/ v[IvLen] = u[IvLen] + 1
  BY <1>1, <1>2, <1>4, CarryByteByByte
<1>7. ASSUME NEW m \in Nat \ {0}, NEW x \in 0 .. m - 1, NEW y \in 0 .. m - 1,
             (y = 0 /\ x = m - 1) \/ y = x + 1
      PROVE  y = (x + 1) % m
  <2>1. CASE x = m - 1
    <3>1. y = 0 /\ x + 1 = m
      BY <1>7, <2>1
    <3>2. m % m = 0
      OBVIOUS
    <3> QED
      BY <3>1, <3>2
  <2>2. CASE x # m - 1
    BY <1>7, <2>2
  <2> QED
    BY <2>1, <2>2
<1> QED
  BY <1>1, <1>2, <1>4, <1>5, <1>6, <1>7

\* Quotient and remainder.
LEMMA DivMod ==
  ASSUME NEW m \in Nat \ {0}, NEW y \in Nat
  PROVE  y \div m \in Nat /\ y % m \in 0 .. m - 1 /\ y = m * (y \div m) + (y % m)
<1>1. y \div m \in Int /\ y % m \in 0 .. m - 1 /\ y = m * (y \div m) + (y % m)
  OBVIOUS
<1>2. y \div m >= 0
  <2>1. SUFFICES ASSUME y \div m <= -1 PROVE FALSE
    BY <1>1
  <2>2. ASSUME NEW q \in Int, q <= -1 PROVE m * q <= -m
    BY <2>2
  <2>3. m * (y \div m) <= -m
    BY <1>1, <2>1, <2>2
  <2> QED
    BY <1>1, <2>3
<1> QED
  BY <1>1, <1>2

\* Counting on by one, modulo m.
LEMMA CountOn ==
  ASSUME NEW m \in Nat \ {0}, NEW s \in Nat, NEW c \in Nat
  PROVE  (((s + c) % m) + 1) % m = (s + (c + 1)) % m
<1> DEFINE x == s + c
           q == x \div m
           r == x % m
<1>1. x \in Nat /\ q \in Nat /\ r \in 0 .. m - 1 /\ x = m * q + r
  BY DivMod
<1> HIDE DEF q, r
<1>2. CASE r = m - 1
  <2>1. x + 1 = m * (q + 1)
    BY <1>1, <1>2
  <2>2. (m * (q + 1)) % m = 0 /\ m % m = 0
    BY <1>1
  <2> QED
    BY <1>2, <2>1, <2>2 DEF r
<1>3. CASE r # m - 1
  <2>1. r + 1 \in 0 .. m - 1 /\ x + 1 = m * q + (r + 1)
    BY <1>1, <1>3
  <2>2. (r + 1) % m = r + 1
    BY <2>1
  <2>3. (x + 1) % m = r + 1
    <3>1. ASSUME NEW t \in 0 .. m - 1, NEW p \in Nat PROVE (m * p + t) % m = t
      <4> DEFINE y == m * p + t
      <4>0. y \in Nat
        <5>1. m * p \in Nat
          OBVIOUS
        <5> QED
          BY <5>1
      <4> HIDE DEF y
      <4>1. y \in Nat /\ y = m * (y \div m) + (y % m) /\ y % m \in 0 .. m - 1 /\ y \div m \in Nat
        BY <4>0, DivMod
      <4>2. m * (p - y \div m) = (y % m) - t
        <5>1. m * (p - y \div m) = m * p - m * (y \div m)
          BY <4>1
        <5> QED
          BY <4>1, <5>1 DEF y
      <4>3. p - y \div m = 0
        <5>1. CASE p - y \div m >= 1
          <6>1. m * (p - y \div m) >= m
            BY <4>1, <5>1
          <6> QED
            BY <4>1, <4>2, <6>1
        <5>2. CASE p - y \div m <= -1
          <6>1. m * (p - y \div m) <= -m
            BY <4>1, <5>2
          <6> QED
            BY <4>1, <4>2, <6>1
        <5> QED
          BY <4>1, <5>1, <5>2
      <4>4. m * (p - y \div m) = 0
        BY <4>3
      <4> QED
        BY <4>1, <4>2, <4>4 DEF y
    <3> QED
      BY <1>1, <2>1, <3>1
  <2> QED
    BY <2>2, <2>3 DEF r
<1> QED
  BY <1>2, <1>3

\* Fewer than m steps of one do not come back, modulo m.
LEMMA NoReturn ==
  ASSUME NEW m \in Nat \ {0}, NEW s \in Nat, NEW j \in Nat, NEW k \in Nat,
         j < k, k - j < m
  PROVE  (s + j) % m # (s + k) % m
<1> SUFFICES ASSUME (s + j) % m = (s + k) % m PROVE FALSE
  OBVIOUS
<1> DEFINE a == (s + j) \div m
           b == (s + k) \div m
           r == (s + j) % m
<1>1. a \in Nat /\ b \in Nat /\ s + j = m * a + r /\ s + k = m * b + r /\ r \in 0 .. m - 1
  <2>1. s + j \in Nat /\ s + k \in Nat
    OBVIOUS
  <2> QED
    BY <2>1, DivMod
<1> HIDE DEF a, b, r
<1>2. k - j = m * b - m * a
  BY <1>1
<1>3. m * b - m * a = m * (b - a)
  BY <1>1
<1>4. b - a \in Int
  BY <1>1
<1>5. CASE b - a <= 0
  <2>1. m * (b - a) <= 0
    BY <1>4, <1>5
  <2> QED
    BY <1>2, <1>3, <2>1
<1>6. CASE b - a >= 1
  <2>1. m * (b - a) >= m
    BY <1>4, <1>6
  <2> QED
    BY <1>2, <1>3, <2>1
<1> QED
  BY <1>4, <1>5, <1>6

-------------------------------------------------------------------------------
\* While datagrams arrive in step, the receiving nonce is the server's first one
\* plus those received.
InStepNumber ==
  cipher.key > 0 /\ inStep =>
    Number(cipher.dec_iv) = (Number(DecNonce) + got) % Weight[IvLen]

\* The sending nonce is the client's first one plus those sent, and each of these
\* is one of the numbers between.
SentNumbers ==
  /\ IsFiniteSet(sent)
  /\ cipher.key > 0 =>
       Number(cipher.enc_iv) = (Number(EncNonce) + Cardinality(sent)) % Weight[IvLen]
  /\ \A iv \in sent : \E k \in 1 .. Cardinality(sent) :
       Number(iv) = (Number(EncNonce) + k) % Weight[IvLen]

NonceInv == InStepNumber /\ SentNumbers /\ InOrderDecrypts /\ NonceNeverReused

\* A nonce is its number, modulo all.
LEMMA StartOfCount ==
  ASSUME NEW iv \in Iv
  PROVE  Number(iv) \in Nat /\ Number(iv) = (Number(iv) + 0) % Weight[IvLen]
<1>1. Weight[IvLen] \in Nat \ {0}
  BY UdpAssumption, WeightPositive
<1>2. Number(iv) \in 0 .. Weight[IvLen] - 1
  BY IncrementAddsOne
<1>3. ASSUME NEW m \in Nat \ {0}, NEW x \in 0 .. m - 1 PROVE x = (x + 0) % m
  OBVIOUS
<1> QED
  BY <1>1, <1>2, <1>3

\* uv_udp_ssl_init
LEMMA NonceInit == UdpInit => NonceInv
<1> SUFFICES ASSUME UdpInit PROVE NonceInv
  OBVIOUS
<1>1. cipher.key = 0 /\ sent = {} /\ garbled = FALSE /\ reused = FALSE
  BY DEF UdpInit
<1>2. IsFiniteSet(sent)
  BY <1>1, FS_EmptySet
<1> QED
  BY <1>1, <1>2 DEF NonceInv, InStepNumber, SentNumbers, InOrderDecrypts, NonceNeverReused

\* A new key starts both counts.
LEMMA NonceSetEncryption == UdpInv /\ NonceInv /\ uv_udp_ssl_set_encryption => NonceInv'
<1> SUFFICES ASSUME NonceInv, uv_udp_ssl_set_encryption PROVE NonceInv'
  OBVIOUS
<1>1. /\ cipher'.enc_iv = EncNonce /\ cipher'.dec_iv = DecNonce
      /\ garbled' = garbled /\ reused' = reused /\ got' = 0 /\ sent' = {}
  BY DEF uv_udp_ssl_set_encryption, ocb_aes_set_keys
<1>2. /\ Number(EncNonce) = (Number(EncNonce) + 0) % Weight[IvLen]
      /\ Number(DecNonce) = (Number(DecNonce) + 0) % Weight[IvLen]
  BY UdpAssumption, StartOfCount
<1>3. IsFiniteSet(sent') /\ Cardinality(sent') = 0
  BY <1>1, FS_EmptySet
<1>4. InStepNumber' /\ SentNumbers'
  BY <1>1, <1>2, <1>3 DEF InStepNumber, SentNumbers
<1> QED
  BY <1>1, <1>4 DEF NonceInv, InOrderDecrypts, NonceNeverReused

\* A datagram in step is one more for both sides, so it decrypts.
LEMMA NonceDecrypt ==
  ASSUME UdpInv, NonceInv, NEW d \in flying, uv_udp_ssl_decrypt(d)
  PROVE  NonceInv'
<1> DEFINE ordered == inStep /\ d.key = cipher.key /\ d.n = got + 1
           next == [cipher EXCEPT !.dec_iv = increment_iv(cipher.dec_iv)]
           W == Weight[IvLen]
<1>1. /\ cipher' = next
      /\ got' = IF ordered THEN got + 1 ELSE 0
      /\ inStep' = ordered
      /\ garbled' = (garbled \/ (ordered /\ ~Decrypts(next, d)))
      /\ UNCHANGED sentVars
  BY DEF uv_udp_ssl_decrypt
<1>2. /\ cipher \in Cipher /\ d \in Datagram /\ got \in Nat
      /\ cipher.dec_iv \in Iv /\ d.key \in {-1} \cup 1 .. MaxSetups
  BY TypeParts, UdpAssumption DEF UdpInv, ConnOK, NetworkOK, ReceivedOK, Cipher, Datagram
<1>3. /\ next.key = cipher.key /\ next.enc_iv = cipher.enc_iv
      /\ next.dec_iv = increment_iv(cipher.dec_iv)
  BY <1>2 DEF Cipher
<1> HIDE DEF next
<1>4. ASSUME ordered PROVE Number(next.dec_iv) = (Number(DecNonce) + (got + 1)) % W
  <2>1. cipher.key > 0 /\ inStep
    BY <1>2, <1>4 DEF Cipher
  <2>2. Number(cipher.dec_iv) = (Number(DecNonce) + got) % W
    BY <2>1 DEF NonceInv, InStepNumber
  <2>3. Number(next.dec_iv) = (Number(cipher.dec_iv) + 1) % W
    BY <1>2, <1>3, IncrementAddsOne
  <2>4. W \in Nat \ {0} /\ Number(DecNonce) \in Nat
    BY UdpAssumption, WeightPositive, StartOfCount
  <2> HIDE DEF W
  <2>5. (((Number(DecNonce) + got) % W) + 1) % W = (Number(DecNonce) + (got + 1)) % W
    BY <1>2, <2>4, CountOn
  <2> QED
    BY <2>2, <2>3, <2>5
<1>5. ordered => Decrypts(next, d)
  BY <1>3, <1>4 DEF Decrypts
<1>6. InOrderDecrypts'
  BY <1>1, <1>5, Zenon DEF NonceInv, InOrderDecrypts
<1>7. InStepNumber'
  BY <1>1, <1>4 DEF InStepNumber
<1>8. SentNumbers' /\ NonceNeverReused'
  BY <1>1, <1>3 DEF NonceInv, SentNumbers, NonceNeverReused, sentVars
<1> QED
  BY <1>6, <1>7, <1>8 DEF NonceInv

\* uv_udp_ssl_write uses the next number, which none of the fewer than
\* Weight[IvLen] nonces before it has.
LEMMA NonceWrite == UdpInv /\ NonceInv /\ uv_udp_ssl_write => NonceInv'
<1> SUFFICES ASSUME UdpInv, NonceInv, uv_udp_ssl_write PROVE NonceInv'
  OBVIOUS
<1> DEFINE iv == increment_iv(cipher.enc_iv)
           W == Weight[IvLen]
           c == Cardinality(sent)
           E == Number(EncNonce)
<1>1. cipher \in Cipher /\ cipher.enc_iv \in Iv
  BY TypeParts DEF UdpInv, ConnOK, Cipher
<1>2. IsFiniteSet(sent) /\ c \in Nat /\ c < MaxWrites /\ cipher.key > 0
  BY FS_CardinalityType DEF NonceInv, SentNumbers, uv_udp_ssl_write
<1>3. W \in Nat \ {0} /\ E \in Nat /\ MaxWrites \in Nat /\ MaxWrites <= W
  BY UdpAssumption, WeightPositive, StartOfCount
<1>4. CASE UNCHANGED <<cipher, sentVars>>
  BY <1>4 DEF uv_udp_ssl_write, receivedVars, sentVars, NonceInv, InStepNumber, SentNumbers,
              InOrderDecrypts, NonceNeverReused
<1>5. CASE /\ cipher' = [cipher EXCEPT !.enc_iv = iv]
           /\ reused' = (reused \/ iv \in sent)
           /\ sent' = sent \cup {iv}
  <2>1. cipher'.enc_iv = iv /\ cipher'.dec_iv = cipher.dec_iv /\ cipher'.key = cipher.key
    BY <1>1, <1>5 DEF Cipher
  <2>2. Number(iv) = (Number(cipher.enc_iv) + 1) % W
    BY <1>1, IncrementAddsOne
  <2> HIDE DEF iv, W, c, E
  <2>3. Number(cipher.enc_iv) = (E + c) % W
    BY <1>2 DEF NonceInv, SentNumbers, W, c, E
  <2>4. Number(iv) = (E + (c + 1)) % W
    <3>1. (((E + c) % W) + 1) % W = (E + (c + 1)) % W
      BY <1>2, <1>3, CountOn
    <3> QED
      BY <2>2, <2>3, <3>1
  <2>5. iv \notin sent
    <3> SUFFICES ASSUME iv \in sent PROVE FALSE
      OBVIOUS
    <3>1. PICK k \in 1 .. c : Number(iv) = (E + k) % W
      BY DEF NonceInv, SentNumbers, W, c, E
    <3>2. k \in Nat /\ c + 1 \in Nat /\ k < c + 1 /\ (c + 1) - k < W
      BY <1>2, <1>3
    <3>3. (E + k) % W # (E + (c + 1)) % W
      BY <1>3, <3>2, NoReturn
    <3> QED
      BY <2>4, <3>1, <3>3
  <2>6. IsFiniteSet(sent') /\ Cardinality(sent') = c + 1
    BY <1>2, <1>5, <2>5, FS_AddElement DEF c
  <2>7. \A x \in sent' : \E k \in 1 .. c + 1 : Number(x) = (E + k) % W
    <3>1. ASSUME NEW x \in sent PROVE \E k \in 1 .. c + 1 : Number(x) = (E + k) % W
      <4>1. PICK k \in 1 .. c : Number(x) = (E + k) % W
        BY DEF NonceInv, SentNumbers, W, c, E
      <4>2. k \in 1 .. c + 1
        BY <1>2
      <4> QED
        BY <4>1, <4>2
    <3>2. c + 1 \in 1 .. c + 1
      BY <1>2
    <3> QED
      BY <1>5, <2>4, <3>1, <3>2
  <2>8. SentNumbers'
    BY <2>1, <2>4, <2>6, <2>7 DEF SentNumbers, W, E
  <2>9. InStepNumber' /\ InOrderDecrypts'
    BY <2>1 DEF uv_udp_ssl_write, receivedVars, NonceInv, InStepNumber, InOrderDecrypts
  <2>10. NonceNeverReused'
    BY <1>5, <2>5, Zenon DEF NonceInv, NonceNeverReused
  <2> QED
    BY <2>8, <2>9, <2>10 DEF NonceInv
<1> QED
  BY <1>4, <1>5 DEF uv_udp_ssl_write

\* Every step preserves the two counts.
LEMMA NonceNext == UdpInv /\ NonceInv /\ [UdpNext]_udpVars => NonceInv'
<1> SUFFICES ASSUME UdpInv, NonceInv, [UdpNext]_udpVars PROVE NonceInv'
  OBVIOUS
<1>1. CASE UNCHANGED <<cipher, receivedVars, sentVars>>
  BY <1>1 DEF receivedVars, sentVars, NonceInv, InStepNumber, SentNumbers,
              InOrderDecrypts, NonceNeverReused
<1>2. ASSUME NEW d \in flying, uv_udp_ssl_decrypt(d) PROVE NonceInv'
  BY <1>2, NonceDecrypt
<1>3. CASE uv_udp_ssl_set_encryption
  BY <1>3, NonceSetEncryption
<1>4. CASE uv_udp_ssl_write
  BY <1>4, NonceWrite
<1>5. CASE \/ ServerRekeys
           \/ \E kind \in {"ping", "voice"} : ServerSends(kind)
           \/ \E kind \in {"stray", "scrap"} : Stray(kind)
           \/ \E d \in flying : Lose(d)
           \/ UdpReadable \/ alloc_cb \/ RecvCbReturn \/ RecvNothing \/ UNCHANGED udpVars
  <2>1. UNCHANGED <<cipher, receivedVars, sentVars>>
    BY <1>5 DEF ServerRekeys, ServerSends, Stray, Lose, UdpReadable, alloc_cb, RecvCbReturn,
                RecvNothing, connVars, udpVars, receivedVars, sentVars
  <2> QED
    BY <1>1, <2>1
<1> QED
  BY <1>2, <1>3, <1>4, <1>5 DEF UdpNext, UdpRest

-------------------------------------------------------------------------------
\* The invariant holds of every behaviour.
THEOREM UdpCorrect == UdpSpec => []UdpInv
BY UdpInitInv, UdpNextInv, PTL DEF UdpSpec

\* Types; in particular increment_iv never leaves the nonces, and at most as
\* many datagrams count as received in order as the server sent.
THEOREM UdpTypes == UdpSpec => []UdpTypeOK
<1>1. UdpInv => UdpTypeOK
  BY DEF UdpInv
<1> QED
  BY <1>1, UdpCorrect, PTL

\* The two abort() calls on an empty pool are never reached, whatever the
\* network does and whenever the user writes: the two buffers of
\* uv_udp_ssl_init suffice.
THEOREM UdpBuffersSuffice == UdpSpec => []UdpPoolSuffices
<1>1. UdpInv => UdpPoolSuffices
  BY DEF UdpInv
<1> QED
  BY <1>1, UdpCorrect, PTL

\* The two counts hold of every behaviour.
THEOREM UdpNoncesCount == UdpSpec => []NonceInv
BY UdpCorrect, NonceInit, NonceNext, PTL DEF UdpSpec

\* Datagrams that arrive in order and without a gap decrypt, across every carry and
\* wrap of increment_iv and every change of keys.
THEOREM UdpInOrderDecrypts == UdpSpec => []InOrderDecrypts
<1>1. NonceInv => InOrderDecrypts
  BY DEF NonceInv
<1> QED
  BY <1>1, UdpNoncesCount, PTL

\* uv_udp_ssl_write never encrypts twice under one key and nonce, as long as no more
\* datagrams are written under a key than there are nonces.
THEOREM UdpNonceNeverReused == UdpSpec => []NonceNeverReused
<1>1. NonceInv => NonceNeverReused
  BY DEF NonceInv
<1> QED
  BY <1>1, UdpNoncesCount, PTL
===============================================================================
