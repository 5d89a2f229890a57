-------------------------------- MODULE UdpSsl --------------------------------
(***************************************************************************)
(* lib/mumble/uv_udp_ssl.c and udp_cb of audio.c: encrypted datagrams.     *)
(* Both sides count datagrams in a nonce of IvLen bytes, the lowest first; *)
(* the server's n-th datagram under a key decrypts only with the server's  *)
(* first nonce plus n.  The client advances its copy once per datagram and *)
(* uses neither the nonce byte nor the tag that the datagram carries.      *)
(*                                                                         *)
(* A CryptSetup of the server brings a key (its number) and both nonces.   *)
(* Ping replies are short, voice packets longer.  The cipher is ideal:     *)
(* with another key or nonce the text is noise.  A stray datagram is not   *)
(* this server's, or of no key it gave; a scrap is one of fewer than four  *)
(* bytes.                                                                  *)
(***************************************************************************)
EXTENDS Integers, FiniteSets

CONSTANTS
  N,           \* buffers in the pool (2 in uv_udp_ssl_init)
  Base,        \* values of a byte of a nonce (256)
  IvLen,       \* bytes of a nonce (16)
  EncNonce,    \* client_nonce of every CryptSetup
  DecNonce,    \* server_nonce of every CryptSetup
  MaxSetups,   \* bound: CryptSetup messages
  MaxSent,     \* bound: datagrams of the server under one key
  MaxWrites,   \* bound: datagrams of the client under one key
  Faults       \* what goes wrong, a subset of FaultKinds

FaultKinds == {"lose", "repeat", "reorder", "stray", "try_send"}
Iv == [1 .. IvLen -> 0 .. Base - 1]

\* What a unit behind the first i bytes counts; all nonces are Weight[IvLen] many.
Weight[i \in 0 .. IvLen] == IF i = 0 THEN 1 ELSE Base * Weight[i - 1]

\* One buffer for the datagram received and one for a write inside its callback.
\* No nonce is needed twice under one key: 2^128 of them in the code.
ASSUME UdpAssumption ==
  /\ N \in Nat \ {0, 1} /\ Base \in Nat \ {0, 1} /\ IvLen \in Nat \ {0}
  /\ EncNonce \in Iv /\ DecNonce \in Iv
  /\ MaxSetups \in Nat /\ MaxSent \in Nat /\ MaxWrites \in Nat
  /\ MaxWrites <= Weight[IvLen]
  /\ Faults \subseteq FaultKinds

VARIABLES
  cipher,    \* conn->cipher: the key's number (0: none yet) and both nonces
  pool,      \* conn->buffer_pool
  at,        \* libuv's receive loop: "idle", "alloc", "recv", or in the "cb"
  buf,       \* the buffer the loop holds, -1 if none
  server,    \* its key's number, and the datagrams it sent under it
  setup,     \* the number of a CryptSetup on its way, 0 if none
  heard,     \* the key of the last datagram of the client that arrived
  flying,    \* datagrams under way to the client
  inStep,    \* history: the datagrams received under the current key were the
             \* server's first ones, in order
  got,       \* history: how many, while that is so
  garbled,   \* history: one of them was garbled although they were in order
  sent,      \* history: nonces used for sending under the current key
  reused,    \* history: one of them was used twice
  aborted    \* "no", or what ended the process

udpVars == <<cipher, pool, at, buf, server, setup, heard, flying, got, inStep,
             garbled, sent, reused, aborted>>
connVars    == <<cipher, pool, at, buf>>
networkVars == <<server, setup, heard, flying>>
receivedVars == <<got, inStep, garbled>>
sentVars    == <<sent, reused>>

Held == {buf} \ {-1}
BP   == INSTANCE BufferPool WITH held <- Held, got <- -1

Running == aborted = "no"

-------------------------------------------------------------------------------
\* increment_iv: carry into the next byte while a byte becomes zero.
\* Faulty variants: bytes that do not wrap; no carry.
NoWrap(iv) == [iv EXCEPT ![1] = @ + 1]
NoCarry(iv) == [iv EXCEPT ![1] = (@ + 1) % Base]
increment_iv(iv) ==
  [i \in 1 .. IvLen |->
     IF \A j \in 1 .. i - 1 : iv[j] = Base - 1 THEN (iv[i] + 1) % Base ELSE iv[i]]

\* The number a nonce stands for, which is what the two sides have to agree on.
Number(iv) ==
  LET upTo[i \in 0 .. IvLen] == IF i = 0 THEN 0 ELSE upTo[i - 1] + iv[i] * Weight[i - 1]
  IN  upTo[IvLen]

\* uv_udp_ssl_decrypt recovers the text only with the key and the nonce the
\* server used for this datagram.
Decrypts(c, d) ==
  /\ c.key = d.key
  /\ Number(c.dec_iv) = (Number(DecNonce) + d.n) % Weight[IvLen]

-------------------------------------------------------------------------------
UdpInit ==
  /\ cipher = [key |-> 0, enc_iv |-> [i \in 1 .. IvLen |-> 0],
               dec_iv |-> [i \in 1 .. IvLen |-> 0]]
  /\ pool = BP!buffer_pool_init /\ at = "idle" /\ buf = -1
  /\ server = [key |-> 0, sent |-> 0] /\ setup = 0 /\ heard = 0 /\ flying = {}
  /\ got = 0 /\ inStep = TRUE /\ garbled = FALSE
  /\ sent = {} /\ reused = FALSE /\ aborted = "no"

\* The server makes a key and sends it over TCP; the next comes after this one
\* was taken.
ServerRekeys ==
  /\ Running /\ setup = 0 /\ server.key < MaxSetups
  /\ server' = [key |-> server.key + 1, sent |-> 0]
  /\ setup' = server.key + 1
  /\ UNCHANGED <<connVars, heard, flying, receivedVars, sentVars, aborted>>

\* A reply or voice, once the server knows the client's address.
ServerSends(kind) ==
  /\ Running /\ heard = server.key /\ heard > 0 /\ server.sent < MaxSent
  /\ server' = [server EXCEPT !.sent = @ + 1]
  /\ flying' = flying \cup {[key |-> server.key, n |-> server.sent + 1, kind |-> kind]}
  /\ UNCHANGED <<connVars, setup, heard, receivedVars, sentVars, aborted>>

\* Somebody else's datagram: the socket takes them from every address.
Stray(kind) ==
  /\ Running /\ "stray" \in Faults
  /\ flying' = flying \cup {[key |-> -1, n |-> 0, kind |-> kind]}
  /\ UNCHANGED <<connVars, server, setup, heard, receivedVars, sentVars, aborted>>

Lose(d) ==
  /\ Running /\ "lose" \in Faults /\ d \in flying
  /\ flying' = flying \ {d}
  /\ UNCHANGED <<connVars, server, setup, heard, receivedVars, sentVars, aborted>>

\* mumble_audio_encryption: the key and both nonces are replaced.
\* Faulty variant: a new key keeps the receiving nonce.
KeepDecIv(k) == [cipher EXCEPT !.key = k, !.enc_iv = EncNonce,
                               !.dec_iv = IF cipher.key = 0 THEN DecNonce ELSE @]
ocb_aes_set_keys(k) == [key |-> k, enc_iv |-> EncNonce, dec_iv |-> DecNonce]

uv_udp_ssl_set_encryption ==
  /\ Running /\ at = "idle" /\ setup # 0
  /\ cipher' = ocb_aes_set_keys(setup)
  /\ setup' = 0
  /\ got' = 0 /\ inStep' = TRUE /\ sent' = {}
  /\ UNCHANGED <<pool, at, buf, server, heard, flying, garbled, reused, aborted>>

-------------------------------------------------------------------------------
(* uv__udp_recvmsg: allocate, receive, call back, until there is nothing.  *)
UdpReadable ==
  /\ Running /\ at = "idle" /\ flying # {}
  /\ at' = "alloc"
  /\ UNCHANGED <<cipher, pool, buf, networkVars, receivedVars, sentVars, aborted>>

alloc_cb ==
  /\ Running /\ at = "alloc"
  /\ IF BP!CanAcquire(pool)
       THEN /\ pool' = BP!buffer_pool_acquire(pool)
            /\ buf' = BP!Acquired(pool)
            /\ at' = "recv"
            /\ UNCHANGED aborted
       ELSE /\ aborted' = "no_buffer"
            /\ UNCHANGED <<pool, buf, at>>
  /\ UNCHANGED <<cipher, networkVars, receivedVars, sentVars>>

Earliest(d) ==
  \A f \in flying : d.key < f.key \/ (d.key = f.key /\ d.n <= f.n)

\* What udp_cb can make of a text: as it was sent; or, of noise, a ping with a
\* time that was never sent (ignored), or a voice packet, on which the decoder
\* asserts, or which it drops or plays.  With a scrap len - 4 is below zero: the
\* last block takes it for 252 bytes or more, over the end of its locals, and
\* udp_cb gets it as a length.
Reactions(d, clear) ==
  IF clear THEN {"no"}
  ELSE IF d.kind = "ping" THEN {"no", "audio_decoder.c:18"}
  ELSE IF d.kind = "scrap" THEN {"no", "uv_udp_ssl.c:34", "audio_decoder.c:18"}
  ELSE {"no", "audio_decoder.c"}

\* recv_cb with a datagram, as far as the callback.  (Before the first keys the
\* nonces have no bytes to count in; the keys bring new ones.)
uv_udp_ssl_decrypt(d) ==
  /\ Running /\ at = "recv" /\ d \in flying
  /\ "reorder" \in Faults \/ Earliest(d)
  /\ flying' \in {flying \ {d}} \cup (IF "repeat" \in Faults THEN {flying} ELSE {})
  /\ LET next    == [cipher EXCEPT !.dec_iv = increment_iv(@)]
         ordered == inStep /\ d.key = cipher.key /\ d.n = got + 1
     IN  /\ cipher' = next
         /\ got' = IF ordered THEN got + 1 ELSE 0
         /\ inStep' = ordered
         /\ garbled' = (garbled \/ (ordered /\ ~Decrypts(next, d)))
         /\ aborted' \in Reactions(d, Decrypts(next, d))
  /\ at' = "cb"
  /\ UNCHANGED <<pool, buf, server, setup, heard, sentVars>>

\* The tail of recv_cb.  Faulty variant: an empty read keeps the buffer.
KeepIfEmpty(empty) ==
  /\ pool' = IF empty THEN pool ELSE BP!buffer_pool_release(pool, buf)
  /\ buf' = -1
ReleaseBuf(empty) ==
  /\ pool' = BP!buffer_pool_release(pool, buf)
  /\ buf' = -1

RecvCbReturn ==
  /\ Running /\ at = "cb"
  /\ ReleaseBuf(FALSE)
  /\ at' = "alloc"
  /\ UNCHANGED <<cipher, networkVars, receivedVars, sentVars, aborted>>

\* recv_cb with nread <= 0 ends the loop: nothing (more) has arrived.
RecvNothing ==
  /\ Running /\ at = "recv"
  /\ ReleaseBuf(TRUE)
  /\ at' = "idle"
  /\ UNCHANGED <<cipher, networkVars, receivedVars, sentVars, aborted>>

-------------------------------------------------------------------------------
\* uv_udp_ssl_write: a ping of the timer, or voice, which the user may also
\* send from the callback of a voice packet.  The buffer is taken and given
\* back in the call.  Nobody sends more than 1020 bytes.
uv_udp_ssl_write ==
  /\ Running /\ at \in {"idle", "cb"} /\ cipher.key > 0
  /\ Cardinality(sent) < MaxWrites
  /\ IF BP!CanAcquire(pool)
       THEN LET iv == increment_iv(cipher.enc_iv)
            IN  /\ cipher' = [cipher EXCEPT !.enc_iv = iv]
                /\ reused' = (reused \/ iv \in sent)
                /\ sent' = sent \cup {iv}
                /\ \/ /\ pool' = BP!buffer_pool_release(BP!buffer_pool_acquire(pool),
                                                        BP!Acquired(pool))
                      /\ heard' \in {heard, cipher.key}
                      /\ UNCHANGED aborted
                   \/ /\ "try_send" \in Faults
                      /\ aborted' = "try_send"
                      /\ pool' = BP!buffer_pool_acquire(pool)
                      /\ UNCHANGED heard
       ELSE /\ aborted' = "no_buffer"
            /\ UNCHANGED <<cipher, sentVars, pool, heard>>
  /\ UNCHANGED <<at, buf, server, setup, flying, receivedVars>>

UdpRest ==
  /\ ~Running \/ (at = "idle" /\ flying = {})
  /\ UNCHANGED udpVars

UdpNext ==
  \/ ServerRekeys \/ \E kind \in {"ping", "voice"} : ServerSends(kind)
  \/ \E kind \in {"stray", "scrap"} : Stray(kind)
  \/ \E d \in flying : Lose(d) \/ uv_udp_ssl_decrypt(d)
  \/ uv_udp_ssl_set_encryption \/ uv_udp_ssl_write
  \/ UdpReadable \/ alloc_cb \/ RecvCbReturn \/ RecvNothing
  \/ UdpRest

UdpSpec == UdpInit /\ [][UdpNext]_udpVars

-------------------------------------------------------------------------------
\* Types.
UdpTypeOK ==
  /\ cipher \in [key : 0 .. MaxSetups, enc_iv : Iv, dec_iv : Iv]
  /\ pool \in BP!Pool /\ buf \in BP!Buf \cup {-1}
  /\ at \in {"idle", "alloc", "recv", "cb"}
  /\ server \in [key : 0 .. MaxSetups, sent : 0 .. MaxSent]
  /\ setup \in 0 .. MaxSetups /\ heard \in 0 .. MaxSetups
  /\ flying \subseteq [key : {-1} \cup 1 .. MaxSetups, n : 0 .. MaxSent,
                      kind : {"ping", "voice", "stray", "scrap"}]
  /\ got \in 0 .. MaxSent /\ inStep \in BOOLEAN /\ garbled \in BOOLEAN
  /\ sent \subseteq Iv /\ reused \in BOOLEAN
  /\ aborted \in {"no", "no_buffer", "try_send", "uv_udp_ssl.c:34", "audio_decoder.c:18",
                  "audio_decoder.c"}

\* The abort() calls on an empty pool (uv_udp_ssl.c:53, :91) are not reached:
\* recv_cb gives its buffer back whatever it was called with, and at most one
\* write runs inside it.
UdpPoolSuffices == aborted # "no_buffer"

\* As long as the datagrams of a key arrive in order and without a gap, all of
\* them decrypt, across every carry of the nonce and every change of keys.
InOrderDecrypts == ~garbled

\* No two datagrams of the client are encrypted with the same key and nonce.
NonceNeverReused == ~reused

\* audio_decoder.c:18 asserts that what udp_cb passes on is long enough for
\* voice: a ping reply never gets there.
PingRepliesRecognised == aborted # "audio_decoder.c:18"
===============================================================================
