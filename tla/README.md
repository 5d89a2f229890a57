# Verification of the mumble client library

TLA+ specifications of `lib/mumble`, a Mumble voice client in C on top of libuv,
OpenSSL, Opus and protobuf-c, and of the little program `src/main.c` that uses
it. Everything the library does happens on one thread, in callbacks of the libuv
loop. What is hard about it is therefore not threads but

- calls that nest: libuv's read callback runs OpenSSL, which runs the client's
  callback, which writes, which runs OpenSSL and libuv again, all sharing a small
  pool of buffers;
- input that arrives in pieces of any size;
- timers that race late, lost and repeated datagrams;
- two sides that must count in step (nonces, frame lengths, encoded integers).

The vendored libraries under `3rdparty/` are not the subject. Where the order in
which libuv calls back matters (its read loops and its timers) that order is
taken from the vendored source; OpenSSL, DNS, the server and the network are
modelled from how this code uses them.

## Inventory

| component | state | operations | modules |
|---|---|---|---|
| buffer pool (`util/buffer_pool.c`) | array of pointers, number in use | init, acquire, release | `BufferPool`, `BufferAllocator`, `BufferPoolProofs` |
| TLS over TCP (`uv_tcp_ssl.c`) | SSL object, memory BIO, pool of 4 | connect, DNS and connect callbacks, alloc and read callbacks, handshake, read loop, write | `TcpSsl`, `TcpSslProofs` |
| frame decoder (`frame_decoder.c`) | one buffer and its size | append, ready, type, size, pop, decode | `FrameDecoder`, `FrameDecoderProofs` |
| client (`mumble_client.c`) | decoder, encoder, socket, ping timer | message loop, internal routines, connect callback, ping, write | `FrameDecoder` (loop), `ClientSend` (what is written), `TcpSsl` (how writes nest) |
| UDP pinger (`udp_ping.c`) | connected, last attempt, two timers | start, stop, two timer callbacks, recv | `UdpPing`, `UdpPingProofs` |
| encrypted UDP (`uv_udp_ssl.c`) | key, two nonces, pool of 2 | set_encryption, alloc and recv callbacks, decrypt, write | `UdpSsl`, `UdpSslProofs` |
| PCM blocks (`buffer.c`) | one block and its fill | write, flush | `FrameBuffer`, `ClientSendProofs` |
| integers (`util.c`) | none | encode_size, encode, decode | `Varint`, `AudioReceiveProofs` |
| voice (`audio.c`) | pinger, both sockets, codecs | choice of path, dispatch of datagrams | `ClientSend`, `AudioReceive`, `UdpPing` |
| audio encoder, Opus framing (`audio_encoder.c`, `codec/opus.c`) | sequence number, PCM block | encode | `ClientSend`, `ClientSendProofs` |
| audio decoder (`audio_decoder.c`, `codec/opus.c`) | last sequence number, counters | decode | `AudioReceive`, `AudioReceiveProofs` |
| OCB-AES (`ocb_aes.c`) | key, nonces | OCB2 encrypt and decrypt, OCB3 encrypt | `Ocb`, `OcbProofs`; key setup in `UdpSsl` |
| frame encoder (`frame_encoder.c`) | one buffer | encode | `ClientSend`, `ClientSendProofs` |
| demo program (`main.c`) | | answers a text message with a tone | `ClientSend` |
| CELT stub, `Mumble.proto` | | | not modelled (see below) |

How they interact: `mumble_client_connect` starts `uv_tcp_ssl`; its connect
callback greets the server and starts a ping timer. Bytes from TLS go to the
frame decoder; the loop hands tunnelled voice to the audio decoder and messages
to the internal routines and the user. A CryptSetup message sets the keys of
the UDP socket and (re)starts the pinger. Datagrams are decrypted, and are ping
replies, which go to the pinger, or voice. Outgoing PCM is cut into blocks,
encoded, and sent by UDP when the pinger says the path is alive, else through
the TCP connection.

What makes each part correct, and what could be wrong with it, is listed line
by line under "hazards" in `PROJECT.json`, with the properties that would catch
it.

## Modules

**BufferAllocator** is the promise: acquire returns a buffer nobody holds, and
none only when all are held. **BufferPool** is the code: an array whose first
`in_use` entries are handed out; release swaps the entry with the last one in
use. `held` is what the callers hold. Its operators are used by `TcpSsl` and
`UdpSsl` through `INSTANCE`.

**TcpSsl** has the C call stack as a variable, each frame with its location in
the code, the buffer it holds and the writes it still makes. One action is one
stretch of code between two calls. The server's stream is a sequence of
records, each of two halves; a read takes up to `Cap` halves. `fresh` marks the
time between the end of the handshake and the next call of SSL_read. Failures
are named in `Faults`: `stack_reuse` stands for the connect request that
`uv_ssl_dns_cb` leaves on its dead stack frame; `handshake` for a handshake that
OpenSSL refuses, with its alert written through the write BIO before
`SSL_do_handshake` returns, or that the server refuses; `handshake_end` for an end
that falls to the default branch and makes no callback; `tls_end` and `tls_error`
for the two ways `SSL_read` ends a session (`ret == 0`; an alert and then
`ret < 0`), after which `SSL_in_init` stays false, as in the OpenSSL of this
code's time; `big_record` for a message whose record does not fit the pool's
buffer (which ones those are is `RecordFits` of `ClientSend`).

**FrameDecoder** keeps the decoder's buffer as a window on the server's byte
stream: bytes enter at the back and leave at the front, so an offset and a size
are the whole state. Frames may have any length; an append that does not fit the
buffer has run over its end, which ends what is modelled. A frame is *torn* when the loop cuts one from a buffer of
exactly five bytes; most properties speak of the time before that, and the run
`frame_torn` shows that it happens.

**UdpPing** counts seconds, the resolution of the timestamps. A timer is armed
or not and has seconds left, below zero while the loop is late. Replies fly
with an age; they may be lost, delayed up to `MaxAge` and delivered repeatedly.
libuv runs due timers in the order of their deadlines.

**UdpSsl** has nonces of `IvLen` digits to the base `Base`, an ideal cipher and
a server whose n-th datagram needs its first nonce plus n. `increment_iv` is
the code's digit by digit carry; what it must agree with is ordinary addition
on `Number`, the number a nonce stands for. Strangers' datagrams (`Stray`), which
the socket takes as well, decrypt to noise and advance the nonce; those of fewer
than four bytes may also end in the overrun that `len - 4` leads to.

**FrameBuffer** counts bytes. The mutual recursion of write and flush takes a
bounded stack, `StackDepth`.

**Varint** has 64-bit numbers as eight bytes and no state of its own.
`buf[++position]` several times in an expression is undefined in C; the model
has the left-to-right order that gcc gives it.

**ClientSend** extends both: everything the client writes, as a list of frames
on TCP and a list of voice packets on UDP. A message is its name, the strings
and numbers the code sets, and the `has_` flags it sets; `Packed` is what
protobuf-c makes of them. A voice write is a call that goes round by round
through the block buffer, and each full block goes in the same step through
`on_encoder_frame`, `encoder_codec_cb` and `encoder_cb`, whose callbacks nest.
What Opus returns is a length from `PayloadLens`; sequence numbers count modulo
`SequenceRange`, 2^32 in the code. A frame whose TLS record (`RecordOverhead` bytes
longer) exceeds the socket's 16 kB buffers overruns one of them (`RecordFits`). The pinger is one flag that
changes between callbacks. The audio encoder never sets the end bit;
`mumble_codec_opus_encode` and `CodecFlush` are called with it as any other user
of the codec could, because `buffer.h` documents it.

**AudioReceive** takes one packet at a time through `udp_cb`, or, tunnelled,
straight to the audio decoder, and records where it ended: played, dropped, at
an assertion (named by file and line), or hung. The numbers in a packet are its
real bytes, written with `varint_encode` by the speaker and read with
`varint_decode`; payload and position are lengths. What `udp_cb` takes for a ping
never reaches the decoder's counters (`PingEnds`). Noise is what a datagram
decrypts to once the nonces are out of step (`UdpSsl`): a few first bytes that
lead to every branch, and bytes behind them that are all zeros or all ones.

**Ocb** has the two modes of `ocb_aes.c` with the width of a byte, the bytes of
a block and the reduction polynomial as parameters, and any permutation of the
blocks as AES. One action is one round of a loop. OCB2 texts are encrypted and
then decrypted by a peer with the same code; OCB3 results are compared with
`RfcEncrypt`, RFC 7253 written down on strings of bits: doubling, padding and the
formatting of the nonce are its own (`RfcDouble`, `RfcPad`, `RfcNonce`) and share
nothing with the code's bytes and shifts but the cipher and xor. The tag is a
block long, as the code has it.

The `MC` modules give the constants of their modules values that a
configuration cannot express. In every module a definition named
in a comment as a faulty variant stands in front of the definition it replaces;
`PROJECT.json` says under "mutants" which property each one breaks.

## Runs

| run | result |
|---|---|
| `buffer_pool` | N = 4 as in the TCP socket, all orders of acquire and release: the pool is an allocator |
| `tcp_ssl` | every fault; `Cap` = 3 so that reads end inside records and sometimes fill the buffer: buffers are accounted for, only leaks exhaust the pool, OpenSSL is drained, the client is called once, a failed handshake ends the process at the first write, and every record that arrives is handed on unless it came with the end of the handshake or the session or the process is over |
| `tcp_ssl_pool` | **violated**: `uv_ssl_read_cb` keeps the buffer when nread <= 0; two full reads and the pool is too small |
| `frame_decoder` | six frames of five types (two CryptSetups, one body that does not parse), reads of 1, 2, 3, 5, 7, 8 or 15 bytes: framing, dispatch and keys are right, the buffer overruns only on account of a frame that is not all there, and everything received is worked off |
| `frame_torn` | **violated**: five bytes count as a frame |
| `udp_ping` | timers, late replies, restarts and stops: attempts are timed, trust is bounded, answered attempts are not given up, attempts go on for ever and each ends |
| `udp_ssl` | loss, repetition, reordering, stray and short datagrams, two keys: two buffers suffice, datagrams in order decrypt, no nonce is reused |
| `udp_ssl_loss` | **violated**: after one lost datagram a ping reply fails an assertion |
| `client_send` | voice writes short of, equal to and beyond a block, two targets, both paths, pings, an application's messages and the demo's tone: each full block is sent once, on one path, in the order of its number and to the target of the write that filled it, also where the numbers start again; no packet is too long for a datagram; a transmission that ends with a full block is told so |
| `end_final` | **violated**: a transmission that ends inside a block gets no final callback, but an endless recursion |
| `audio_receive` | three packets of two speakers in any order, with numbers on both sides of each limit of `util.c`: fields are cut where they were written, voice is played in order, only overtaken packets are dropped, ordinary Opus packets pass every assertion |
| `ocb` | OCB2 under every nonce with up to eight blocks and a tail, OCB3 with every shift of its offset: decryption inverts encryption, offsets never repeat, the tags of whole blocks meet, and OCB3 agrees with the RFC inside a range |

The findings in `PROJECT.json` quote the comment, assertion or schema line each
violated property comes from.

Seven more configurations state one line of the repository each that the code
does not keep. TLC finds a counterexample to each in seconds, within a few steps;
they are run by hand and are not among the runs of `PROJECT.json`.

| configuration (module) | the line | the code |
|---|---|---|
| `FrameMalformed` (`MCFrameDecoder`), `OnlyDecodedDelivered` | `mumble_client.c:51` "If successful, run internal routines" | `frame_decoder.c:122` tests `message` in place of `*message`: a body that does not parse is delivered as NULL |
| `FrameTunnel` (`MCFrameDecoder`), `AudioFrameAccepted` | `mumble_client.c:38` "Send to audio" | `:42` passes the buffer with the frame's header in front: an ordinary voice packet fails an assertion of the audio decoder |
| `FrameResync` (`MCFrameDecoder`), `ResyncAccepted` | `Mumble.proto:343-346` "The resync is performed by sending the message with only the client or server nonce filled" | `mumble_client.c:23` asserts a key |
| `FrameOverrun` (`MCFrameDecoder`), `MaxSizeFits` | `frame_decoder.c:9-10` `MUMBLE_FRAME_MAX_SIZE`, "dynamically resize if needed" | `:90` appends unchecked: frames that all fit the buffer overrun it |
| `Greeting` (`MCClientSend`), `VersionAnnounced` | `mumble_client.c:85` "Send version info, lets the server know we accept the 1.2.5 protocol" | `:87` sets the number without its flag, and protobuf-c packs an empty message |
| `RecordOverrun` (`MCClientSend`), `EncodedIsWritten` | `frame_encoder.c:84` lets frames of up to 1 MB pass | `uv_tcp_ssl.c:97` copies a record of 16 kB and its overhead into a buffer of 16 kB |
| `OcbTags` (`MCOcb`), `TagsAgree` | `ocb_aes_test.c:318` means to compare the tag of a decrypted text of 40 bytes with that of its encryption | `ocb_aes.c:108` ends in `ocb2_encrypt_block_final`, which puts the tail into the checksum as it came in, so the tags differ |

### Also visible in the models

The passing properties make explicit exceptions for the following, which the
models contain because the code does it:

- `mumble_client.c:75`: the connect callback writes whatever the handshake's
  result, and after a failed one `ssl_write` aborts (`FailedHandshakeIsFatal`).
- `frame_decoder.c:43`: the table of types is bounded by its size in bytes, so
  a type behind its end reads beyond it.
- `udp_ping.c:97`: a stop leaves `waiting` set, and a late reply then makes the
  path look alive although no timer runs.
- `udp_ping.c:40`: the clock is read once for the attempt and once for the
  packet; when the second changes in between, the reply is not recognised.
- `uv_tcp_ssl.c:64`: a record that comes in one read with the end of the handshake
  waits for the next data from the server.
- `uv_tcp_ssl.c:29` and `:203`: when the server ends the TLS session, or a record
  is bad, the client is not told.
- `uv_udp_ssl.c:34`: a datagram of fewer than four bytes makes `len - 4` wrap
  around.
- `buffer.c:40`, the recursion of `end_final`: the client itself never sets the end
  bit, so it does not get there; `CrashNeedsRemainder` says who can. An ending write
  of no bytes into an empty block makes no callback at all.
- `codec/opus.c:134`: without the end bit the remainder of a transmission stays
  in the block and opens the first packet of the next, under the next one's
  target (`EachBlockOnce`). The receiver is never told of an end.
- `codec/opus.c:120`: the block's size is a number of samples used as a number
  of bytes, so the "20 ms" of `mumble_audio_init` are blocks of 10 ms.
- `codec/opus.c:100`: a payload within three bytes of the block's size fails the
  assertion (`aborted = "framed"`); the datagram's limit is never reached.
- `util.c:33` and `:36`: four bytes are joined as an int, so a number of five or
  nine bytes with bit 31 set comes back with ones in its upper half (the comment
  at `:136` calls the form "a full 32-bit integer"). `SelfDelimiting` excepts
  these numbers; `PlayedInOrder` holds below 2^31 only, because such a number is
  above every number stored in 32 bits.
- `audio_decoder.c`: the process ends at an assertion for voice packets of eight
  bytes or fewer (`:18`), positional audio behind Opus (`codec/opus.c:73`),
  another codec whose payload is not twelve bytes long (`:70`), and Opus
  payloads of more bytes than samples (`:62` takes samples off a length). `OpusSurvives`
  says that nothing else does.
- `audio_decoder.c:48`: one sequence number serves all speakers;
  `DropNeedsOvertaking` allows a drop on account of another speaker's number.
- `ocb_aes.c:108`, the tag of `OcbTags`: in `ocb_aes_test.c:318` the `ret &&` in front
  of the comparison, where 0 is success, keeps it from being made, so the test
  passes; `uv_udp_ssl_decrypt` ignores tags.
- `ocb_aes.c`, OCB3: `ntz` is a logarithm, the hash's loop counts bytes, the tail of
  the associated data is taken from its start (`:210`) and five bits choose the
  shift (`:373`). `InRfcRange` is what is left, and each of its conjuncts is
  needed. The client does not use OCB3.
- `util.c:40`: the marker of a negative number is read by a recursion on the
  same position. The encoder's branch for it (`util.c:66`) tests an unsigned
  number for a sign and is never taken.

### Bounds

The pools have the sizes of the code. In `TcpSsl` five records are two for the
handshake and three messages: enough for two leaks and a third read, and for
several records in one read. In `FrameDecoder` the chunks include one and five
bytes, a whole frame and several frames; `Allocated` is a few bytes less than the
longest frame and the longest chunk together, so that the buffer does overrun, and
for that reason only. In
`UdpPing` a reply may be under way longer than a period, so replies of two
attempts meet; `MaxLate` is one second for each timer. In `UdpSsl` base 2 and
two digits make the nonces carry and wrap within three datagrams. `ClientSend` has the code's
sizes, 960 and 1020 bytes; the writes are those that leave, fill and overrun a
block by one sample, three blocks in all, so a remainder meets a change of
target and of path; target 33 does not fit the header's five bits; payloads lie on both sides of the assertion and of the
varint's limit; sequence numbers start where they grow to two bytes, and
`SequenceRange` makes them wrap two packets later. A TLS record adds 29 bytes
(AES-GCM in TLS 1.2), and messages lie on both sides of the limit that follows. In
`AudioReceive` numbers lie on both sides of each limit of a form, of 2^31 and
of 2^32, and three packets are the fewest in which a packet is dropped and
the next compared with what was kept. In `Ocb` bytes have three bits and
blocks two bytes: the smallest sizes with a border inside a block, a carry out of
it and shifts up to a whole byte; doubling is multiplication in the field of 64
elements, as it is in that of 2^128 in the code. All 64 nonces are tried with
two keys.

### Fairness

`TcpFairSpec`: a C function that was called goes on (`InCall`), libuv completes
requests and polls the socket, and TCP delivers. `FrameFairSpec`: the loop's
iterations go on, and the stream is delivered. `PingFairSpec`: time passes, the
loop runs due timers; nothing is assumed of the datagrams or of the server. `SendSpec`: a running voice
write goes on. All are weak fairness
of what one thread does or of time; none assumes a choice in favour of the
property.

Deadlock is checked in all runs. The states in which the program may rest, an
idle loop or a dead process, have an explicit stuttering action (`Rest`,
`FrameRest`, `UdpRest`, `ProcessGone`, `ReceiveRest`, `OcbRest`).

## Proofs

Checked by TLAPS for all values of the constants that satisfy the named
assumptions. Every safety invariant of the passing runs is proved.

- `BufferPoolProofs`, from `PoolSizeAssumption` (at least one buffer):
  `PoolCorrect`, `PoolNoPointerTwice`, `PoolPrefixIsHeld` and
  `PoolImplementsAllocator`. The invariant is the conjunction of types, "no
  pointer twice" and "the prefix is what is held": release preserves the second
  only because the third puts its argument inside the prefix, and the third
  only because of the second. `ReleaseShape` describes the swap slot by slot;
  the refinement is a case split on its steps.
- `TcpSslProofs`, from `TcpAssumption` (any pool, stream, read size and set of
  faults): `TcpTypes`, `TcpPoolBalanced`, `TcpExhaustion`, `TcpDrained`,
  `TcpConnectsOnce`, `TcpFailureIsFatal`. That buffers balance is not inductive by
  itself. `Nested` lists which call can be on top of which; `LeakedFirst` says
  that the array begins with the leaked buffers and goes on with those of the
  stack, bottom first, so that a release always gives back the last entry and
  leaves the array as it is; `HandshakeInv` and `ReadsInv` tie the TLS state
  and what OpenSSL still holds to the call that is active: `uv_ssl_handshake` runs
  in the states `Starting`, `uv_ssl_read` in the states `Up`, never both.
- `FrameDecoderProofs`, from `StreamAssumption` (the stream is a sequence of
  frames of any length, the buffer and the reads have any size): `FrameCorrect`,
  `FrameFraming`, `FrameHandled`, `FrameOverrun`, `FrameKeysLatest`. The
  invariant adds `DrainedOutside`: between callbacks no whole frame is left,
  which is why only the frame at the front can be in the way of the unchecked copy
  of `mumble_frame_append`.
  `ReadyMeans` is the lemma where the five bytes appear.
- `UdpPingProofs`, from `PingAssumption` (the code's own two assertions):
  `PingCorrect`, `PingWaitingIsTimed`, `PingTrustBounded`,
  `PingTimeoutMeansLost`. The bound on trust is not inductive; `SilencePaid`
  says that the seconds of silence so far and those left on the timer that will
  run next stay within the bound. A second moves one from the timer to the
  silence, and a callback starts the timer that pays for the rest.
- `UdpSslProofs`, from `UdpAssumption` (two buffers or more, nonces of any length
  and base, no more writes under a key than there are nonces):
  `UdpTypes`, `UdpBuffersSuffice`, `UdpInOrderDecrypts`, `UdpNonceNeverReused`.
  `OneBufferAtMost`: outside a write only the receive loop holds a buffer, and the
  two are given back in the opposite order. `NonceInv`: each nonce is its first
  value plus the datagrams received in step, or sent, modulo all nonces;
  it rests on `IncrementAddsOne`, that the carry of `increment_iv` is addition of
  one, which `CarryByteByByte` shows by induction over the bytes.
- `ClientSendProofs`, from `ClientSendAssumption`, `AppAssumption` and
  `FrameBufferAssumption` (any application, targets and payload lengths):
  `SendTypes`, `SendNothingLost`, `SendCrash`, `SendEachBlockOnce`,
  `SendFitsDatagram`. The invariant follows the bytes:
  `BufferInv` and `Written` account for them while a call is under way,
  `AskedOK` says that the recorded writes grow, so that exactly one of them
  filled a given block, and `SentOK` that the packets so far are the blocks so
  far.
- `AudioReceiveProofs`, from `ReceiveAssumption` (any speakers, numbers, payload
  lengths below 2^13 and noise): `ReceiveTypes`, `ReceiveSelfDelimiting`,
  `ReceivePlayedInOrder`, `ReceiveDrops`, `ReceiveOpusSurvives`.
  `DecodesEncoded` and `ReadBack` are the round trip of `varint_encode` and
  `varint_decode` for every 64-bit number, one lemma for each form; `PacketFields`
  cuts a packet with them, and `Outcome` says where it ends. Order needs more than
  itself: `SequenceIsLast` (the number kept is the last one played while numbers
  are below 2^31) and `SequenceWasPlayed` (what is below the number kept is below a
  number that was played, unless noise was).
- `OcbProofs`, from `OcbAssumption` (any permutation as the cipher, any width,
  polynomial and text): `Ocb2RoundTrips` and, for whole blocks, `Ocb2TagsMeet`. `Encrypting` and
  `Decrypting` have the offsets and checksums of the rounds so far as witnesses;
  the decrypting side's offset is the one that was used for the same block.
  `ShiftedBit` says which bit `left_shift` brings where; from it `DoubleAsRfc`
  (`double_block` is the RFC's doubling) and `OffsetAsRfc` (the stretch, shifted
  byte by byte, is the RFC's substring); `PaddedAsRfc`, `NonceBit` and `TopAsRfc` do
  the same for the padding and the nonce, bit by bit.
  - `Ocb2OffsetsDistinct`, with `FieldAssumption`: `DoubleNotZero` keeps offsets from
    zero, and two equal offsets would be one block doubled, no more times than the
    text has blocks, back to itself. The assumption is about the polynomial, not the
    code, and is stated on the RFC's doubling: TLC evaluates it in the run's field
    of 64 elements; for the code's, x^128 + x^7 + x^2 + x + 1 is primitive, so that x
    has the order 2^128 - 1.
  - `Ocb3FollowsRfc`, with `StretchAssumption` (no shift runs off the stretch, 31 bits
    of at most 64 in the code, and a block's size fits an int). `Ocb3Inv` says that
    behind each block the loop holds the RFC's offset, checksum and ciphertext;
    `HashAsRfc` and `FinalAsRfc` do the associated data and the end. In the range
    there is one block of text and two of associated data at most, so the RFC's
    recursive sums are unfolded (`FirstOffsets`, `RfcHashIs`, `RfcEncryptIs`); outside
    it the code differs from the RFC, see the notes on OCB3 above.

The type invariants of `BufferPool`, `FrameDecoder` and `UdpPing` are conjuncts
of the proved invariants and have no run of their own; a block out of its type
would stop the run `ocb` at the cipher's domain.

Induction over the naturals is used in `UdpSslProofs`, for the recursive functions
`Weight` and `Number`, and in `OcbProofs`, for doubling again and again:
`LeastElement` comes from the library's theorems on well-founded relations;
`UpwardTo`, `Recursion` and `SameEnd` follow from it. That a recursive function
exists is shown by a function that satisfies its equation.

Only model-checked: the liveness properties (fairness is out of the prover's
reach): `EventuallyDelivered`, `EventuallyAllHandled`, `AttemptsForever`,
`AttemptsEnd` and `BoundaryEndIsFinal`. The violated runs and configurations are
counterexamples of the code's constants and have nothing to prove.

## Not modelled

- Opus, AES, protobuf and libuv: libraries. Taken from their source are only the
  order of libuv's callbacks and which fields protobuf-c packs.
- `codec/celt_alpha.c`: a stub that is not built. `Mumble.proto`: a schema. The
  samples of the demo's tone and what it prints.
- Functions nobody calls: closing and freeing sockets, decoders, encoders and pools.
- Renegotiation of TLS, certificates, the contents of messages beyond which
  fields are present.
- The components are composed where they share state: pool with each socket,
  decoder with the client's loop, block buffer with encoders and path. One module of
  the whole client is not there: the parts meet only in one flag
  (`connected`), one set of keys and the callbacks of one thread, and their
  product is beyond TLC without showing a new interaction.

## Plan

Modelling and the safety proofs are done. What is left is out of the prover's
reach (the liveness properties) or not in the code (recovery from short writes,
what is read from a dead stack frame or behind the table of message types).
