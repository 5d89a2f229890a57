----------------------------- MODULE AudioReceive -----------------------------
(***************************************************************************)
(* Voice packets received: udp_cb of audio.c, audio_decoder.c and the      *)
(* decoder of codec/opus.c, on the bytes of the packets' numbers (Varint). *)
(*                                                                         *)
(* A datagram of the server is a speaker's packet, decrypted in step or to *)
(* noise (UdpSsl); through TCP the packet comes behind its frame's header  *)
(* (FrameDecoder).  Between the speaker and the server packets are lost    *)
(* and overtake each other.  Payload and position are lengths.             *)
(***************************************************************************)
EXTENDS Varint

CONSTANTS
  Sources,     \* the speakers' session numbers
  Numbers,     \* sequence numbers of their packets
  Lens,        \* lengths of Opus payloads
  Samples,     \* samples of a decoded payload.  External.
  Noise,       \* first bytes of datagrams decrypted with a wrong nonce
  NoiseLens,   \* bytes behind them
  MaxPackets   \* bound: packets received

ASSUME ReceiveAssumption ==
  /\ Sources \subseteq UInt64 /\ Numbers \subseteq UInt64
  /\ Lens \subseteq 1 .. 32 * 256 - 1 /\ Samples \subseteq Nat \ {0}
  /\ Noise \subseteq Seq(Byte) \ {<<>>} /\ NoiseLens \subseteq Nat /\ MaxPackets \in Nat

VARIABLES
  decoder,   \* sequence, packets and dropped_sequence of mumble_audio_decoder_t
  played,    \* history: source and number of the packets handed to the callback
  last       \* history: the last packet, what was read of it, what became of it

receiveVars == <<decoder, played, last>>

MUMBLE_AUDIO_PING == 1
MUMBLE_AUDIO_OPUS == 4
PositionBytes     == 12
Codec(byte)       == byte \div 32    \* MUMBLE_AUDIO_TYPE

-------------------------------------------------------------------------------
(* What arrives.  External. *)
Packet(kind, source, number, len, bytes, rest) ==
  [kind |-> kind, source |-> source, number |-> number, len |-> len, bytes |-> bytes, rest |-> rest]

\* A speaker's Opus packet: the length with the bit that ends a transmission, and
\* a position behind the payload.
OpusPacket(source, number, len, final, position) ==
  Packet(IF position THEN "positional" ELSE "opus", source, number, len,
         <<MUMBLE_AUDIO_OPUS * 32>> \o varint_encode(source) \o varint_encode(number)
            \o varint_encode(UInt(IF final THEN len + 32 * 256 ELSE len)),
         IF position THEN len + PositionBytes ELSE len)

\* Another codec: a speaker with Speex or CELT.
OtherPacket(source, number, len) ==
  Packet("other", source, number, len,
         <<64>> \o varint_encode(source) \o varint_encode(number), len)

\* Behind the frame's header: type 1, and a length below 2^16.
TunnelPacket(source, number, len) ==
  LET p == OpusPacket(source, number, len, FALSE, FALSE)
      size == Len(p.bytes) + len
  IN  [p EXCEPT !.kind = "tunnelled", !.bytes = <<0, 1, 0, 0, size \div 256, size % 256>> \o @]

NoisePacket(bytes, rest) == Packet("noise", UInt(0), UInt(0), 0, bytes, rest)

-------------------------------------------------------------------------------
(* mumble_audio_decoder_decode: what it reads and how it ends.               *)
\* The unsigned decoder->sequence keeps 32 bits.  Faulty variant: all of them.
StoredWhole(v) == v
Stored(v) == [i \in 1 .. 8 |-> IF i <= 4 THEN 0 ELSE v[i]]

\* Faulty variants: a number that comes again is dropped, too; none is.
StaleOrSame(seq, sequence) == ~Below(sequence, seq)
NeverStale(seq, sequence) == FALSE
Stale(seq, sequence) == Below(seq, sequence)

\* A number of the packet after the first `at' bytes.  Behind the bytes that are
\* modelled lie others.
Field(bytes, len, at) == varint_decode(SubSeq(bytes, at + 1, at + 9), len - at)

\* Where the fields begin: source, sequence, and the codec's own length.
Fields(bytes, len) ==
  LET source == Field(bytes, len, 1)
      number == Field(bytes, len, 1 + source.read)
      at     == 1 + source.read + number.read
  IN  IF source.read <= 0 THEN [source |-> source, number |-> source, length |-> source, at |-> 1]
      ELSE IF number.read <= 0 THEN [source |-> source, number |-> number, length |-> number, at |-> at]
      ELSE [source |-> source, number |-> number, length |-> Field(bytes, len, at), at |-> at]

\* The length in mumble_codec_opus_decode, without the bit that ends a
\* transmission; anything longer than a datagram is as good as 2^16.
VarLen(v) ==
  IF (v[7] \div 32) % 2 = 1 THEN (v[7] % 32) * 256 + v[8]
  ELSE IF Clear(v, 6) THEN v[7] * 256 + v[8] ELSE 256 * 256

\* Its assertions: not empty, and exactly the rest of the packet.
\* Faulty variant: the length before the number was taken off.
LengthBefore(varlen, len, ret) == varlen > 0 /\ varlen = len
LengthHolds(varlen, len, ret) == varlen > 0 /\ varlen < len /\ varlen = len - ret

\* How it ends, given the number that was read at its start.
mumble_codec_opus_decode(length, len, samples) ==
  IF length.read = 0 THEN "hung"
  ELSE IF length.read < 0 THEN "opus.c:67"
  ELSE IF ~LengthHolds(VarLen(length.value), len, length.read) THEN "opus.c:73"
  ELSE IF samples <= 0 THEN "opus.c:81"
  ELSE "decoded"

\* After Opus the number of samples is taken off the bytes that are left.
mumble_audio_decoder_decode(sequence, bytes, len, samples) ==
  LET f    == Fields(bytes, len)
      opus == Codec(bytes[1]) = MUMBLE_AUDIO_OPUS
      end  == IF opus THEN mumble_codec_opus_decode(f.length, len - f.at, samples) ELSE "decoded"
      left == IF opus THEN len - f.at - samples ELSE len - f.at
  IN  IF len <= 8 THEN "audio_decoder.c:18"
      ELSE IF Codec(bytes[1]) = MUMBLE_AUDIO_PING THEN "audio_decoder.c:24"
      ELSE IF f.number.read = 0 THEN "hung"
      ELSE IF f.number.read < 0 THEN "audio_decoder.c:43"
      ELSE IF Stale(f.number.value, sequence) THEN "dropped"
      ELSE IF end # "decoded" THEN end
      ELSE IF left > 0 /\ left # PositionBytes THEN "audio_decoder.c:70"
      ELSE "played"

\* decoder_cb and mumble_on_audio hand the packet on.
decoder_cb(p) == Append(played, [kind |-> p.kind, source |-> p.source, number |-> p.number])

\* udp_cb: a ping's answer goes to the pinger, and the decoder never counts it.
PingEnds == {"pong", "audio.c:13", "audio.c:14"}
udp_cb(sequence, bytes, len, samples) ==
  IF bytes[1] # 32 THEN mumble_audio_decoder_decode(sequence, bytes, len, samples)
  ELSE LET time == Field(bytes, len, 1).read
       IN  IF time > 0 THEN "pong" ELSE IF time = 0 THEN "audio.c:13" ELSE "audio.c:14"

-------------------------------------------------------------------------------
Nothing == [packet |-> NoisePacket(<<0>>, 0), source |-> UInt(0), number |-> UInt(0),
            samples |-> 0, end |-> "none"]
Alive == last.end \in {"none", "played", "dropped", "pong"}

\* mumble_audio_decoder_init
ReceiveInit ==
  /\ decoder = [sequence |-> UInt(0), packets |-> 0, dropped_sequence |-> 0]
  /\ played = <<>> /\ last = Nothing

Receive(p, samples) ==
  /\ last = Nothing /\ decoder.packets < MaxPackets
  /\ \E junk \in IF p.kind = "noise" THEN {0, 255} ELSE {0} :
       LET bytes == p.bytes \o [i \in 1 .. 28 |-> junk]
           len   == Len(p.bytes) + p.rest
           f     == Fields(bytes, len)
           end   == IF p.kind = "tunnelled"
                      THEN mumble_audio_decoder_decode(decoder.sequence, bytes, len, samples)
                      ELSE udp_cb(decoder.sequence, bytes, len, samples)
       IN  /\ decoder' = [sequence |-> IF end = "played" THEN Stored(f.number.value) ELSE decoder.sequence,
                          packets |-> IF end \in PingEnds THEN decoder.packets ELSE decoder.packets + 1,
                          dropped_sequence |-> IF end = "dropped" THEN decoder.dropped_sequence + 1
                                                                  ELSE decoder.dropped_sequence]
           /\ played' = IF end = "played" THEN decoder_cb(p) ELSE played
           /\ last' = [packet |-> p, source |-> f.source.value, number |-> f.number.value,
                       samples |-> samples, end |-> end]

ReceiveOpus == \E s \in Sources, n \in Numbers, l \in Lens, final, position \in BOOLEAN, k \in Samples :
                 Receive(OpusPacket(s, n, l, final, position), k)
ReceiveOther == \E s \in Sources, n \in Numbers, l \in Lens : Receive(OtherPacket(s, n, l), 0)
ReceiveTunnelled == \E s \in Sources, n \in Numbers, l \in Lens, k \in Samples : Receive(TunnelPacket(s, n, l), k)

\* opus_decode may also refuse the noise.
ReceiveNoise == \E b \in Noise, l \in NoiseLens, k \in Samples \cup {-1} : Receive(NoisePacket(b, l), k)

\* The loop gets its turn again.
Return ==
  /\ last # Nothing /\ Alive
  /\ last' = Nothing
  /\ UNCHANGED <<decoder, played>>

ReceiveRest ==
  /\ ~Alive \/ (last = Nothing /\ decoder.packets = MaxPackets)
  /\ UNCHANGED receiveVars

ReceiveNext ==
  ReceiveOpus \/ ReceiveOther \/ ReceiveTunnelled \/ ReceiveNoise \/ Return \/ ReceiveRest

ReceiveSpec == ReceiveInit /\ [][ReceiveNext]_receiveVars

-------------------------------------------------------------------------------
\* Types; the counters of the decoder are those of what it was given.
ReceiveTypeOK ==
  /\ decoder.sequence \in UInt64 /\ Clear(decoder.sequence, 4)
  /\ decoder.packets \in 0 .. MaxPackets
  /\ decoder.packets = Len(played) + decoder.dropped_sequence
                         + (IF Alive \/ last.end \in PingEnds THEN 0 ELSE 1)
  /\ last.source \in UInt64 /\ last.number \in UInt64

FromPeer == last.packet.kind \in {"opus", "positional", "other"}

\* The lower half is read as a negative int, whose sign overwrites the upper.
TopBit(v) == varint_encode_size(v) >= 5 /\ v[5] >= 128 /\ \E i \in 1 .. 4 : v[i] # 255

\* Reading a peer's packet cuts it where writing it did, at every limit between
\* two forms of a number, and gives back what was written, except for numbers
\* of five or nine bytes whose bit 31 is set.
SelfDelimiting ==
  FromPeer /\ last.end \in {"played", "dropped"} =>
    /\ ~TopBit(last.packet.source) => last.source = last.packet.source
    /\ ~TopBit(last.packet.number) => last.number = last.packet.number

Early(v) == Clear(v, 4) /\ v[5] < 128

\* However packets overtake each other, voice is handed on in the order of its
\* numbers while they are below 2^31, for all speakers together; above, the
\* comparison of a sign-extended number with its 32 stored bits lets older
\* packets pass.
PlayedInOrder ==
  \A j \in DOMAIN played : \A i \in 1 .. j - 1 :
    (\A k \in i .. j : played[k].kind \in {"opus", "other"} /\ Early(played[k].number))
      => ~Below(played[j].number, played[i].number)

\* A peer's datagram is dropped only when one with a higher number, his own or
\* another speaker's, has been handed on before: never the first, never the
\* next in order, never one with the number just played.
DropNeedsOvertaking ==
  FromPeer /\ last.end = "dropped" =>
    \E i \in DOMAIN played : \/ played[i].kind = "noise"
                             \/ Below(last.packet.number, played[i].number)

\* An Opus packet of nine bytes or more, without a position and with no more
\* bytes from its length on than samples, passes every assertion on its way, with
\* any sender, any number and either value of the final bit: what ends the process
\* is a short packet, a position, another codec, the tunnel, or noise.
OpusSurvives ==
  LET p == last.packet
  IN  p.kind = "opus" /\ Len(p.bytes) + p.rest > 8 /\ p.len + 2 <= last.samples =>
        last.end \in {"played", "dropped"}
===============================================================================
