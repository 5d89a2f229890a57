------------------------------ MODULE ClientSend ------------------------------
(***************************************************************************)
(* What the client sends: its greeting and pings over TCP                  *)
(* (mumble_client.c, frame_encoder.c), and voice, which goes from the      *)
(* application through the block buffer (FrameBuffer), Opus                *)
(* (codec/opus.c) and the packet header (audio_encoder.c) to UDP or,       *)
(* inside a frame, to TCP (audio.c), as the pinger's verdict of the moment *)
(* says.                                                                   *)
(*                                                                         *)
(* Every operation is one callback of libuv's loop, except a voice write,  *)
(* which is modelled round by round; nothing comes between its rounds.     *)
(* Payloads are lengths, TCP is the list of frames written.                *)
(***************************************************************************)
EXTENDS FrameBuffer, Varint, FiniteSets

CONSTANTS
  Targets,      \* targets an application passes; the header keeps five bits
  PayloadLens,  \* what opus_encode may return, at most Size.  External.
  SequenceRange,  \* 2^32: the encoder counts in an unsigned int
  Start,        \* the first sequence number
  Tone,         \* bytes of send_tone: 192000 in main.c, 200 blocks
  AppMessages,  \* what an application passes to mumble_client_write
  RecordOverhead,  \* bytes a TLS record adds to its data.  External.
  MaxFrames     \* bound: frames of pings and applications

\* 48000 samples a second for 20 milliseconds: taken for bytes by the block
\* buffer and both codec buffers, so a block holds 10 milliseconds.
audio_buffer_size == (48000 * 20) \div 1000

ASSUME ClientSendAssumption ==
  /\ Size = audio_buffer_size
  /\ PayloadLens \subseteq 1 .. Size /\ MaxFrames \in Nat
  /\ SequenceRange \in Nat /\ Start \in 0 .. SequenceRange - 1
  /\ RecordOverhead \in Nat \ {0}
  /\ Targets \subseteq Nat

VARIABLES
  greeted,    \* mumble_connect_cb_adapter has run
  connected,  \* the pinger's verdict: UDP works
  target,     \* cb_t of the running voice write
  sequence,   \* the encoder's
  tcp,        \* frames written to the TLS socket
  datagrams,  \* voice packets written to the UDP socket
  asked,      \* history: per voice write, bytes fed with it and its target
  aborted     \* the assertion or overrun that ended the process, or "no"

sendVars == <<bufferVars, greeted, connected, target, sequence, tcp, datagrams, asked, aborted>>
voiceVars == <<target, sequence, datagrams, asked>>

Idle == greeted /\ ~active /\ ~crashed /\ aborted = "no"

-------------------------------------------------------------------------------
(* frame_encoder.c. *)
MUMBLE_TYPE_VERSION      == 0
MUMBLE_TYPE_UDPTUNNEL    == 1
MUMBLE_TYPE_AUTHENTICATE == 2
MUMBLE_TYPE_PING         == 3
MUMBLE_TYPE_TEXT_MESSAGE == 11
MUMBLE_FRAME_MAX_SIZE    == 1048576

descriptors ==
  <<"Version", "UDPTunnel", "Authenticate", "Ping", "Reject", "ServerSync", "ChannelRemove",
    "ChannelState", "UserRemove", "UserState", "BanList", "TextMessage", "PermissionDenied",
    "ACL", "QueryUsers", "CryptSetup", "ContextActionModify", "ContextAction", "UserList",
    "VoiceTarget", "PermissionQuery", "CodecVersion", "UserStats", "RequestBlob",
    "ServerConfig", "SuggestConfig">>

get_message_type(m) == (CHOOSE i \in DOMAIN descriptors : descriptors[i] = m.name) - 1

\* A message: its strings that are not NULL, its optional numbers that were set,
\* those of them whose has_ flag was set, and the bytes its strings take.
\* protobuf-c packs no number without its flag.
Packed(m) == m.strings \cup (m.numbers \cap m.has)

Message(name, strings, numbers, has, bulk) ==
  [name |-> name, strings |-> strings, numbers |-> numbers, has |-> has, bulk |-> bulk]

mumble_frame_encode(m) ==
  [type |-> get_message_type(m), size |-> Cardinality(Packed(m)) + m.bulk,
   body |-> [name |-> m.name, fields |-> Packed(m)]]

EncodedFits(m) == 6 + mumble_frame_encode(m).size <= MUMBLE_FRAME_MAX_SIZE

\* uv_ssl_wbio_cb copies each TLS record into a buffer of the pool, unchecked.
\* SSL_write cuts what it is given at 16384 bytes, so the first record is too
\* long for the buffer just when the frame and a record's overhead are.
PoolBufferSize == 16384
RecordFits(m) == 6 + mumble_frame_encode(m).size + RecordOverhead <= PoolBufferSize

\* Applications pass messages of the protocol (mumble_frame_encode asserts it)
\* and leave voice to mumble_client_write_audio.
ASSUME AppAssumption ==
  \A m \in AppMessages :
    /\ \E i \in DOMAIN descriptors : descriptors[i] = m.name
    /\ m.name # "UDPTunnel"
    /\ IsFiniteSet(Packed(m)) /\ m.bulk \in Nat

-------------------------------------------------------------------------------
(* mumble_client.c. *)
Version == Message("Version", {}, {"version"}, {}, 0)
Authenticate == Message("Authenticate", {"username"}, {"opus"}, {"opus"}, 0)
Ping == Message("Ping", {}, {"timestamp"}, {}, 0)

AudioInit == connected = FALSE /\ target = 0 /\ sequence = Start /\ datagrams = <<>> /\ asked = <<>>
SendInit  == BufferInit /\ AudioInit /\ greeted = FALSE /\ tcp = <<>> /\ aborted = "no"

\* mumble_client_write, which also an application may call.
mumble_client_write(m) ==
  /\ IF ~EncodedFits(m)
       THEN aborted' = "frame" /\ UNCHANGED tcp
     ELSE IF ~RecordFits(m)
       THEN aborted' = "overrun" /\ UNCHANGED tcp
       ELSE tcp' = Append(tcp, mumble_frame_encode(m)) /\ UNCHANGED aborted
  /\ UNCHANGED <<bufferVars, greeted, connected, voiceVars>>

\* The handshake is over.
mumble_connect_cb_adapter ==
  /\ ~greeted
  /\ greeted' = TRUE
  /\ tcp' = tcp \o <<mumble_frame_encode(Version), mumble_frame_encode(Authenticate),
                     mumble_frame_encode(Ping)>>
  /\ UNCHANGED <<bufferVars, connected, voiceVars, aborted>>

Others == Cardinality({i \in DOMAIN tcp : tcp[i].body.name # "UDPTunnel"}) - 3

mumble_client_on_ping == Idle /\ Others < MaxFrames /\ mumble_client_write(Ping)
AppWrites(m) == Idle /\ Others < MaxFrames /\ mumble_client_write(m)

\* The pinger (UdpPing) loses or finds UDP.
PathChanges ==
  /\ Idle
  /\ connected' = ~connected
  /\ UNCHANGED <<bufferVars, greeted, voiceVars, tcp, aborted>>

-------------------------------------------------------------------------------
(* Voice.  The audio encoder never passes the end bit; Ends holds it for     *)
(* other users of mumble_codec_opus_encode.                                  *)
mumble_codec_opus_encode(t, n, e) ==
  /\ Idle
  /\ mumble_buffer_write(n, e)
  /\ target' = t
  /\ asked' = IF n = 0 THEN asked ELSE Append(asked, [upTo |-> fed + n, target |-> t])
  /\ UNCHANGED <<greeted, connected, sequence, tcp, datagrams, aborted>>

mumble_audio_encoder_encode(t, n) == mumble_codec_opus_encode(t, n, FALSE)
mumble_audio_send(t, n) == mumble_audio_encoder_encode(t, n)
mumble_client_write_audio(t, n) == mumble_audio_send(t, n)

\* main.c answers a text message with a tone.
send_tone == mumble_client_write_audio(0, Tone)
on_message(type) == type = MUMBLE_TYPE_TEXT_MESSAGE /\ send_tone

\* The frame encoder_cb puts round a packet; with its record it is far below
\* the pool's buffers.
Tunnel(p) ==
  [type |-> MUMBLE_TYPE_UDPTUNNEL, size |-> p.bytes,
   body |-> [name |-> "UDPTunnel", packet |-> p]]

\* Faulty variant: as if the buffer held one block.
LimitOfBlock == Size
DatagramLimit == 1020

\* encoder_cb.  Faulty variant: the path is not asked.
BothPaths(p) ==
  /\ datagrams' = IF connected THEN Append(datagrams, p) ELSE datagrams
  /\ tcp' = Append(tcp, Tunnel(p))
  /\ UNCHANGED aborted
encoder_cb(p) ==
  IF ~connected
    THEN tcp' = Append(tcp, Tunnel(p)) /\ UNCHANGED <<datagrams, aborted>>
  ELSE IF p.bytes > DatagramLimit
    THEN aborted' = "datagram" /\ UNCHANGED <<tcp, datagrams>>
    ELSE datagrams' = Append(datagrams, p) /\ UNCHANGED <<tcp, aborted>>

\* A header byte, the number, the framed payload; the position is copied behind
\* it and not counted.
encoder_codec_cb(framed) ==
  /\ sequence' = (sequence + 1) % SequenceRange
  /\ encoder_cb([number |-> sequence, block |-> blocks, target |-> target % 32,
                 bytes |-> 1 + varint_encode_size(UInt(sequence)) + framed])

on_encoder_frame(ret) ==
  LET written == varint_encode_size(UInt(ret))
  IN  IF Size > ret + written
        THEN encoder_codec_cb(written + ret)
        ELSE aborted' = "framed" /\ UNCHANGED <<sequence, tcp, datagrams>>

VoiceRound ==
  /\ aborted = "no"
  /\ CopyRound
  /\ IF BlockDone
       THEN \E ret \in PayloadLens : on_encoder_frame(ret)
       ELSE UNCHANGED <<sequence, tcp, datagrams, aborted>>
  /\ UNCHANGED <<greeted, connected, target, asked>>

VoiceReturns ==
  /\ aborted = "no"
  /\ WriteReturns \/ FlushFromWrite
  /\ UNCHANGED <<greeted, connected, voiceVars, tcp, aborted>>

CodecFlush ==
  /\ Idle
  /\ mumble_buffer_flush
  /\ UNCHANGED <<greeted, connected, voiceVars, tcp, aborted>>

ProcessGone == (crashed \/ aborted # "no") /\ UNCHANGED sendVars

InCall == VoiceRound \/ VoiceReturns

SendNext ==
  \/ mumble_connect_cb_adapter \/ mumble_client_on_ping
  \/ \E m \in AppMessages : AppWrites(m)
  \/ PathChanges
  \/ \E t \in Targets, n \in Writes : mumble_client_write_audio(t, n)
  \/ \E n \in Writes, e \in Ends : mumble_codec_opus_encode(0, n, e)
  \/ on_message(MUMBLE_TYPE_TEXT_MESSAGE)
  \/ CodecFlush
  \/ InCall \/ ProcessGone

\* A callback of the loop runs to its end.
SendSpec == SendInit /\ [][SendNext]_sendVars /\ WF_sendVars(InCall)

-------------------------------------------------------------------------------
\* Types; types of frames are in the table, and targets fit the header's five bits.
SendTypeOK ==
  /\ BufferTypeOK
  /\ {greeted, connected} \subseteq BOOLEAN /\ sequence \in 0 .. SequenceRange - 1
  /\ target \in Nat
  /\ aborted \in {"no", "frame", "framed", "datagram", "overrun"}
  /\ \A i \in DOMAIN tcp : tcp[i].type \in 0 .. 25 /\ tcp[i].size <= MUMBLE_FRAME_MAX_SIZE
  /\ \A i \in DOMAIN datagrams : datagrams[i].target < 32

\* The packets of both paths.
Tunnelled == {i \in DOMAIN tcp : tcp[i].body.name = "UDPTunnel"}
Sent == {tcp[i].body.packet : i \in Tunnelled} \cup {datagrams[i] : i \in DOMAIN datagrams}

Packets == Cardinality(Tunnelled) + Len(datagrams)

\* The number of a block, counted round the end of an unsigned int.
Numbered(block) == (Start + block) % SequenceRange

\* The target of the voice write that brought a block's last byte.
TargetOf(block) ==
  LET i == CHOOSE i \in DOMAIN asked : /\ asked[i].upTo >= (block + 1) * Size
                                       /\ \A j \in 1 .. i - 1 : asked[j].upTo < (block + 1) * Size
  IN  asked[i].target

\* However the path changes between voice writes, every block is sent once, on
\* one path; packets carry the numbers of their blocks; and a block goes to the
\* target of the write that filled it, although its first bytes may have been
\* for another.
EachBlockOnce ==
  /\ {p.block : p \in Sent} = 0 .. Packets - 1
  /\ \A p \in Sent : p.number = Numbered(p.block) /\ p.target = TargetOf(p.block) % 32
  /\ sequence = Numbered(Packets)
  /\ aborted = "no" => Packets = blocks

\* No packet the encoder makes of a block reaches the abort of
\* uv_udp_ssl_write: what on_encoder_frame lets pass, with header and number,
\* stays below the pool's buffers.
VoiceFitsDatagram == aborted # "datagram"

\* A write with the end bit that brings its last block to the full makes the
\* final callback and never flushes; only the assertion on the length of a
\* framed payload can come before it.
BoundaryEndIsFinal ==
  (active /\ end /\ left > 0 /\ (used + left) % Size = 0)
    ~> ((final /\ depth = 0) \/ aborted = "framed")

\* buffer.h:6, "A write with the end bit set and flush call will call the
\* callback with the final flag set".
EndIsFinal == (active /\ end) ~> final

\* frame_encoder.c:84 lets frames of up to MUMBLE_FRAME_MAX_SIZE pass: a frame
\* that passed is written and does not overrun the buffer uv_ssl_wbio_cb copies
\* it to.
EncodedIsWritten == aborted # "overrun"

\* mumble_client.c:85, "Send version info, lets the server know we accept the
\* 1.2.5 protocol".
VersionAnnounced == greeted => "version" \in tcp[1].body.fields
===============================================================================
