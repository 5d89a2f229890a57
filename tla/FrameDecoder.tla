----------------------------- MODULE FrameDecoder -----------------------------
(***************************************************************************)
(* lib/mumble/frame_decoder.c and the message loop of mumble_client.c.     *)
(* The server's byte stream arrives in pieces of any size; the decoder     *)
(* keeps what it has not used in one buffer, cuts frames (2 bytes type, 4  *)
(* bytes size, body) off its front, and the loop dispatches them.          *)
(*                                                                         *)
(* Bytes only ever enter at the back and leave at the front, so the buffer *)
(* is the window of `buffer_size' bytes that starts after the first `off'  *)
(* bytes of the stream.                                                    *)
(***************************************************************************)
EXTENDS Integers, Sequences

CONSTANTS
  Stream,      \* the bytes the server sends
  NFrames,     \* the frames it means by them
  Start,       \* Start[k]: bytes before frame k; Start[NFrames + 1]: all
  Malformed,   \* frames whose body protobuf_c_message_unpack refuses
  NonceOnly,   \* CryptSetup frames that do not carry all three values
  Chunks,      \* sizes in which SSL_read hands bytes over
  Allocated    \* MUMBLE_FRAME_MAX_SIZE

MUMBLE_FRAME_HEADER_SIZE == 6
MUMBLE_TYPE_UDPTUNNEL    == 1
MUMBLE_TYPE_CRYPT_SETUP  == 15
DescriptorCount          == 26   \* entries of the table in descriptor()

FrameNo     == 1 .. NFrames
TypeAt(o)   == Stream[o + 1] * 256 + Stream[o + 2]
SizeAt(o)   == ((Stream[o + 3] * 256 + Stream[o + 4]) * 256 + Stream[o + 5]) * 256
                 + Stream[o + 6]
FrameType(k) == TypeAt(Start[k])
BodyLen(k)   == Start[k + 1] - Start[k] - MUMBLE_FRAME_HEADER_SIZE

\* The stream is the frames one after the other, each with its own size in
\* its header.  Nothing bounds a frame: the code does not.
ASSUME StreamAssumption ==
  /\ NFrames \in Nat
  /\ Stream \in Seq(0 .. 255)
  /\ Start \in [1 .. NFrames + 1 -> Nat]
  /\ Start[1] = 0 /\ Start[NFrames + 1] = Len(Stream)
  /\ \A k \in FrameNo : BodyLen(k) >= 0 /\ SizeAt(Start[k]) = BodyLen(k)
  /\ \A j, k \in 1 .. NFrames + 1 : j < k => Start[j] < Start[k]
  /\ Malformed \subseteq FrameNo /\ NonceOnly \subseteq FrameNo
  /\ Chunks \subseteq Nat \ {0}
  /\ Allocated \in Nat

VARIABLES
  off,          \* bytes of the stream that left the buffer
  buffer_size,
  looping,      \* inside the while loop of mumble_message_cb_adapter
  seq,          \* the audio decoder's last sequence number is above 0
  next,         \* history: the loop's iterations, plus 1
  torn,         \* history: a frame was cut from a buffer of five bytes
  handled,      \* history: what became of each frame
  keys,         \* the CryptSetup frame whose keys are in use, 0 if none
  unsent,       \* history: callbacks made with no message the server sent
  aborted       \* "no", or what ended the process

frameVars == <<off, buffer_size, looping, seq, next, torn, handled, keys, unsent, aborted>>

-------------------------------------------------------------------------------
(* frame_decoder.c, as functions of the window. *)
mumble_frame_size(o, n) == IF n < MUMBLE_FRAME_HEADER_SIZE THEN -1 ELSE SizeAt(o)
mumble_frame_type(o, n) == IF n < 2 THEN -1 ELSE TypeAt(o)

mumble_frame_ready(o, n) == mumble_frame_size(o, n) + MUMBLE_FRAME_HEADER_SIZE <= n

\* Faulty variant: the audio type is taken for the first one of the table.
AudioIsVersion(o, n) == mumble_frame_type(o, n) = 0
mumble_frame_is_audio(o, n) == mumble_frame_type(o, n) = MUMBLE_TYPE_UDPTUNNEL

\* mumble_frame_pop: the number of bytes that leave the buffer.
\* Faulty variant: only the body is skipped when it is the longer part.
PopBody(o, n) ==
  IF mumble_frame_size(o, n) > MUMBLE_FRAME_HEADER_SIZE
    THEN mumble_frame_size(o, n) ELSE mumble_frame_size(o, n) + MUMBLE_FRAME_HEADER_SIZE
mumble_frame_pop(o, n) == mumble_frame_size(o, n) + MUMBLE_FRAME_HEADER_SIZE

\* protobuf_c_message_unpack: the frame whose body lies there, 0 (NULL) if it
\* does not parse.  In a torn frame the length is (size_t) -1 and the bytes are
\* whatever the buffer held before: any result, or a crash.
Nothing == 0
Garbage == -1
unpack(o, n) ==
  IF \E k \in FrameNo : o = Start[k] /\ n >= MUMBLE_FRAME_HEADER_SIZE
    THEN {k \in FrameNo : o = Start[k] /\ k \notin Malformed}
           \cup {m \in {Nothing} : \E k \in Malformed : o = Start[k]}
    ELSE {Nothing, Garbage}

-------------------------------------------------------------------------------
FrameInit ==
  /\ off = 0 /\ buffer_size = 0 /\ looping = FALSE
  /\ seq = FALSE
  /\ next = 1 /\ torn = FALSE
  /\ handled = [k \in FrameNo |-> "no"]
  /\ keys = 0 /\ unsent = FALSE /\ aborted = "no"

Abort(why) ==
  /\ aborted' = why
  /\ UNCHANGED <<off, buffer_size, looping, seq, next, torn, handled, keys, unsent>>

\* mumble_message_cb_adapter up to the loop: append what SSL_read returned.
\* The copy does not look at buffer_allocated; one that runs over the end
\* leaves the heap in no known state, and ends what is modelled.
mumble_frame_append(n) ==
  /\ aborted = "no" /\ ~looping
  /\ off + buffer_size + n <= Len(Stream)
  /\ \/ /\ buffer_size + n <= Allocated
        /\ buffer_size' = buffer_size + n
        /\ looping' = TRUE
        /\ UNCHANGED <<off, seq, next, torn, handled, keys, unsent, aborted>>
     \/ /\ buffer_size + n > Allocated
        /\ Abort("overrun")

Ready == mumble_frame_ready(off, buffer_size)
Audio == mumble_frame_is_audio(off, buffer_size)

LoopEnd ==
  /\ aborted = "no" /\ looping /\ ~Ready
  /\ looping' = FALSE
  /\ UNCHANGED <<off, buffer_size, seq, next, torn, handled, keys, unsent, aborted>>

\* The part of an iteration that cuts the frame off, and its bookkeeping.
Pop(what) ==
  /\ off' = off + mumble_frame_pop(off, buffer_size)
  /\ buffer_size' = buffer_size - mumble_frame_pop(off, buffer_size)
  /\ next' = next + 1
  /\ torn' = (torn \/ buffer_size = 5)
  /\ handled' = IF torn \/ buffer_size = 5 THEN handled
                                             ELSE [handled EXCEPT ![next] = what]

\* Faulty variant: `if' in place of `while'.
OneFrameOnly == looping' = FALSE
Again == looping' = TRUE

\* The audio branch hands the whole buffer, frame header included, to the
\* audio decoder.  That reads codec 0 and source 1 from the type, and the top
\* byte of the size (0 here) as the sequence number: too old once another
\* packet was heard, else the rest must be exactly a position of 12 bytes.
TunnelledAudio ==
  /\ aborted = "no" /\ looping /\ Ready /\ Audio
  /\ IF buffer_size <= 8
       THEN Abort("audio_decoder.c:18")
       ELSE IF ~seq /\ buffer_size - 3 # 12
         THEN Abort("audio_decoder.c:70")
         ELSE /\ Pop(IF seq THEN "dropped" ELSE "audio")
              /\ Again
              /\ UNCHANGED <<seq, keys, unsent, aborted>>

\* mumble_message_internal: only a CryptSetup does anything.
IsCryptSetup(type) == type = MUMBLE_TYPE_CRYPT_SETUP
\* Faulty variant: later key changes are ignored.
KeysFirstOnly(type, m) == IF IsCryptSetup(type) /\ keys = 0 THEN m ELSE keys
KeysAfter(type, m) == IF IsCryptSetup(type) THEN m ELSE keys
CryptSetupLacks(m) == m \in NonceOnly \/ m = Nothing

\* The other branch: decode (which pops), internal routines, user callback.
Message ==
  /\ aborted = "no" /\ looping /\ Ready /\ ~Audio
  /\ LET type == mumble_frame_type(off, buffer_size)
     IN  \E m \in unpack(off, buffer_size) :
           IF type >= DescriptorCount
             THEN Abort("descriptor")
             ELSE IF IsCryptSetup(type) /\ CryptSetupLacks(m)
               THEN Abort("crypt_setup")
               ELSE /\ Pop(IF m = Nothing THEN "null" ELSE "message")
                    /\ keys' = KeysAfter(type, m)
                    /\ unsent' = (unsent \/ m \in {Nothing, Garbage})
                    /\ Again
                    /\ UNCHANGED <<seq, aborted>>

\* Unpacking from a torn frame reads far outside it.
TornCrash ==
  /\ aborted = "no" /\ looping /\ Ready /\ ~Audio /\ buffer_size = 5
  /\ Abort("torn")

\* An audio packet arrives by UDP and moves the decoder's sequence number.
UdpAudio ==
  /\ aborted = "no" /\ ~looping /\ ~seq
  /\ seq' = TRUE
  /\ UNCHANGED <<off, buffer_size, looping, next, torn, handled, keys, unsent, aborted>>

\* The server has nothing more to send, or the process is gone.
FrameRest ==
  /\ aborted # "no" \/ ~looping
  /\ UNCHANGED frameVars

Iterate == LoopEnd \/ TunnelledAudio \/ Message \/ TornCrash

FrameNext ==
  \/ \E n \in Chunks : mumble_frame_append(n)
  \/ Iterate \/ UdpAudio \/ FrameRest

FrameSpec == FrameInit /\ [][FrameNext]_frameVars

\* The loop thread keeps running and the connection keeps delivering.
FrameFairSpec ==
  /\ FrameSpec
  /\ WF_frameVars(Iterate)
  /\ WF_frameVars(\E n \in Chunks : mumble_frame_append(n))

-------------------------------------------------------------------------------
Aborts == {"no", "audio_decoder.c:18", "audio_decoder.c:70", "descriptor",
           "crypt_setup", "torn", "overrun"}

\* Types; the window never runs past what the server sent.
FrameTypeOK ==
  /\ off \in Nat /\ buffer_size \in Nat /\ off + buffer_size <= Len(Stream)
  /\ looping \in BOOLEAN /\ seq \in BOOLEAN /\ torn \in BOOLEAN /\ unsent \in BOOLEAN
  /\ next \in Nat \ {0}
  /\ handled \in [FrameNo -> {"no", "message", "null", "audio", "dropped"}]
  /\ keys \in -1 .. NFrames
  /\ aborted \in Aborts

\* Until a frame is torn the front of the buffer is the start of a frame of
\* the server, however the bytes were cut into reads.
FramingKept == ~torn => next \in 1 .. NFrames + 1 /\ off = Start[next]

\* Until a frame is torn every frame before the front went once through the
\* branch of the loop that its type asks for, and none behind it did.  A body
\* that does not parse is left to OnlyDecodedDelivered, what the audio decoder
\* makes of a frame to AudioFrameAccepted.
HandledByType ==
  ~torn => \A k \in FrameNo :
    /\ k >= next => handled[k] = "no"
    /\ k < next => IF FrameType(k) = MUMBLE_TYPE_UDPTUNNEL
                     THEN handled[k] \in {"audio", "dropped"}
                     ELSE k \notin Malformed => handled[k] = "message"

\* Until a frame is torn the keys in use are those of the last CryptSetup
\* before the front of the buffer.
KeysAreLatest ==
  ~torn =>
    /\ keys # 0 => keys < next /\ IsCryptSetup(FrameType(keys))
    /\ \A k \in FrameNo : IsCryptSetup(FrameType(k)) /\ k < next => k <= keys

\* Until a frame is torn the unchecked copy of mumble_frame_append runs over
\* the end only on account of one frame: the one at the front is not all there
\* yet, and the read does not fit behind what is.  Whole frames are never left
\* in the way, however many came at once.
OverrunOnlyByFront ==
  aborted = "overrun" /\ ~torn =>
    /\ next \in FrameNo
    /\ buffer_size < Start[next + 1] - Start[next]
    /\ \E n \in Chunks : buffer_size + n > Allocated

\* Everything received is worked off: in the end all frames are behind the
\* front, unless the process died or a frame was torn.
EventuallyAllHandled == <>(next = NFrames + 1 \/ torn \/ aborted # "no")

\* mumble_client.c:51, "If successful, run internal routines": the internal
\* routines and the callback only see messages that were really decoded, not what
\* is made of a torn frame (frame_decoder.c:82), nor the NULL of a whole frame whose
\* body does not parse (:122 means to return -3 for it).
OnlyDecodedDelivered == ~unsent

\* mumble_client.c:38, "Send to audio": voice that comes through the tunnel
\* passes the assertions of the audio decoder and is not taken for old.
AudioFrameAccepted ==
  /\ aborted \notin {"audio_decoder.c:18", "audio_decoder.c:70"}
  /\ \A k \in FrameNo : handled[k] # "dropped"

\* proto/Mumble.proto:343, "Used to initialize and resync the UDP encryption
\* [...] with only the client or server nonce filled": such a message does not
\* fail the assertions of mumble_message_internal.
ResyncAccepted == aborted # "crypt_setup"

\* frame_decoder.c:10, MUMBLE_FRAME_MAX_SIZE: frames of at most this size do not
\* overrun the buffer, whatever comes behind them in the same read.
MaxSizeFits ==
  (\A k \in FrameNo : Start[k + 1] - Start[k] <= Allocated) => aborted # "overrun"
===============================================================================
