-------------------------- MODULE FrameDecoderProofs --------------------------
(***************************************************************************)
(* For every stream of frames and every way of cutting it into reads: as   *)
(* long as the loop never tests a buffer of exactly five bytes, framing is *)
(* kept, every frame goes through the branch of its type, and only the     *)
(* frame at the front can make a copy overrun the buffer.                  *)
(***************************************************************************)
EXTENDS FrameDecoder, SequenceTheorems, TLAPS

\* Outside the loop no whole frame is left.  OverrunOnlyByFront needs it: the
\* bytes that are in the way of a copy are less than a frame.
DrainedOutside == ~looping /\ ~torn => ~Ready

FrameInv ==
  FrameTypeOK /\ FramingKept /\ HandledByType /\ OverrunOnlyByFront /\ DrainedOutside

-------------------------------------------------------------------------------
\* What the assumption on the stream says of its bytes and of the constants.
LEMMA StreamFacts ==
  /\ Len(Stream) \in Nat
  /\ \A i \in 1 .. Len(Stream) : Stream[i] \in 0 .. 255
  /\ NFrames \in Nat /\ Allocated \in Nat
  /\ Start[1] = 0 /\ Start[NFrames + 1] = Len(Stream)
<1>1. Stream \in Seq(0 .. 255)
  BY StreamAssumption
<1>2. /\ NFrames \in Nat /\ Allocated \in Nat
      /\ Start[1] = 0 /\ Start[NFrames + 1] = Len(Stream)
  BY StreamAssumption
<1> QED
  BY <1>1, <1>2, LenProperties, ElementOfSeq

\* The number a header holds is a natural number.
LEMMA SizeFieldNat ==
  ASSUME NEW o \in Nat, o + 6 <= Len(Stream)
  PROVE  SizeAt(o) \in Nat
<1>1. Len(Stream) \in Nat
  BY StreamFacts
<1>2. o + 3 \in 1 .. Len(Stream) /\ o + 4 \in 1 .. Len(Stream)
      /\ o + 5 \in 1 .. Len(Stream) /\ o + 6 \in 1 .. Len(Stream)
  BY <1>1
<1>3. Stream[o + 3] \in 0 .. 255 /\ Stream[o + 4] \in 0 .. 255
      /\ Stream[o + 5] \in 0 .. 255 /\ Stream[o + 6] \in 0 .. 255
  BY <1>2, StreamFacts
<1>4. ASSUME NEW a \in Nat, NEW b \in 0 .. 255 PROVE a * 256 + b \in Nat
  OBVIOUS
<1>5. Stream[o + 3] * 256 + Stream[o + 4] \in Nat
  <2>1. 0 .. 255 \subseteq Nat
    OBVIOUS
  <2> QED
    BY <1>3, <1>4, <2>1
<1>6. (Stream[o + 3] * 256 + Stream[o + 4]) * 256 + Stream[o + 5] \in Nat
  BY <1>3, <1>4, <1>5, ZenonT(60)
<1> QED
  BY <1>3, <1>4, <1>6, ZenonT(60) DEF SizeAt

\* What a test of mumble_frame_ready means: five bytes, or a header and all
\* the bytes it announces.  Either way the pop stays within the buffer.
LEMMA ReadyMeans ==
  ASSUME FrameTypeOK, Ready
  PROVE  /\ mumble_frame_pop(off, buffer_size) \in 0 .. buffer_size
         /\ buffer_size # 5 =>
              /\ buffer_size >= 6
              /\ mumble_frame_pop(off, buffer_size) = SizeAt(off) + 6
              /\ mumble_frame_type(off, buffer_size) = TypeAt(off)
<1> USE DEF Ready, mumble_frame_ready, mumble_frame_size, mumble_frame_pop,
            mumble_frame_type, MUMBLE_FRAME_HEADER_SIZE
<1>1. off \in Nat /\ buffer_size \in Nat /\ off + buffer_size <= Len(Stream)
      /\ Len(Stream) \in Nat
  BY StreamAssumption DEF FrameTypeOK
<1>2. CASE buffer_size < 6
  BY <1>1, <1>2
<1>3. CASE buffer_size >= 6
  <2>1. SizeAt(off) \in Nat
    BY <1>1, <1>3, SizeFieldNat
  <2> QED
    BY <1>1, <1>3, <2>1
<1> QED
  BY <1>1, <1>2, <1>3

\* The frame at the front, while none was torn: it is frame `next', it is all
\* there, and the pop takes exactly it.
LEMMA FrontIsNext ==
  ASSUME FrameTypeOK, FramingKept, ~torn, Ready, buffer_size # 5
  PROVE  /\ next \in FrameNo
         /\ buffer_size >= 6
         /\ off = Start[next]
         /\ off + mumble_frame_pop(off, buffer_size) = Start[next + 1]
         /\ mumble_frame_type(off, buffer_size) = FrameType(next)
<1>1. off = Start[next] /\ next \in 1 .. NFrames + 1
  BY DEF FramingKept
<1>2. off \in Nat /\ buffer_size \in Nat /\ off + buffer_size <= Len(Stream)
      /\ NFrames \in Nat /\ Start[NFrames + 1] = Len(Stream)
  BY StreamAssumption DEF FrameTypeOK
<1>3. /\ buffer_size >= 6
      /\ mumble_frame_pop(off, buffer_size) = SizeAt(off) + 6
      /\ mumble_frame_type(off, buffer_size) = TypeAt(off)
  BY ReadyMeans
<1>4. next \in FrameNo
  <2>1. next # NFrames + 1
    BY <1>1, <1>2, <1>3
  <2> QED
    BY <1>1, <1>2, <2>1 DEF FrameNo
<1>5. /\ SizeAt(off) = Start[next + 1] - Start[next] - 6
      /\ Start[next] \in Nat /\ Start[next + 1] \in Nat
  BY <1>1, <1>2, <1>4, StreamAssumption
     DEF BodyLen, MUMBLE_FRAME_HEADER_SIZE, FrameNo
<1>6. off + mumble_frame_pop(off, buffer_size) = Start[next + 1]
  BY <1>1, <1>3, <1>5
<1> QED
  BY <1>1, <1>3, <1>4, <1>6 DEF FrameType

\* Unpacking the frame at the front yields that frame, or NULL when its body
\* does not parse.
LEMMA UnpackFront ==
  ASSUME NEW k \in FrameNo, NEW n \in Nat, n >= 6,
         NEW m \in unpack(Start[k], n)
  PROVE  m = IF k \in Malformed THEN Nothing ELSE k
<1>1. \A j \in FrameNo : Start[j] = Start[k] => j = k
  BY StreamAssumption DEF FrameNo
<1>2. Malformed \subseteq FrameNo
  BY StreamAssumption
<1> QED
  BY <1>1, <1>2 DEF unpack, MUMBLE_FRAME_HEADER_SIZE

-------------------------------------------------------------------------------
\* mumble_frame_init leaves an empty buffer at the start of frame 1.
LEMMA FrameInitInv == FrameInit => FrameInv
<1> SUFFICES ASSUME FrameInit PROVE FrameInv
  OBVIOUS
<1> USE DEF FrameInit
<1>1. FrameTypeOK
  <2>1. /\ off \in Nat /\ buffer_size \in Nat /\ off + buffer_size <= Len(Stream)
        /\ next \in Nat \ {0} /\ keys \in -1 .. NFrames
    BY StreamFacts
  <2>2. /\ looping \in BOOLEAN /\ seq \in BOOLEAN
        /\ torn \in BOOLEAN /\ unsent \in BOOLEAN
    BY Zenon
  <2>3. handled \in [FrameNo -> {"no", "message", "null", "audio", "dropped"}]
    OBVIOUS
  <2>4. aborted \in Aborts
    BY DEF Aborts
  <2> QED
    BY <2>1, <2>2, <2>3, <2>4, Zenon DEF FrameTypeOK
<1>2. FramingKept
  BY StreamFacts DEF FramingKept
<1>3. HandledByType
  BY StreamFacts DEF HandledByType, FrameNo
<1>4. OverrunOnlyByFront /\ DrainedOutside
  BY StreamFacts DEF OverrunOnlyByFront, DrainedOutside, Ready, mumble_frame_ready,
         mumble_frame_size, MUMBLE_FRAME_HEADER_SIZE
<1> QED
  BY <1>1, <1>2, <1>3, <1>4 DEF FrameInv

\* Outside the loop, with bytes still to come, the frame at the front is one of
\* the server's and not all of it is there.
LEMMA FrontUnfinished ==
  ASSUME FrameInv, ~looping, ~torn, off + buffer_size < Len(Stream)
  PROVE  next \in FrameNo /\ buffer_size < Start[next + 1] - Start[next]
<1>1. buffer_size \in Nat /\ off \in Nat /\ Len(Stream) \in Nat
  BY StreamFacts DEF FrameInv, FrameTypeOK
<1>2. ~Ready /\ off = Start[next] /\ next \in 1 .. NFrames + 1
  BY DEF FrameInv, DrainedOutside, FramingKept
<1>3. NFrames \in Nat /\ Start[NFrames + 1] = Len(Stream)
  BY StreamFacts
<1>4. next # NFrames + 1
  BY <1>1, <1>2, <1>3
<1>5. next \in FrameNo
  BY <1>2, <1>3, <1>4 DEF FrameNo
<1>6. Start[next] \in Nat /\ Start[next + 1] \in Nat
  BY <1>3, <1>5, StreamAssumption DEF FrameNo
<1>7. /\ SizeAt(off) = Start[next + 1] - Start[next] - 6
      /\ Start[next + 1] - Start[next] - 6 >= 0
  <2>1. BodyLen(next) >= 0 /\ SizeAt(Start[next]) = BodyLen(next)
    BY <1>5, StreamAssumption
  <2> QED
    BY <1>2, <1>6, <2>1 DEF BodyLen, MUMBLE_FRAME_HEADER_SIZE
<1>8. CASE buffer_size < 6
  BY <1>1, <1>5, <1>6, <1>7, <1>8
<1>9. CASE ~(buffer_size < 6)
  <2>1. ~(SizeAt(off) + 6 <= buffer_size)
    BY <1>2, <1>9 DEF Ready, mumble_frame_ready, mumble_frame_size,
                      MUMBLE_FRAME_HEADER_SIZE
  <2> QED
    BY <1>1, <1>5, <1>6, <1>7, <2>1
<1> QED
  BY <1>8, <1>9

\* Appending a chunk.  A copy that does not fit finds less than a frame in the
\* buffer.
LEMMA AppendInv ==
  ASSUME FrameInv, NEW n \in Chunks, mumble_frame_append(n)
  PROVE  FrameInv'
<1>1. n \in Nat \ {0} /\ buffer_size \in Nat /\ off \in Nat /\ Len(Stream) \in Nat
  BY StreamAssumption, StreamFacts DEF FrameInv, FrameTypeOK
<1>2. aborted = "no" /\ ~looping /\ off + buffer_size + n <= Len(Stream)
  BY DEF mumble_frame_append
<1>3. CASE /\ buffer_size' = buffer_size + n /\ looping' = TRUE
           /\ UNCHANGED <<off, seq, next, torn, handled, keys, unsent, aborted>>
  <2>1. FrameTypeOK'
    BY <1>1, <1>2, <1>3 DEF FrameInv, FrameTypeOK
  <2>2. FramingKept' /\ HandledByType' /\ DrainedOutside'
    BY <1>3 DEF FrameInv, FramingKept, HandledByType, DrainedOutside, FrameType, TypeAt
  <2>3. OverrunOnlyByFront'
    BY <1>2, <1>3 DEF OverrunOnlyByFront
  <2> QED
    BY <2>1, <2>2, <2>3 DEF FrameInv
<1>4. CASE buffer_size + n > Allocated /\ Abort("overrun")
  <2> USE DEF Abort
  <2>1. FrameTypeOK'
    BY <1>4 DEF FrameInv, FrameTypeOK, Aborts
  <2>2. FramingKept' /\ HandledByType' /\ DrainedOutside'
    BY <1>4 DEF FrameInv, FramingKept, HandledByType, DrainedOutside, FrameType,
                TypeAt, Ready
  <2>3. OverrunOnlyByFront'
    <3> SUFFICES ASSUME ~torn
                 PROVE  /\ next \in FrameNo
                        /\ buffer_size < Start[next + 1] - Start[next]
                        /\ \E c \in Chunks : buffer_size + c > Allocated
      BY <1>4 DEF OverrunOnlyByFront
    <3>1. off + buffer_size < Len(Stream)
      BY <1>1, <1>2
    <3> QED
      BY <1>2, <1>4, <3>1, FrontUnfinished
  <2> QED
    BY <2>1, <2>2, <2>3 DEF FrameInv
<1> QED
  BY <1>3, <1>4 DEF mumble_frame_append

\* Cutting a frame off: the invariant survives when the branch taken is the
\* one the frame's type asks for.
LEMMA PopInv ==
  ASSUME FrameInv, Ready, looping, aborted = "no",
         NEW what \in {"message", "null", "audio", "dropped"},
         Pop(what), Again,
         seq' = seq, aborted' = aborted, keys' \in -1 .. NFrames, unsent' \in BOOLEAN,
         ~torn /\ buffer_size # 5 =>
           IF FrameType(next) = MUMBLE_TYPE_UDPTUNNEL
             THEN what \in {"audio", "dropped"}
             ELSE next \notin Malformed => what = "message"
  PROVE  FrameInv'
<1> USE DEF FrameInv, Pop, Again
<1>1. mumble_frame_pop(off, buffer_size) \in 0 .. buffer_size
  BY ReadyMeans
<1>2. off \in Nat /\ buffer_size \in Nat /\ next \in Nat \ {0}
      /\ NFrames \in Nat /\ Len(Stream) \in Nat /\ Allocated \in Nat
      /\ off + buffer_size <= Len(Stream)
  BY StreamAssumption DEF FrameTypeOK
<1>3. off' \in Nat /\ buffer_size' \in Nat /\ off' + buffer_size' <= Len(Stream)
      /\ buffer_size' <= buffer_size
  BY <1>1, <1>2
<1>4. FrameTypeOK'
  <2>1. handled' \in [FrameNo -> {"no", "message", "null", "audio", "dropped"}]
    BY DEF FrameTypeOK
  <2>2. next' \in Nat \ {0} /\ keys' \in -1 .. NFrames
    BY <1>2
  <2>3. /\ looping' \in BOOLEAN /\ seq' \in BOOLEAN /\ torn' \in BOOLEAN
        /\ unsent' \in BOOLEAN /\ aborted' \in Aborts
    BY Zenon DEF FrameTypeOK
  <2> QED
    BY <1>3, <2>1, <2>2, <2>3, Zenon DEF FrameTypeOK
<1>5. OverrunOnlyByFront' /\ DrainedOutside'
  <2>1. looping' /\ aborted' = "no"
    BY Zenon
  <2>2. aborted' # "overrun"
    BY <2>1
  <2> QED
    BY <2>1, <2>2, Zenon DEF OverrunOnlyByFront, DrainedOutside
<1>6. CASE torn \/ buffer_size = 5
  BY <1>4, <1>5, <1>6 DEF FramingKept, HandledByType
<1>7. CASE ~torn /\ buffer_size # 5
  <2>1. /\ next \in FrameNo
        /\ off + mumble_frame_pop(off, buffer_size) = Start[next + 1]
    BY <1>7, FrontIsNext
  <2>2. FramingKept'
    BY <1>2, <2>1 DEF FramingKept, FrameNo
  <2>3. HandledByType'
    <3>1. handled' = [handled EXCEPT ![next] = what] /\ next' = next + 1
      BY <1>7
    <3>2. ASSUME NEW k \in FrameNo
          PROVE  /\ k >= next + 1 => handled'[k] = "no"
                 /\ k < next + 1 =>
                      IF FrameType(k) = MUMBLE_TYPE_UDPTUNNEL
                        THEN handled'[k] \in {"audio", "dropped"}
                        ELSE k \notin Malformed => handled'[k] = "message"
      <4>1. CASE k = next
        BY <1>2, <1>7, <3>1, <4>1 DEF FrameTypeOK, FrameNo
      <4>2. CASE k # next
        <5>1. handled'[k] = handled[k]
          BY <3>1, <4>2 DEF FrameTypeOK
        <5>2. (k >= next + 1 => k >= next) /\ (k < next + 1 => k < next)
          BY <1>2, <4>2 DEF FrameNo
        <5> QED
          BY <1>7, <5>1, <5>2 DEF HandledByType
      <4> QED
        BY <4>1, <4>2
    <3> QED
      BY <3>1, <3>2 DEF HandledByType, FrameType, TypeAt
  <2> QED
    BY <1>4, <1>5, <2>2, <2>3
<1> QED
  BY <1>6, <1>7

\* A failed assertion changes nothing but the reason.
LEMMA AbortInv ==
  ASSUME FrameInv, looping, NEW why \in Aborts \ {"overrun"}, Abort(why)
  PROVE  FrameInv'
BY DEF FrameInv, Abort, FrameTypeOK, FramingKept, HandledByType, OverrunOnlyByFront,
       DrainedOutside

\* An iteration that finds an audio frame.
LEMMA TunnelledAudioInv ==
  ASSUME FrameInv, TunnelledAudio
  PROVE  FrameInv'
<1>1. looping /\ aborted = "no" /\ Ready /\ Audio
  BY DEF TunnelledAudio
<1>2. ASSUME NEW why \in {"audio_decoder.c:18", "audio_decoder.c:70"}, Abort(why)
      PROVE  FrameInv'
  BY <1>1, <1>2, AbortInv DEF Aborts
<1>3. ASSUME Pop(IF seq THEN "dropped" ELSE "audio"), Again,
             UNCHANGED <<seq, keys, unsent, aborted>>
      PROVE  FrameInv'
  <2>1. ~torn /\ buffer_size # 5 => FrameType(next) = MUMBLE_TYPE_UDPTUNNEL
    BY <1>1, FrontIsNext DEF FrameInv, Audio, mumble_frame_is_audio
  <2>2. (IF seq THEN "dropped" ELSE "audio") \in {"audio", "dropped"}
    OBVIOUS
  <2>3. keys \in -1 .. NFrames /\ unsent \in BOOLEAN
    BY DEF FrameInv, FrameTypeOK
  <2> QED
    BY <1>1, <1>3, <2>1, <2>2, <2>3, PopInv
<1> QED
  BY <1>2, <1>3 DEF TunnelledAudio

\* An iteration that finds any other frame.
LEMMA MessageInv ==
  ASSUME FrameInv, Message
  PROVE  FrameInv'
<1> DEFINE type == mumble_frame_type(off, buffer_size)
<1>1. looping /\ aborted = "no" /\ Ready /\ ~Audio
  BY DEF Message
<1>2. ASSUME NEW why \in {"descriptor", "crypt_setup"}, Abort(why)
      PROVE  FrameInv'
  BY <1>1, <1>2, AbortInv DEF Aborts
<1>3. ASSUME NEW m \in unpack(off, buffer_size),
             Pop(IF m = Nothing THEN "null" ELSE "message"),
             keys' = KeysAfter(type, m),
             unsent' = (unsent \/ m \in {Nothing, Garbage}),
             Again, UNCHANGED <<seq, aborted>>
      PROVE  FrameInv'
  <2>1. m \in -1 .. NFrames /\ NFrames \in Nat
    <3>1. m \in FrameNo \cup {Nothing, Garbage}
      BY DEF unpack
    <3> QED
      BY <3>1, StreamAssumption DEF FrameNo, Nothing, Garbage
  <2>2. keys' \in -1 .. NFrames /\ unsent' \in BOOLEAN
    BY <1>3, <2>1 DEF KeysAfter, FrameInv, FrameTypeOK
  <2>3. ASSUME ~torn, buffer_size # 5
        PROVE  /\ FrameType(next) # MUMBLE_TYPE_UDPTUNNEL
               /\ (IF m = Nothing THEN "null" ELSE "message")
                    = (IF next \in Malformed THEN "null" ELSE "message")
    <3>1. /\ next \in FrameNo /\ buffer_size >= 6 /\ off = Start[next]
          /\ FrameType(next) # MUMBLE_TYPE_UDPTUNNEL
      BY <1>1, <2>3, FrontIsNext DEF FrameInv, Audio, mumble_frame_is_audio
    <3>2. m = IF next \in Malformed THEN Nothing ELSE next
      BY <1>3, <3>1, UnpackFront DEF FrameInv, FrameTypeOK
    <3>3. next # Nothing
      BY <3>1, StreamAssumption DEF FrameNo, Nothing
    <3> QED
      BY <3>1, <3>2, <3>3
  <2>4. (IF m = Nothing THEN "null" ELSE "message") \in {"message", "null"}
    OBVIOUS
  <2> QED
    BY <1>1, <1>3, <2>2, <2>3, <2>4, PopInv
<1> QED
  BY <1>2, <1>3 DEF Message

\* Every step preserves the invariant.
LEMMA FrameNextInv == FrameInv /\ [FrameNext]_frameVars => FrameInv'
<1> SUFFICES ASSUME FrameInv, [FrameNext]_frameVars PROVE FrameInv'
  OBVIOUS
<1>1. ASSUME NEW n \in Chunks, mumble_frame_append(n) PROVE FrameInv'
  BY <1>1, AppendInv
<1>2. CASE LoopEnd
  BY <1>2 DEF LoopEnd, FrameInv, FrameTypeOK, FramingKept, HandledByType,
              OverrunOnlyByFront, DrainedOutside, Ready
<1>3. CASE TunnelledAudio
  BY <1>3, TunnelledAudioInv
<1>4. CASE Message
  BY <1>4, MessageInv
<1>5. CASE TornCrash
  BY <1>5, AbortInv DEF TornCrash, Aborts
<1>6. CASE UdpAudio
  BY <1>6 DEF UdpAudio, FrameInv, FrameTypeOK, FramingKept, HandledByType,
              OverrunOnlyByFront, DrainedOutside, Ready
<1>7. CASE UNCHANGED frameVars
  BY <1>7 DEF frameVars, FrameInv, FrameTypeOK, FramingKept, HandledByType,
              OverrunOnlyByFront, DrainedOutside, Ready
<1> QED
  BY <1>1, <1>2, <1>3, <1>4, <1>5, <1>6, <1>7 DEF FrameNext, Iterate, FrameRest

\* The invariant holds for every stream and every cut.
THEOREM FrameCorrect == FrameSpec => []FrameInv
BY FrameInitInv, FrameNextInv, PTL DEF FrameSpec

\* Until mumble_frame_ready is asked about five bytes, the front of the buffer
\* is the start of a frame: for every stream and every way it is cut.
THEOREM FrameFraming == FrameSpec => []FramingKept
<1>1. FrameInv => FramingKept
  BY DEF FrameInv
<1> QED
  BY <1>1, FrameCorrect, PTL

\* Until then every frame that parses goes exactly once through the branch of
\* its type.
THEOREM FrameHandled == FrameSpec => []HandledByType
<1>1. FrameInv => HandledByType
  BY DEF FrameInv
<1> QED
  BY <1>1, FrameCorrect, PTL

\* Until then mumble_frame_append, which never checks, overruns the buffer only
\* by a read behind a frame that is not all there: for every stream, frames
\* longer than the buffer included.
THEOREM FrameOverrun == FrameSpec => []OverrunOnlyByFront
<1>1. FrameInv => OverrunOnlyByFront
  BY DEF FrameInv
<1> QED
  BY <1>1, FrameCorrect, PTL
-------------------------------------------------------------------------------
\* While no frame was torn the keys in use, if any, came from a frame of the
\* server; the types alone also allow the garbage of a torn one, -1.
KeysInv == KeysAreLatest /\ (~torn => keys \in 0 .. NFrames)

\* No key before the first CryptSetup.
LEMMA KeysInitInv == FrameInit => KeysInv
<1> SUFFICES ASSUME FrameInit PROVE KeysInv
  OBVIOUS
<1>1. keys = 0 /\ next = 1 /\ NFrames \in Nat
  BY StreamFacts DEF FrameInit
<1> QED
  BY <1>1 DEF KeysInv, KeysAreLatest, FrameNo

\* A step that moves neither the front nor the keys.
LEMMA KeysUntouched ==
  ASSUME KeysInv, UNCHANGED <<next, keys, torn>>
  PROVE  KeysInv'
BY DEF KeysInv, KeysAreLatest, IsCryptSetup, FrameType, TypeAt

\* Cutting a frame off keeps the keys if it is no CryptSetup, and takes its
\* keys if it is one.
LEMMA KeysPop ==
  ASSUME FrameInv, KeysInv, Ready, NEW what, Pop(what),
         ~torn /\ buffer_size # 5 =>
           keys' = IF IsCryptSetup(FrameType(next)) THEN next ELSE keys
  PROVE  KeysInv'
<1> SUFFICES ASSUME ~torn' PROVE KeysInv'
  BY DEF KeysInv, KeysAreLatest
<1>1. ~torn /\ buffer_size # 5 /\ next' = next + 1
  BY DEF Pop
<1>2. next \in FrameNo
  BY <1>1, FrontIsNext DEF FrameInv
<1>3. NFrames \in Nat /\ next \in Nat /\ keys \in 0 .. NFrames
  BY <1>1, StreamFacts DEF KeysInv, FrameInv, FrameTypeOK
<1>4. CASE IsCryptSetup(FrameType(next))
  <2>1. keys' = next
    BY <1>1, <1>4
  <2>2. keys' \in 0 .. NFrames /\ keys' < next'
    BY <1>1, <1>2, <1>3, <2>1 DEF FrameNo
  <2>3. \A k \in FrameNo : k < next' => k <= keys'
    BY <1>1, <1>3, <2>1 DEF FrameNo
  <2> QED
    BY <1>4, <2>1, <2>2, <2>3 DEF KeysInv, KeysAreLatest
<1>5. CASE ~IsCryptSetup(FrameType(next))
  <2>1. keys' = keys
    BY <1>1, <1>5
  <2>2. /\ keys # 0 => keys < next /\ IsCryptSetup(FrameType(keys))
        /\ \A k \in FrameNo : IsCryptSetup(FrameType(k)) /\ k < next => k <= keys
    BY <1>1 DEF KeysInv, KeysAreLatest
  <2>3. keys' # 0 => keys' < next' /\ IsCryptSetup(FrameType(keys'))
    BY <1>1, <1>3, <2>1, <2>2
  <2>4. ASSUME NEW k \in FrameNo, IsCryptSetup(FrameType(k)), k < next'
        PROVE  k <= keys'
    <3>1. k # next
      BY <1>5, <2>4
    <3>2. k < next
      BY <1>1, <1>3, <2>4, <3>1 DEF FrameNo
    <3> QED
      BY <2>1, <2>2, <2>4, <3>2
  <2> QED
    BY <1>3, <2>1, <2>3, <2>4 DEF KeysInv, KeysAreLatest
<1> QED
  BY <1>4, <1>5

\* Every step keeps the keys the latest.
LEMMA KeysNextInv == FrameInv /\ KeysInv /\ [FrameNext]_frameVars => KeysInv'
<1> SUFFICES ASSUME FrameInv, KeysInv, [FrameNext]_frameVars PROVE KeysInv'
  OBVIOUS
<1>1. ASSUME NEW n \in Chunks, mumble_frame_append(n) PROVE KeysInv'
  BY <1>1, KeysUntouched DEF mumble_frame_append, Abort
<1>2. CASE LoopEnd \/ UdpAudio \/ TornCrash \/ UNCHANGED frameVars
  BY <1>2, KeysUntouched DEF LoopEnd, UdpAudio, TornCrash, Abort, frameVars
<1>3. ASSUME NEW why, Abort(why) PROVE KeysInv'
  BY <1>3, KeysUntouched DEF Abort
<1>4. CASE TunnelledAudio
  <2>1. ASSUME NEW what, Pop(what), UNCHANGED keys PROVE KeysInv'
    <3>1. Ready /\ Audio
      BY <1>4 DEF TunnelledAudio
    <3>2. ~torn /\ buffer_size # 5 => FrameType(next) = MUMBLE_TYPE_UDPTUNNEL
      BY <3>1, FrontIsNext DEF FrameInv, Audio, mumble_frame_is_audio
    <3>3. ~torn /\ buffer_size # 5 => ~IsCryptSetup(FrameType(next))
      BY <3>2 DEF IsCryptSetup, MUMBLE_TYPE_UDPTUNNEL, MUMBLE_TYPE_CRYPT_SETUP
    <3> QED
      BY <2>1, <3>1, <3>3, KeysPop
  <2> QED
    BY <1>3, <1>4, <2>1 DEF TunnelledAudio
<1>5. CASE Message
  <2> DEFINE type == mumble_frame_type(off, buffer_size)
  <2>1. ASSUME NEW m \in unpack(off, buffer_size), NEW what, Pop(what),
               ~(IsCryptSetup(type) /\ CryptSetupLacks(m)),
               keys' = KeysAfter(type, m)
        PROVE  KeysInv'
    <3>1. Ready
      BY <1>5 DEF Message
    <3>2. ASSUME ~torn, buffer_size # 5
          PROVE  keys' = IF IsCryptSetup(FrameType(next)) THEN next ELSE keys
      <4>1. /\ next \in FrameNo /\ buffer_size >= 6 /\ off = Start[next]
            /\ type = FrameType(next)
        BY <3>1, <3>2, FrontIsNext DEF FrameInv
      <4>2. m = IF next \in Malformed THEN Nothing ELSE next
        BY <2>1, <4>1, UnpackFront DEF FrameInv, FrameTypeOK
      <4>3. IsCryptSetup(type) => m = next
        BY <2>1, <4>2 DEF CryptSetupLacks
      <4> QED
        BY <2>1, <4>1, <4>3 DEF KeysAfter
    <3> QED
      BY <2>1, <3>1, <3>2, KeysPop
  <2> QED
    BY <1>3, <1>5, <2>1 DEF Message
<1> QED
  BY <1>1, <1>2, <1>4, <1>5 DEF FrameNext, Iterate, FrameRest

\* Until a frame is torn the keys in use are those of the last CryptSetup the
\* server sent before the front of the buffer: for every stream and every cut.
THEOREM FrameKeysLatest == FrameSpec => []KeysAreLatest
<1>1. KeysInv => KeysAreLatest
  BY DEF KeysInv
<1> QED
  BY <1>1, FrameCorrect, KeysInitInv, KeysNextInv, PTL DEF FrameSpec
===============================================================================
