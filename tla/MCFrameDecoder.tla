---------------------------- MODULE MCFrameDecoder ----------------------------
(***************************************************************************)
(* Server streams for FrameDecoder, written as lists of <<type, length of  *)
(* the body>>.                                                             *)
(***************************************************************************)
EXTENDS FrameDecoder, SequencesExt

Bytes(frame) == <<0, frame[1], 0, 0, 0, frame[2]>> \o [i \in 1 .. frame[2] |-> 7]
BytesOf(list) == FlattenSeq([k \in 1 .. Len(list) |-> Bytes(list[k])])
StartOf(list) ==
  [k \in 1 .. Len(list) + 1 |-> Len(BytesOf(SubSeq(list, 1, k - 1)))]

\* Version, CryptSetup, tunnelled audio that is 15 bytes with its header, an
\* empty TextMessage, a second CryptSetup, and a Ping.
Mixed       == <<<<0, 2>>, <<15, 1>>, <<1, 9>>, <<11, 0>>, <<15, 3>>, <<3, 1>>>>
MixedStream == BytesOf(Mixed)
MixedStart  == StartOf(Mixed)

\* A Version and a Ping.
Plain       == <<<<0, 2>>, <<3, 1>>>>
PlainStream == BytesOf(Plain)
PlainStart  == StartOf(Plain)

\* A CryptSetup with a key, and later a resync.
Resync       == <<<<15, 3>>, <<15, 1>>>>
ResyncStream == BytesOf(Resync)
ResyncStart  == StartOf(Resync)

\* One frame of voice in the tunnel: Opus, speaker 1, number 2, and a payload of
\* 6 bytes with its length in front.
VoiceStream == <<0, 1, 0, 0, 0, 10>> \o <<128, 1, 2, 6>> \o [i \in 1 .. 6 |-> 7]
VoiceStart  == <<0, 16>>
===============================================================================
