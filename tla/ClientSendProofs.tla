--------------------------- MODULE ClientSendProofs ---------------------------
(***************************************************************************)
(* For every sequence of voice writes, changes of path, pings and messages *)
(* of an application, every payload Opus may return and every first        *)
(* sequence number: no sound is lost between the writes and the blocks,    *)
(* every block is sent once, under its number and to the right target, and *)
(* no packet is too long for a datagram.                                   *)
(***************************************************************************)
EXTENDS ClientSend, FiniteSetTheorems, SequenceTheorems, TLAPS

-------------------------------------------------------------------------------
(* The block buffer. *)

\* Between a flush and the crash it leads to nothing moves: the block stays
\* full, and no byte is left to copy.  Before it the block has room.
FlushHangs ==
  /\ depth = 0 => used < Size
  /\ depth > 0 => active /\ left = 0 /\ end /\ used = Size
  /\ crashed => depth > 0

\* What brought the recursion about, while it lasts.
HangNeedsRemainder == depth > 0 /\ ~flushed => fed % Size # 0

BufferInv ==
  /\ BufferTypeOK
  /\ fed + left <= MaxFed
  /\ ~active => left = 0
  /\ FlushHangs /\ NothingLost /\ HangNeedsRemainder

\* The constants of the code.
LEMMA Constants960 ==
  /\ Size = 960 /\ MaxFed \in Nat /\ StackDepth \in Nat \ {0}
  /\ Writes \subseteq Nat /\ Ends \subseteq BOOLEAN
  /\ SequenceRange \in Nat \ {0} /\ Start \in Nat /\ Start \in 0 .. SequenceRange - 1
  /\ PayloadLens \subseteq 1 .. 960 /\ Targets \subseteq Nat
BY FrameBufferAssumption, ClientSendAssumption DEF audio_buffer_size

\* mumble_buffer_create
LEMMA BufferInitInv == BufferInit => BufferInv
<1> SUFFICES ASSUME BufferInit PROVE BufferInv
  OBVIOUS
<1>1. {active, end, final, flushed, crashed} \subseteq BOOLEAN
  BY Zenon DEF BufferInit
<1> QED
  BY <1>1, Constants960
     DEF BufferInit, BufferInv, BufferTypeOK, FlushHangs, NothingLost, HangNeedsRemainder

\* mumble_buffer_write and mumble_buffer_flush are called.
LEMMA BufferCallInv ==
  ASSUME BufferInv,
         \/ \E n \in Writes, e \in BOOLEAN : mumble_buffer_write(n, e)
         \/ mumble_buffer_flush
  PROVE  BufferInv'
<1> USE DEF BufferInv, BufferTypeOK, FlushHangs, NothingLost, HangNeedsRemainder
<1>1. ASSUME NEW n \in Writes, NEW e \in BOOLEAN, mumble_buffer_write(n, e)
      PROVE  BufferInv'
  <2>1. depth = 0 /\ depth' = 0 /\ left' = n /\ n \in Nat /\ fed + n <= MaxFed /\ active'
    BY <1>1, Constants960 DEF mumble_buffer_write
  <2>2. {active, end, final, flushed, crashed}' \subseteq BOOLEAN
    BY <1>1, Zenon DEF mumble_buffer_write
  <2> QED
    BY <1>1, <2>1, <2>2, Constants960 DEF mumble_buffer_write
<1>2. CASE mumble_buffer_flush
  <2>1. {active, end, final, flushed, crashed}' \subseteq BOOLEAN
    BY <1>2, Zenon DEF mumble_buffer_flush
  <2> QED
    BY <1>2, <2>1, Constants960 DEF mumble_buffer_flush
<1> QED
  BY <1>1, <1>2

\* A round of the loop: what it copies fits the block and is there.
LEMMA AmountFits ==
  ASSUME BufferInv, left > 0
  PROVE  /\ depth = 0 /\ used \in 0 .. 959
         /\ Amount \in Nat /\ Amount > 0 /\ Amount <= left /\ used + Amount <= 960
         /\ BlockDone <=> used + Amount = 960
BY Constants960 DEF BufferInv, BufferTypeOK, FlushHangs, Amount, BlockDone

\* A round copies bytes from the write into the block, and empties a full one.
LEMMA CopyRoundInv == BufferInv /\ CopyRound => BufferInv'
<1> SUFFICES ASSUME BufferInv, CopyRound PROVE BufferInv'
  OBVIOUS
<1>1. /\ active /\ left > 0 /\ used' = UsedAfter(used + Amount) /\ left' = left - Amount
      /\ fed' = fed + Amount /\ UNCHANGED <<active, end, depth, flushed, crashed>>
      /\ blocks' = IF BlockDone THEN blocks + 1 ELSE blocks
  BY DEF CopyRound
<1>2. /\ depth = 0 /\ used \in 0 .. 959
      /\ Amount \in Nat /\ Amount > 0 /\ Amount <= left /\ used + Amount <= 960
      /\ BlockDone <=> used + Amount = 960
  BY <1>1, AmountFits
<1>3. /\ left \in Nat /\ fed \in Nat /\ blocks \in Nat /\ MaxFed \in Nat /\ Size = 960
      /\ fed + left <= MaxFed /\ fed = blocks * 960 + used
  BY <1>2, Constants960 DEF BufferInv, BufferTypeOK, NothingLost
<1>4. {active, end, final, flushed, crashed}' \subseteq BOOLEAN
  <2>1. final' \in BOOLEAN
    BY Zenon DEF CopyRound, FinalWrite, BufferInv, BufferTypeOK
  <2> QED
    BY <1>1, <2>1, Zenon DEF BufferInv, BufferTypeOK
<1>5. used' \in 0 .. 959 /\ used' = IF BlockDone THEN 0 ELSE used + Amount
  BY <1>1, <1>2, <1>3 DEF UsedAfter
<1>6. BufferTypeOK' /\ fed' + left' <= MaxFed
  BY <1>1, <1>2, <1>3, <1>4, <1>5 DEF BufferInv, BufferTypeOK
<1>7. NothingLost'
  BY <1>1, <1>2, <1>3, <1>5 DEF NothingLost
<1>8. FlushHangs' /\ HangNeedsRemainder' /\ active'
  BY <1>1, <1>2, <1>3, <1>5 DEF FlushHangs, HangNeedsRemainder, BufferInv
<1> QED
  BY <1>6, <1>7, <1>8 DEF BufferInv

\* The write returns, or is caught in the recursion of flush and write.
LEMMA BufferReturnInv == BufferInv /\ (WriteReturns \/ FlushFromWrite) => BufferInv'
<1> SUFFICES ASSUME BufferInv, WriteReturns \/ FlushFromWrite PROVE BufferInv'
  OBVIOUS
<1>1. CASE WriteReturns
  <2>1. ~(depth > 0)
    BY <1>1, Constants960 DEF WriteReturns, LeftOver, BufferInv, FlushHangs
  <2>2. {active, end, final, flushed, crashed}' \subseteq BOOLEAN
    BY <1>1, Zenon DEF WriteReturns, BufferInv, BufferTypeOK
  <2> QED
    BY <1>1, <2>1, <2>2, Constants960
       DEF WriteReturns, BufferInv, BufferTypeOK, FlushHangs, NothingLost, HangNeedsRemainder
<1>2. CASE FlushFromWrite
  <2>1. /\ active' /\ left' = 0 /\ end' /\ used' = 960 /\ fed' = fed /\ flushed' = flushed
        /\ left = 0 /\ used > 0 /\ blocks' = blocks /\ ~crashed
        /\ IF depth < StackDepth THEN depth' = depth + 1 /\ UNCHANGED crashed
                                 ELSE crashed' = TRUE /\ UNCHANGED depth
    BY <1>2, Constants960 DEF FlushFromWrite, LeftOver
  <2>2. {active, end, final, flushed, crashed}' \subseteq BOOLEAN
    BY <1>2, Zenon DEF FlushFromWrite, BufferInv, BufferTypeOK
  <2>3. depth \in 0 .. StackDepth /\ StackDepth \in Nat \ {0} /\ fed \in Nat
        /\ blocks \in Nat /\ used \in 0 .. 960
    BY Constants960 DEF BufferInv, BufferTypeOK
  <2>4. depth' \in 0 .. StackDepth /\ depth' > 0
    BY <2>1, <2>3
  <2>5. BufferTypeOK' /\ fed' + left' <= MaxFed
    BY <2>1, <2>2, <2>3, <2>4, Constants960 DEF BufferInv, BufferTypeOK
  <2>6. FlushHangs'
    BY <2>1, <2>4, Constants960 DEF FlushHangs
  <2>7. ASSUME ~flushed PROVE fed % Size # 0
    <3>1. CASE depth > 0
      BY <2>7, <3>1 DEF BufferInv, HangNeedsRemainder
    <3>2. CASE depth = 0
      <4>1. used < 960 /\ fed = blocks * 960 + used
        BY <3>2, Constants960 DEF BufferInv, FlushHangs, NothingLost
      <4> QED
        BY <2>1, <2>3, <4>1, Constants960, SMTT(60)
    <3> QED
      BY <2>3, <3>1, <3>2
  <2>8. NothingLost' /\ HangNeedsRemainder'
    BY <2>1, <2>4, <2>7 DEF NothingLost, HangNeedsRemainder
  <2> QED
    BY <2>1, <2>5, <2>6, <2>8 DEF BufferInv
<1> QED
  BY <1>1, <1>2

\* The buffer's invariant covers both of its properties.
LEMMA BufferInvCovers == BufferInv => NothingLost /\ CrashNeedsRemainder
BY DEF BufferInv, FlushHangs, HangNeedsRemainder, CrashNeedsRemainder

-------------------------------------------------------------------------------
(* Frames and packets. *)

\* A varint takes nine bytes at most, whatever the number.
LEMMA VarintSize ==
  ASSUME NEW v
  PROVE  varint_encode_size(v) \in {1, 2, 3, 4, 5, 9}
<1> DEFINE Forms == {1, 2, 3, 4, 5, 9}
           Fits(n) == Room(v, n) /\ \A m \in Forms : m < n => ~Room(v, m)
<1>1. Room(v, 9)
  BY DEF Room
<1>2. \E n \in Forms : Fits(n)
  <2> HIDE DEF Forms
  <2>1. CASE Room(v, 1)
    <3>1. 1 \in Forms /\ \A m \in Forms : ~(m < 1)
      BY DEF Forms
    <3> QED
      BY <2>1, <3>1
  <2>2. CASE ~Room(v, 1) /\ Room(v, 2)
    <3>1. 2 \in Forms /\ \A m \in Forms : m < 2 => m = 1
      BY DEF Forms
    <3> QED
      BY <2>2, <3>1
  <2>3. CASE ~Room(v, 1) /\ ~Room(v, 2) /\ Room(v, 3)
    <3>1. 3 \in Forms /\ \A m \in Forms : m < 3 => m = 1 \/ m = 2
      BY DEF Forms
    <3> QED
      BY <2>3, <3>1
  <2>4. CASE ~Room(v, 1) /\ ~Room(v, 2) /\ ~Room(v, 3) /\ Room(v, 4)
    <3>1. 4 \in Forms /\ \A m \in Forms : m < 4 => m = 1 \/ m = 2 \/ m = 3
      BY DEF Forms
    <3> QED
      BY <2>4, <3>1
  <2>5. CASE ~Room(v, 1) /\ ~Room(v, 2) /\ ~Room(v, 3) /\ ~Room(v, 4) /\ Room(v, 5)
    <3>1. 5 \in Forms /\ \A m \in Forms : m < 5 => m = 1 \/ m = 2 \/ m = 3 \/ m = 4
      BY DEF Forms
    <3> QED
      BY <2>5, <3>1
  <2>6. CASE ~Room(v, 1) /\ ~Room(v, 2) /\ ~Room(v, 3) /\ ~Room(v, 4) /\ ~Room(v, 5)
    <3>1. 9 \in Forms
          /\ \A m \in Forms : m < 9 => m = 1 \/ m = 2 \/ m = 3 \/ m = 4 \/ m = 5
      BY DEF Forms
    <3> QED
      BY <1>1, <2>6, <3>1
  <2> QED
    BY <2>1, <2>2, <2>3, <2>4, <2>5, <2>6
<1> QED
  BY <1>2 DEF varint_encode_size

\* What goes over TCP: messages that passed mumble_frame_encode, and tunnelled
\* voice packets.
Packet == [number : Nat, block : Nat, target : 0 .. 31, bytes : 0 .. DatagramLimit]
Messages == AppMessages \cup {Version, Authenticate, Ping}
Fitting == {m \in Messages : EncodedFits(m)}
Frame == {mumble_frame_encode(m) : m \in Fitting} \cup {Tunnel(p) : p \in Packet}

\* The table of message types.
LEMMA Table ==
  /\ DOMAIN descriptors = 1 .. 26
  /\ descriptors[1] = "Version" /\ descriptors[2] = "UDPTunnel"
  /\ descriptors[3] = "Authenticate" /\ descriptors[4] = "Ping"
BY DEF descriptors

\* mumble_frame_encode takes a type of the table.
LEMMA TypeOfName ==
  ASSUME NEW m, \E i \in DOMAIN descriptors : descriptors[i] = m.name
  PROVE  get_message_type(m) \in 0 .. 25
<1> DEFINE j == CHOOSE i \in DOMAIN descriptors : descriptors[i] = m.name
<1>1. j \in 1 .. 26
  BY Table
<1>2. get_message_type(m) = j - 1
  BY DEF get_message_type
<1> HIDE DEF j
<1> QED
  BY <1>1, <1>2

\* The messages of the client and of applications are in the table, none is a
\* voice packet, and their sizes are numbers.
LEMMA MessageFacts ==
  ASSUME NEW m \in Messages
  PROVE  /\ \E i \in DOMAIN descriptors : descriptors[i] = m.name
         /\ m.name # "UDPTunnel"
         /\ Cardinality(Packed(m)) + m.bulk \in Nat
<1>1. CASE m \in AppMessages
  BY <1>1, AppAssumption, FS_CardinalityType
<1>2. CASE m \in {Version, Ping}
  <2>1. Packed(m) = {} /\ m.bulk = 0 /\ m.name \in {"Version", "Ping"}
    BY <1>2 DEF Version, Ping, Message, Packed
  <2>2. \E i \in DOMAIN descriptors : descriptors[i] = m.name
    BY <2>1, Table
  <2> QED
    BY <2>1, <2>2, FS_EmptySet
<1>3. CASE m = Authenticate
  <2>1. Packed(m) = {"username", "opus"} /\ m.bulk = 0 /\ m.name = "Authenticate"
    BY <1>3 DEF Authenticate, Message, Packed
  <2>2. IsFiniteSet(Packed(m))
    <3>1. IsFiniteSet({"username"})
      BY FS_Singleton
    <3>2. IsFiniteSet({"username"} \cup {"opus"})
      BY <3>1, FS_AddElement
    <3>3. {"username", "opus"} = {"username"} \cup {"opus"}
      OBVIOUS
    <3> QED
      BY <2>1, <3>2, <3>3
  <2>3. \E i \in DOMAIN descriptors : descriptors[i] = m.name
    BY <2>1, Table
  <2>4. Cardinality(Packed(m)) \in Nat
    BY <2>2, FS_CardinalityType
  <2> QED
    BY <2>1, <2>3, <2>4
<1> QED
  BY <1>1, <1>2, <1>3 DEF Messages

\* A frame may be longer than any voice packet.
LEMMA MaxSize == MUMBLE_FRAME_MAX_SIZE \in Nat /\ 2000 < MUMBLE_FRAME_MAX_SIZE
BY SMT DEF MUMBLE_FRAME_MAX_SIZE

\* Every frame, whoever wrote it, has a type of the table and a size the
\* encoder allows.
LEMMA FrameFacts ==
  ASSUME NEW f \in Frame
  PROVE  f.type \in 0 .. 25 /\ f.size \in Nat /\ f.size <= MUMBLE_FRAME_MAX_SIZE
<1>1. ASSUME NEW m \in Fitting, f = mumble_frame_encode(m)
      PROVE  f.type \in 0 .. 25 /\ f.size \in Nat /\ f.size <= MUMBLE_FRAME_MAX_SIZE
  <2>1. m \in Messages /\ EncodedFits(m)
    BY DEF Fitting
  <2>2. f.size = Cardinality(Packed(m)) + m.bulk /\ f.type = get_message_type(m)
    BY <1>1 DEF mumble_frame_encode
  <2>3. f.size \in Nat /\ 6 + f.size <= MUMBLE_FRAME_MAX_SIZE
    BY <1>1, <2>1, <2>2, MessageFacts DEF EncodedFits
  <2>4. f.type \in 0 .. 25
    BY <2>1, <2>2, MessageFacts, TypeOfName
  <2> QED
    BY <2>3, <2>4, MaxSize
<1>2. ASSUME NEW p \in Packet, f = Tunnel(p)
      PROVE  f.type \in 0 .. 25 /\ f.size \in Nat /\ f.size <= MUMBLE_FRAME_MAX_SIZE
  <2>1. p.bytes \in 0 .. 1020
    BY DEF Packet, DatagramLimit
  <2>2. f.type = 1 /\ f.size = p.bytes
    BY <1>2 DEF Tunnel, MUMBLE_TYPE_UDPTUNNEL
  <2>3. \A n \in 0 .. 1020 : n \in Nat /\ n <= MUMBLE_FRAME_MAX_SIZE
    BY MaxSize
  <2>4. 1 \in 0 .. 25
    OBVIOUS
  <2> QED
    BY <2>1, <2>2, <2>3, <2>4, ZenonT(60)
<1> QED
  BY <1>1, <1>2 DEF Frame

\* The greeting fits the encoder's buffer.
LEMMA GreetingFits == {Version, Authenticate, Ping} \subseteq Fitting
<1>1. ASSUME NEW m \in {Version, Authenticate, Ping}
      PROVE  Cardinality(Packed(m)) + m.bulk \in 0 .. 2
  <2>1. CASE m \in {Version, Ping}
    <3>1. Packed(m) = {} /\ m.bulk = 0
      BY <2>1 DEF Version, Ping, Message, Packed
    <3> QED
      BY <3>1, FS_EmptySet
  <2>2. CASE m = Authenticate
    <3>1. Packed(m) = {"username"} \cup {"opus"} /\ m.bulk = 0
      BY <2>2 DEF Authenticate, Message, Packed
    <3>2. IsFiniteSet({"username"}) /\ Cardinality({"username"}) = 1
      BY FS_Singleton
    <3>3. Cardinality({"username"} \cup {"opus"}) = 2
      BY <3>2, FS_AddElement
    <3> QED
      BY <3>1, <3>3
  <2> QED
    BY <2>1, <2>2
<1>2. ASSUME NEW m \in {Version, Authenticate, Ping} PROVE EncodedFits(m)
  <2>1. mumble_frame_encode(m).size = Cardinality(Packed(m)) + m.bulk
    BY DEF mumble_frame_encode
  <2>2. \A n \in 0 .. 2 : 6 + n <= MUMBLE_FRAME_MAX_SIZE
    BY MaxSize
  <2> QED
    BY <1>1, <2>1, <2>2 DEF EncodedFits
<1> QED
  BY <1>2 DEF Fitting, Messages

-------------------------------------------------------------------------------
(* What a step does to the packets of both paths. *)

PlainFrame == {mumble_frame_encode(m) : m \in Fitting}

Written == tcp \in Seq(Frame) /\ datagrams \in Seq(Packet)

\* Messages are not mistaken for voice, and voice is not for messages.
LEMMA Marked ==
  /\ \A f \in PlainFrame : f \in Frame /\ f.body.name # "UDPTunnel"
  /\ \A p \in Packet : /\ Tunnel(p) \in Frame /\ Tunnel(p).body.name = "UDPTunnel"
                       /\ Tunnel(p).body.packet = p
<1>1. ASSUME NEW m \in Fitting PROVE mumble_frame_encode(m).body.name # "UDPTunnel"
  BY MessageFacts DEF Fitting, mumble_frame_encode
<1>2. \A f \in PlainFrame : f \in Frame /\ f.body.name # "UDPTunnel"
  BY <1>1 DEF PlainFrame, Frame
<1>3. \A p \in Packet : Tunnel(p) \in Frame
  BY DEF Frame
<1>4. \A p \in Packet : Tunnel(p).body.name = "UDPTunnel" /\ Tunnel(p).body.packet = p
  BY DEF Tunnel
<1> QED
  BY <1>2, <1>3, <1>4

\* The places of tunnelled packets can be counted.
LEMMA TunnelledFinite == Written => IsFiniteSet(Tunnelled) /\ Cardinality(Tunnelled) \in Nat
<1> SUFFICES ASSUME Written PROVE IsFiniteSet(Tunnelled)
  BY FS_CardinalityType
<1>1. DOMAIN tcp = 1 .. Len(tcp) /\ Len(tcp) \in Nat
  BY LenProperties DEF Written
<1>2. IsFiniteSet(1 .. Len(tcp))
  BY <1>1, FS_Interval
<1>3. Tunnelled \subseteq 1 .. Len(tcp)
  BY <1>1 DEF Tunnelled
<1> QED
  BY <1>2, <1>3, FS_Subset

\* Messages, one or several, leave the packets as they are.
LEMMA WritePlain ==
  ASSUME Written, NEW t \in Seq(PlainFrame), tcp' = tcp \o t, datagrams' = datagrams
  PROVE  Written' /\ Tunnelled' = Tunnelled /\ Sent' = Sent
<1>1. t \in Seq(Frame)
  BY Marked, SeqMonotonic
<1>2. /\ tcp' \in Seq(Frame) /\ Len(tcp') = Len(tcp) + Len(t)
      /\ \A i \in 1 .. Len(tcp) + Len(t) :
           tcp'[i] = IF i <= Len(tcp) THEN tcp[i] ELSE t[i - Len(tcp)]
  BY <1>1, ConcatProperties DEF Written
<1>3. /\ DOMAIN tcp = 1 .. Len(tcp) /\ DOMAIN tcp' = 1 .. Len(tcp')
      /\ Len(tcp) \in Nat /\ Len(t) \in Nat
  BY <1>2, LenProperties DEF Written
<1>4. ASSUME NEW i \in 1 .. Len(tcp) PROVE i \in DOMAIN tcp' /\ tcp'[i] = tcp[i]
  BY <1>2, <1>3
<1>5. ASSUME NEW i \in DOMAIN tcp', i \notin 1 .. Len(tcp)
      PROVE  tcp'[i].body.name # "UDPTunnel"
  <2>1. i - Len(tcp) \in 1 .. Len(t) /\ tcp'[i] = t[i - Len(tcp)]
    BY <1>2, <1>3, <1>5
  <2>2. t[i - Len(tcp)] \in PlainFrame
    BY <2>1, ElementOfSeq
  <2> QED
    BY <2>1, <2>2, Marked
<1>6. Tunnelled' = Tunnelled
  BY <1>3, <1>4, <1>5 DEF Tunnelled
<1>7. \A i \in Tunnelled : tcp'[i] = tcp[i]
  BY <1>3, <1>4 DEF Tunnelled
<1>8. Sent' = Sent
  BY <1>6, <1>7 DEF Sent
<1> QED
  BY <1>2, <1>6, <1>8 DEF Written

\* A packet sent through the tunnel is one more, at a place of its own.
LEMMA WriteTunnel ==
  ASSUME Written, NEW p \in Packet, tcp' = Append(tcp, Tunnel(p)), datagrams' = datagrams
  PROVE  /\ Written' /\ Sent' = Sent \cup {p}
         /\ Cardinality(Tunnelled') = Cardinality(Tunnelled) + 1
<1>1. /\ Tunnel(p) \in Frame /\ Tunnel(p).body.name = "UDPTunnel"
      /\ Tunnel(p).body.packet = p
  BY Marked
<1>2. /\ tcp' \in Seq(Frame) /\ Len(tcp') = Len(tcp) + 1
      /\ \A i \in 1 .. Len(tcp) : tcp'[i] = tcp[i]
      /\ tcp'[Len(tcp) + 1] = Tunnel(p)
  BY <1>1, AppendProperties DEF Written
<1>3. DOMAIN tcp = 1 .. Len(tcp) /\ DOMAIN tcp' = 1 .. Len(tcp') /\ Len(tcp) \in Nat
  BY <1>2, LenProperties DEF Written
<1>4. DOMAIN tcp' = DOMAIN tcp \cup {Len(tcp) + 1} /\ Len(tcp) + 1 \notin DOMAIN tcp
  BY <1>2, <1>3
<1>5. Tunnelled' = Tunnelled \cup {Len(tcp) + 1} /\ Len(tcp) + 1 \notin Tunnelled
  BY <1>1, <1>2, <1>3, <1>4 DEF Tunnelled
<1>6. \A i \in Tunnelled : tcp'[i] = tcp[i]
  BY <1>2, <1>3 DEF Tunnelled
<1>7. Sent' = Sent \cup {p}
  BY <1>1, <1>2, <1>5, <1>6, ZenonT(60) DEF Sent
<1>8. Cardinality(Tunnelled') = Cardinality(Tunnelled) + 1
  BY <1>5, TunnelledFinite, FS_AddElement
<1> QED
  BY <1>2, <1>7, <1>8 DEF Written

\* So is a datagram.
LEMMA WriteDatagram ==
  ASSUME Written, NEW p \in Packet, datagrams' = Append(datagrams, p), tcp' = tcp
  PROVE  /\ Written' /\ Sent' = Sent \cup {p} /\ Tunnelled' = Tunnelled
         /\ Len(datagrams') = Len(datagrams) + 1
<1>1. /\ datagrams' \in Seq(Packet) /\ Len(datagrams') = Len(datagrams) + 1
      /\ \A i \in 1 .. Len(datagrams) : datagrams'[i] = datagrams[i]
      /\ datagrams'[Len(datagrams) + 1] = p
  BY AppendProperties DEF Written
<1>2. /\ DOMAIN datagrams = 1 .. Len(datagrams) /\ DOMAIN datagrams' = 1 .. Len(datagrams')
      /\ Len(datagrams) \in Nat
  BY <1>1, LenProperties DEF Written
<1>3. DOMAIN datagrams' = DOMAIN datagrams \cup {Len(datagrams) + 1}
  BY <1>1, <1>2
<1>4. {datagrams'[i] : i \in DOMAIN datagrams'} = {datagrams[i] : i \in DOMAIN datagrams} \cup {p}
  BY <1>1, <1>2, <1>3
<1>5. Tunnelled' = Tunnelled
  BY DEF Tunnelled
<1> QED
  BY <1>1, <1>4, <1>5 DEF Sent, Written

-------------------------------------------------------------------------------
(* The invariant. *)

SendState ==
  /\ greeted \in BOOLEAN /\ connected \in BOOLEAN /\ sequence \in 0 .. SequenceRange - 1
  /\ target \in Nat /\ aborted \in {"no", "frame", "framed", "overrun"}

Request == [upTo : Nat, target : Nat]

\* Voice writes are recorded in order, and the running one is the last: the
\* earlier ones were used up before it.
AskedOK ==
  /\ asked \in Seq(Request)
  /\ \A j \in DOMAIN asked : asked[j].upTo <= fed + left
  /\ left > 0 => /\ Len(asked) > 0
                 /\ asked[Len(asked)].upTo = fed + left
                 /\ asked[Len(asked)].target = target
                 /\ \A j \in 1 .. Len(asked) - 1 : asked[j].upTo <= fed

\* Write i brought the last byte of the packet's block, and named its target.
FilledBy(p, i) ==
  /\ asked[i].upTo >= (p.block + 1) * Size
  /\ \A j \in 1 .. i - 1 : asked[j].upTo < (p.block + 1) * Size
  /\ p.target = asked[i].target % 32

\* EachBlockOnce with the write that filled each block, which later writes
\* cannot change.
SentOK ==
  /\ {p.block : p \in Sent} = 0 .. Packets - 1
  /\ Sent \subseteq Packet
  /\ \A p \in Sent : p.number = Numbered(p.block) /\ \E i \in DOMAIN asked : FilledBy(p, i)
  /\ sequence = Numbered(Packets)
  /\ aborted = "no" => Packets = blocks

SendInv == BufferInv /\ SendState /\ Written /\ AskedOK /\ SentOK

\* The record of the voice writes.
LEMMA Requests ==
  ASSUME AskedOK
  PROVE  /\ DOMAIN asked = 1 .. Len(asked) /\ Len(asked) \in Nat
         /\ \A k \in 1 .. Len(asked) : asked[k].upTo \in Nat /\ asked[k].target \in Nat
<1>1. \A k \in 1 .. Len(asked) : asked[k] \in Request
  BY ElementOfSeq DEF AskedOK
<1>2. \A q \in Request : q.upTo \in Nat /\ q.target \in Nat
  BY DEF Request
<1> QED
  BY <1>1, <1>2, LenProperties DEF AskedOK

\* There is one write that filled a block, so TargetOf finds it.
LEMMA FilledByOne ==
  ASSUME AskedOK, NEW p \in Packet, NEW i \in DOMAIN asked, FilledBy(p, i)
  PROVE  p.target = TargetOf(p.block) % 32
<1> DEFINE First(k) == /\ asked[k].upTo >= (p.block + 1) * Size
                       /\ \A j \in 1 .. k - 1 : asked[j].upTo < (p.block + 1) * Size
<1>1. First(i)
  BY DEF FilledBy
<1>2. DOMAIN asked = 1 .. Len(asked) /\ Len(asked) \in Nat
  BY Requests
<1>3. \A k \in 1 .. Len(asked) : asked[k].upTo \in Nat
  BY Requests
<1>4. (p.block + 1) * Size \in Nat
  BY Constants960 DEF Packet
<1>5. ASSUME NEW k \in DOMAIN asked, First(k) PROVE k = i
  <2>1. ~(k < i)
    <3> SUFFICES ASSUME k < i PROVE FALSE
      OBVIOUS
    <3>1. k \in 1 .. i - 1
      BY <1>2
    <3>2. asked[k].upTo < (p.block + 1) * Size /\ asked[k].upTo >= (p.block + 1) * Size
      BY <1>1, <1>5, <3>1
    <3> QED
      BY <1>2, <1>3, <1>4, <3>2
  <2>2. ~(i < k)
    <3> SUFFICES ASSUME i < k PROVE FALSE
      OBVIOUS
    <3>1. i \in 1 .. k - 1
      BY <1>2
    <3>2. asked[i].upTo < (p.block + 1) * Size /\ asked[i].upTo >= (p.block + 1) * Size
      BY <1>1, <1>5, <3>1
    <3> QED
      BY <1>2, <1>3, <1>4, <3>2
  <2> QED
    BY <1>2, <2>1, <2>2
<1>6. (CHOOSE k \in DOMAIN asked : First(k)) = i
  <2> HIDE DEF First
  <2> QED
    BY <1>1, <1>5
<1>7. TargetOf(p.block) = asked[i].target
  BY <1>6 DEF TargetOf
<1> QED
  BY <1>7 DEF FilledBy

\* The invariant says all that is promised.
LEMMA SendInvCovers ==
  SendInv => /\ SendTypeOK /\ NothingLost /\ CrashNeedsRemainder
             /\ EachBlockOnce /\ VoiceFitsDatagram
<1> SUFFICES ASSUME SendInv
             PROVE  /\ SendTypeOK /\ NothingLost /\ CrashNeedsRemainder
                    /\ EachBlockOnce /\ VoiceFitsDatagram
  OBVIOUS
<1>1. NothingLost /\ CrashNeedsRemainder
  BY BufferInvCovers DEF SendInv
<1>2. \A i \in DOMAIN tcp : tcp[i] \in Frame
  BY LenProperties, ElementOfSeq DEF SendInv, Written
<1>3. \A i \in DOMAIN datagrams : datagrams[i].target < 32
  <2>1. \A i \in DOMAIN datagrams : datagrams[i] \in Packet
    BY LenProperties, ElementOfSeq DEF SendInv, Written
  <2>2. \A p \in Packet : p.target < 32
    BY DEF Packet
  <2> QED
    BY <2>1, <2>2
<1>4. SendTypeOK
  <2>1. \A i \in DOMAIN tcp : tcp[i].type \in 0 .. 25 /\ tcp[i].size <= MUMBLE_FRAME_MAX_SIZE
    BY <1>2, FrameFacts
  <2>2. {greeted, connected} \subseteq BOOLEAN
    BY Zenon DEF SendInv, SendState
  <2> QED
    BY <1>3, <2>1, <2>2 DEF SendInv, BufferInv, SendState, SendTypeOK
<1>6. VoiceFitsDatagram
  BY DEF SendInv, SendState, VoiceFitsDatagram
<1>7. EachBlockOnce
  <2>1. \A p \in Sent : p.number = Numbered(p.block) /\ p.target = TargetOf(p.block) % 32
    BY FilledByOne DEF SendInv, SentOK
  <2> QED
    BY <2>1 DEF SendInv, SentOK, EachBlockOnce
<1> QED
  BY <1>1, <1>4, <1>6, <1>7

\* Nothing is sent in the beginning.
LEMMA SendInitInv == SendInit => SendInv
<1> SUFFICES ASSUME SendInit PROVE SendInv
  OBVIOUS
<1>1. BufferInv
  BY BufferInitInv DEF SendInit
<1>2. /\ tcp = <<>> /\ datagrams = <<>> /\ asked = <<>> /\ sequence = Start /\ target = 0
      /\ aborted = "no" /\ blocks = 0 /\ left = 0 /\ fed = 0
  BY DEF SendInit, AudioInit, BufferInit
<1>3. greeted \in BOOLEAN /\ connected \in BOOLEAN
  BY Zenon DEF SendInit, AudioInit
<1>4. SendState
  BY <1>2, <1>3, Constants960 DEF SendState
<1>5. Written
  BY <1>2, EmptySeq DEF Written
<1>6. AskedOK
  BY <1>2, EmptySeq DEF AskedOK
<1>7. SentOK
  <2>1. Tunnelled = {} /\ Sent = {}
    BY <1>2 DEF Tunnelled, Sent
  <2>2. Cardinality(Tunnelled) = 0 /\ Len(datagrams) = 0
    BY <1>2, <2>1, FS_EmptySet, EmptySeq
  <2>3. Packets = 0 /\ 0 .. Packets - 1 = {}
    BY <2>2 DEF Packets
  <2>4. Start = (Start + 0) % SequenceRange
    BY Constants960
  <2> QED
    BY <1>2, <2>1, <2>3, <2>4 DEF SentOK, Numbered
<1> QED
  BY <1>1, <1>4, <1>5, <1>6, <1>7 DEF SendInv

\* A step that sends nothing and asks for nothing.
LEMMA SentKept ==
  ASSUME SentOK, Sent' = Sent, Tunnelled' = Tunnelled, Len(datagrams') = Len(datagrams),
         UNCHANGED <<asked, sequence>>,
         aborted' = "no" => aborted = "no" /\ blocks' = blocks
  PROVE  SentOK'
BY DEF SentOK, Packets, Numbered, FilledBy

\* What depends on tcp and datagrams only.
LEMMA PathsKept ==
  ASSUME UNCHANGED <<tcp, datagrams>>
  PROVE  Sent' = Sent /\ Tunnelled' = Tunnelled /\ (Written => Written')
BY DEF Sent, Tunnelled, Written

\* mumble_client_write and the greeting: messages go over TCP.
LEMMA PlainInv ==
  ASSUME SendInv, NEW t \in Seq(PlainFrame), tcp' = tcp \o t, greeted' \in BOOLEAN,
         UNCHANGED <<bufferVars, connected, voiceVars, aborted>>
  PROVE  SendInv'
<1>1. datagrams' = datagrams
  BY DEF voiceVars
<1>2. Written' /\ Tunnelled' = Tunnelled /\ Sent' = Sent
  BY <1>1, WritePlain DEF SendInv
<1>3. SentOK'
  <2>1. UNCHANGED <<asked, sequence>> /\ blocks' = blocks /\ aborted' = aborted
    BY DEF voiceVars, bufferVars
  <2> QED
    BY <1>1, <1>2, <2>1, SentKept DEF SendInv
<1>4. BufferInv' /\ AskedOK'
  BY DEF bufferVars, voiceVars, SendInv, BufferInv, BufferTypeOK, FlushHangs, NothingLost,
         HangNeedsRemainder, AskedOK
<1>5. SendState'
  BY DEF voiceVars, SendInv, SendState
<1> QED
  BY <1>2, <1>3, <1>4, <1>5 DEF SendInv

\* The same of a message that is too long for the encoder or for the pool's
\* buffer: the process ends.
LEMMA ClientWriteInv ==
  ASSUME SendInv, NEW m \in Messages, mumble_client_write(m)
  PROVE  SendInv'
<1>1. CASE EncodedFits(m) /\ RecordFits(m)
  <2>1. mumble_frame_encode(m) \in PlainFrame
    BY <1>1 DEF PlainFrame, Fitting
  <2>2. PICK f \in PlainFrame : f = mumble_frame_encode(m)
    BY <2>1
  <2>3. tcp' = Append(tcp, f) /\ aborted' = aborted
    BY <1>1, <2>2 DEF mumble_client_write
  <2>4. f \in Frame /\ <<f>> \in Seq(PlainFrame)
    BY <2>2, Marked
  <2>5. tcp' = tcp \o <<f>>
    BY <2>3, <2>4, AppendIsConcat DEF SendInv, Written
  <2>6. greeted' \in BOOLEAN /\ UNCHANGED <<bufferVars, connected, voiceVars, aborted>>
    BY <2>3 DEF mumble_client_write, SendInv, SendState
  <2> QED
    BY <2>4, <2>5, <2>6, PlainInv
<1>2. CASE ~(EncodedFits(m) /\ RecordFits(m))
  <2>1. /\ aborted' \in {"frame", "overrun"} /\ tcp' = tcp
        /\ UNCHANGED <<bufferVars, greeted, connected, voiceVars>>
    BY <1>2 DEF mumble_client_write
  <2>2. BufferInv' /\ AskedOK'
    BY <2>1 DEF bufferVars, voiceVars, SendInv, BufferInv, BufferTypeOK, FlushHangs,
                NothingLost, HangNeedsRemainder, AskedOK
  <2>3. SendState'
    BY <2>1 DEF voiceVars, SendInv, SendState
  <2>4. UNCHANGED <<tcp, datagrams, asked, sequence>>
    BY <2>1 DEF voiceVars
  <2>5. Sent' = Sent /\ Tunnelled' = Tunnelled /\ Written'
    BY <2>4, PathsKept DEF SendInv
  <2>6. SentOK'
    BY <2>1, <2>4, <2>5, SentKept DEF SendInv
  <2> QED
    BY <2>2, <2>3, <2>5, <2>6 DEF SendInv
<1> QED
  BY <1>1, <1>2

\* mumble_connect_cb_adapter
LEMMA ConnectInv == SendInv /\ mumble_connect_cb_adapter => SendInv'
<1> SUFFICES ASSUME SendInv, mumble_connect_cb_adapter PROVE SendInv'
  OBVIOUS
<1> DEFINE t == <<mumble_frame_encode(Version), mumble_frame_encode(Authenticate),
                  mumble_frame_encode(Ping)>>
<1>1. t \in Seq(PlainFrame)
  <2>1. /\ mumble_frame_encode(Version) \in PlainFrame
        /\ mumble_frame_encode(Authenticate) \in PlainFrame
        /\ mumble_frame_encode(Ping) \in PlainFrame
    BY GreetingFits DEF PlainFrame
  <2> QED
    BY <2>1
<1>2. /\ tcp' = tcp \o t
      /\ UNCHANGED <<bufferVars, connected, voiceVars, aborted>>
  BY DEF mumble_connect_cb_adapter
<1>3. greeted' \in BOOLEAN
  BY Zenon DEF mumble_connect_cb_adapter
<1> HIDE DEF t
<1> QED
  BY <1>1, <1>2, <1>3, PlainInv

\* A voice write is called: it is the last one asked for.
LEMMA EncodeInv ==
  ASSUME SendInv, NEW t \in Nat, NEW n \in Writes, NEW e \in BOOLEAN,
         mumble_codec_opus_encode(t, n, e)
  PROVE  SendInv'
<1>1. /\ mumble_buffer_write(n, e) /\ target' = t /\ ~active
      /\ asked' = IF n = 0 THEN asked ELSE Append(asked, [upTo |-> fed + n, target |-> t])
      /\ UNCHANGED <<greeted, connected, sequence, tcp, datagrams, aborted>>
  BY DEF mumble_codec_opus_encode, Idle
<1>2. BufferInv'
  BY <1>1, BufferCallInv DEF SendInv
<1>3. SendState'
  BY <1>1 DEF SendInv, SendState
<1>4. Sent' = Sent /\ Tunnelled' = Tunnelled /\ Written'
  BY <1>1, PathsKept DEF SendInv
<1>5. fed \in Nat /\ left = 0 /\ fed' = fed /\ left' = n /\ n \in Nat /\ blocks' = blocks
  BY <1>1, Constants960 DEF mumble_buffer_write, SendInv, BufferInv, BufferTypeOK
<1>6. CASE n = 0
  <2>1. AskedOK'
    BY <1>1, <1>5, <1>6 DEF SendInv, AskedOK
  <2>2. SentOK'
    BY <1>1, <1>4, <1>5, <1>6, SentKept DEF SendInv
  <2> QED
    BY <1>2, <1>3, <1>4, <2>1, <2>2 DEF SendInv
<1>7. CASE n # 0
  <2>1. [upTo |-> fed + n, target |-> t] \in Request
    BY <1>5 DEF Request
  <2>2. PICK q \in Request : q.upTo = fed + n /\ q.target = t /\ asked' = Append(asked, q)
    BY <1>1, <1>7, <2>1
  <2>3. /\ asked' \in Seq(Request) /\ Len(asked') = Len(asked) + 1
        /\ \A i \in 1 .. Len(asked) : asked'[i] = asked[i]
        /\ asked'[Len(asked) + 1] = q
    BY <2>2, AppendProperties DEF SendInv, AskedOK
  <2>4. /\ DOMAIN asked = 1 .. Len(asked) /\ Len(asked) \in Nat
        /\ \A k \in 1 .. Len(asked) : asked[k].upTo \in Nat
    BY Requests DEF SendInv
  <2>5. DOMAIN asked' = 1 .. Len(asked) + 1
    BY <2>3, LenProperties
  <2>6. \A j \in 1 .. Len(asked) : asked[j].upTo <= fed
    BY <1>5, <2>4 DEF SendInv, AskedOK
  <2>7. AskedOK'
    <3>1. \A j \in 1 .. Len(asked) + 1 : asked'[j].upTo <= fed + n
      BY <1>5, <2>2, <2>3, <2>4, <2>6, SMTT(60)
    <3>2. \A j \in 1 .. Len(asked') - 1 : asked'[j].upTo <= fed
      BY <2>3, <2>4, <2>6
    <3>3. Len(asked') > 0 /\ asked'[Len(asked')].upTo = fed + n
          /\ asked'[Len(asked')].target = t
      BY <2>2, <2>3, <2>4
    <3> QED
      BY <1>1, <1>5, <2>3, <2>5, <3>1, <3>2, <3>3 DEF AskedOK
  <2>8. ASSUME NEW p \in Sent, NEW i \in DOMAIN asked, FilledBy(p, i)
        PROVE  i \in DOMAIN asked' /\ FilledBy(p, i)'
    <3>1. i \in DOMAIN asked' /\ asked'[i] = asked[i]
          /\ \A j \in 1 .. i - 1 : asked'[j] = asked[j]
      BY <2>3, <2>4, <2>5, <2>8
    <3> QED
      BY <2>8, <3>1 DEF FilledBy
  <2>9. SentOK'
    BY <1>1, <1>4, <1>5, <2>8 DEF SendInv, SentOK, Packets, Numbered
  <2> QED
    BY <1>2, <1>3, <1>4, <2>7, <2>9 DEF SendInv
<1> QED
  BY <1>6, <1>7

\* A round of the loop moves bytes from the running write to the block; the
\* record of the writes still fits.
LEMMA AskedCopied == AskedOK /\ BufferInv /\ CopyRound /\ UNCHANGED <<asked, target>> => AskedOK'
<1> SUFFICES ASSUME AskedOK, BufferInv, CopyRound, UNCHANGED <<asked, target>> PROVE AskedOK'
  OBVIOUS
<1>1. left > 0 /\ left' = left - Amount /\ fed' = fed + Amount
  BY DEF CopyRound
<1>2. Amount \in Nat /\ left \in Nat /\ fed \in Nat
  BY <1>1, AmountFits, Constants960 DEF BufferInv, BufferTypeOK
<1>3. fed' + left' = fed + left /\ fed <= fed'
  BY <1>1, <1>2
<1>4. /\ DOMAIN asked = 1 .. Len(asked) /\ Len(asked) \in Nat
      /\ \A k \in 1 .. Len(asked) : asked[k].upTo \in Nat
  BY Requests
<1>5. \A j \in 1 .. Len(asked) - 1 : asked[j].upTo <= fed'
  <2>1. ASSUME NEW j \in 1 .. Len(asked) - 1 PROVE asked[j].upTo <= fed'
    <3>1. asked[j].upTo \in Nat /\ asked[j].upTo <= fed
      BY <1>1, <1>4 DEF AskedOK
    <3> QED
      BY <1>1, <1>2, <1>3, <3>1
  <2> QED
    BY <2>1
<1> QED
  BY <1>1, <1>3, <1>5 DEF AskedOK

\* Quotient and remainder.
LEMMA DivMod ==
  ASSUME NEW m \in Nat \ {0}, NEW y \in Nat
  PROVE  y \div m \in Nat /\ y % m \in 0 .. m - 1 /\ y = m * (y \div m) + (y % m)
<1>1. y \div m \in Int /\ y % m \in 0 .. m - 1 /\ y = m * (y \div m) + (y % m)
  OBVIOUS
<1>2. y \div m >= 0
  <2>1. SUFFICES ASSUME y \div m <= -1 PROVE FALSE
    BY <1>1
  <2>2. ASSUME NEW q \in Int, q <= -1 PROVE m * q <= -m
    BY <2>2
  <2>3. m * (y \div m) <= -m
    BY <1>1, <2>1, <2>2
  <2> QED
    BY <1>1, <2>3
<1> QED
  BY <1>1, <1>2

\* Counting on by one, modulo m.
LEMMA CountOn ==
  ASSUME NEW m \in Nat \ {0}, NEW s \in Nat, NEW c \in Nat
  PROVE  (((s + c) % m) + 1) % m = (s + (c + 1)) % m
<1> DEFINE x == s + c
           q == x \div m
           r == x % m
<1>1. x \in Nat /\ q \in Nat /\ r \in 0 .. m - 1 /\ x = m * q + r
  BY DivMod
<1> HIDE DEF q, r
<1>2. CASE r = m - 1
  <2>1. x + 1 = m * (q + 1)
    BY <1>1, <1>2
  <2>2. (m * (q + 1)) % m = 0 /\ m % m = 0
    BY <1>1
  <2> QED
    BY <1>2, <2>1, <2>2 DEF r
<1>3. CASE r # m - 1
  <2>1. r + 1 \in 0 .. m - 1 /\ x + 1 = m * q + (r + 1)
    BY <1>1, <1>3
  <2>2. (r + 1) % m = r + 1
    BY <2>1
  <2>3. (x + 1) % m = r + 1
    <3>1. ASSUME NEW t \in 0 .. m - 1, NEW p \in Nat PROVE (m * p + t) % m = t
      <4> DEFINE y == m * p + t
      <4>0. y \in Nat
        <5>1. m * p \in Nat
          OBVIOUS
        <5> QED
          BY <5>1
      <4> HIDE DEF y
      <4>1. y \in Nat /\ y = m * (y \div m) + (y % m) /\ y % m \in 0 .. m - 1 /\ y \div m \in Nat
        BY <4>0, DivMod
      <4>2. m * (p - y \div m) = (y % m) - t
        <5>1. m * (p - y \div m) = m * p - m * (y \div m)
          BY <4>1
        <5> QED
          BY <4>1, <5>1 DEF y
      <4>3. p - y \div m = 0
        <5>1. CASE p - y \div m >= 1
          <6>1. m * (p - y \div m) >= m
            BY <4>1, <5>1
          <6> QED
            BY <4>1, <4>2, <6>1
        <5>2. CASE p - y \div m <= -1
          <6>1. m * (p - y \div m) <= -m
            BY <4>1, <5>2
          <6> QED
            BY <4>1, <4>2, <6>1
        <5> QED
          BY <4>1, <5>1, <5>2
      <4>4. m * (p - y \div m) = 0
        BY <4>3
      <4> QED
        BY <4>1, <4>2, <4>4 DEF y
    <3> QED
      BY <1>1, <2>1, <3>1
  <2> QED
    BY <2>2, <2>3 DEF r
<1> QED
  BY <1>2, <1>3

\* The packet of a full block carries the block's number and target, and is
\* short enough for a datagram: the payload and its length are less than a
\* block, and the sequence number takes nine bytes at most.
LEMMA NewPacket ==
  ASSUME SendInv, CopyRound, BlockDone, NEW ret \in PayloadLens, NEW p,
         Size > ret + varint_encode_size(UInt(ret)),
         p = [number |-> sequence, block |-> blocks, target |-> target % 32,
              bytes |-> 1 + varint_encode_size(UInt(sequence))
                          + (varint_encode_size(UInt(ret)) + ret)]
  PROVE  /\ p \in Packet
         /\ Len(asked) \in DOMAIN asked /\ FilledBy(p, Len(asked))
<1>1. /\ varint_encode_size(UInt(ret)) \in 1 .. 9
      /\ varint_encode_size(UInt(sequence)) \in 1 .. 9
  <2>1. {1, 2, 3, 4, 5, 9} \subseteq 1 .. 9
    OBVIOUS
  <2> QED
    BY <2>1, VarintSize
<1>2. ret \in 1 .. 960 /\ Size = 960
  BY Constants960
<1>3. p.bytes \in 0 .. 1020
  <2> DEFINE written == varint_encode_size(UInt(ret))
             digits  == varint_encode_size(UInt(sequence))
  <2>1. written \in 1 .. 9 /\ digits \in 1 .. 9 /\ 960 > ret + written
    BY <1>1, <1>2
  <2>2. p.bytes = 1 + digits + (written + ret)
    OBVIOUS
  <2> HIDE DEF written, digits
  <2>3. 1 + digits + (written + ret) \in 0 .. 1020
    BY <1>2, <2>1
  <2> QED
    BY <2>2, <2>3, ZenonT(60)
<1>4. sequence \in Nat /\ target \in Nat /\ blocks \in Nat /\ target % 32 \in 0 .. 31
  BY Constants960 DEF SendInv, SendState, BufferInv, BufferTypeOK
<1>5. p \in Packet
  BY <1>3, <1>4 DEF Packet, DatagramLimit
<1>6. left > 0
  BY DEF CopyRound
<1>7. /\ used \in 0 .. 959 /\ Amount \in Nat /\ Amount <= left /\ used + Amount = 960
      /\ fed = blocks * 960 + used /\ left \in Nat /\ fed \in Nat
  BY <1>6, AmountFits, Constants960 DEF SendInv, BufferInv, BufferTypeOK, NothingLost
<1>8. fed + left >= (blocks + 1) * 960 /\ fed < (blocks + 1) * 960
  BY <1>4, <1>7
<1>9. /\ DOMAIN asked = 1 .. Len(asked) /\ Len(asked) \in Nat
      /\ \A k \in 1 .. Len(asked) : asked[k].upTo \in Nat
  BY Requests DEF SendInv
<1>10. /\ Len(asked) > 0 /\ asked[Len(asked)].upTo = fed + left
       /\ asked[Len(asked)].target = target
       /\ \A j \in 1 .. Len(asked) - 1 : asked[j].upTo <= fed
  BY <1>6 DEF SendInv, AskedOK
<1>11. \A j \in 1 .. Len(asked) - 1 : asked[j].upTo < (blocks + 1) * 960
  <2>1. \A j \in 1 .. Len(asked) - 1 : asked[j].upTo \in Nat
    BY <1>9
  <2> QED
    BY <1>4, <1>7, <1>8, <1>10, <2>1
<1>12. p.block = blocks /\ p.target = target % 32
  OBVIOUS
<1>13. FilledBy(p, Len(asked))
  BY <1>2, <1>8, <1>10, <1>11, <1>12 DEF FilledBy
<1> QED
  BY <1>5, <1>9, <1>10, <1>13

\* One packet more, on either path, with the next number.
LEMMA SentOneMore ==
  ASSUME SendInv, aborted = "no", NEW p \in Packet, Written',
         p.number = sequence, p.block = blocks,
         Len(asked) \in DOMAIN asked, FilledBy(p, Len(asked)),
         Sent' = Sent \cup {p}, sequence' = (sequence + 1) % SequenceRange,
         blocks' = blocks + 1,
         asked' = asked,
         \/ /\ Cardinality(Tunnelled') = Cardinality(Tunnelled) + 1
            /\ Len(datagrams') = Len(datagrams)
         \/ Tunnelled' = Tunnelled /\ Len(datagrams') = Len(datagrams) + 1
  PROVE  SentOK'
<1>1. Packets = blocks /\ blocks \in Nat /\ sequence = Numbered(blocks)
  BY DEF SendInv, SentOK, BufferInv, BufferTypeOK
<1>2. Packets' = blocks + 1
  <2>1. Cardinality(Tunnelled) \in Nat /\ Len(datagrams) \in Nat
    BY TunnelledFinite, LenProperties DEF SendInv, Written
  <2> QED
    BY <1>1, <2>1 DEF Packets
<1>3. {q.block : q \in Sent'} = 0 .. Packets' - 1
  <2>1. {q.block : q \in Sent'} = {q.block : q \in Sent} \cup {blocks}
    OBVIOUS
  <2>2. 0 .. blocks = (0 .. blocks - 1) \cup {blocks}
    BY <1>1
  <2>3. Packets' - 1 = blocks
    BY <1>1, <1>2
  <2> QED
    BY <1>1, <2>1, <2>2, <2>3 DEF SendInv, SentOK
<1>4. ASSUME NEW q \in Sent'
      PROVE  /\ q \in Packet /\ q.number = Numbered(q.block)
             /\ \E i \in DOMAIN asked : FilledBy(q, i)
  BY <1>1, <1>4 DEF SendInv, SentOK
<1>5. sequence' = Numbered(Packets')
  <2>1. SequenceRange \in Nat \ {0} /\ Start \in Nat
    BY Constants960
  <2>2. (((Start + blocks) % SequenceRange) + 1) % SequenceRange
          = (Start + (blocks + 1)) % SequenceRange
    BY <1>1, <2>1, CountOn
  <2> QED
    BY <1>1, <1>2, <2>2 DEF Numbered
<1> QED
  BY <1>1, <1>2, <1>3, <1>4, <1>5 DEF SentOK, FilledBy, Numbered

\* A round of a voice write, with the packet it may send.
LEMMA VoiceRoundInv == SendInv /\ VoiceRound => SendInv'
<1> SUFFICES ASSUME SendInv, VoiceRound PROVE SendInv'
  OBVIOUS
<1>1. CopyRound /\ aborted = "no" /\ UNCHANGED <<greeted, connected, target, asked>>
  BY DEF VoiceRound
<1>2. BufferInv'
  BY <1>1, CopyRoundInv DEF SendInv
<1>3. AskedOK'
  BY <1>1, AskedCopied DEF SendInv
<1>4. blocks' = IF BlockDone THEN blocks + 1 ELSE blocks
  BY <1>1 DEF CopyRound
<1>5. CASE ~BlockDone
  <2>1. UNCHANGED <<sequence, tcp, datagrams, aborted>>
    BY <1>5 DEF VoiceRound
  <2>2. Sent' = Sent /\ Tunnelled' = Tunnelled /\ Written'
    BY <2>1, PathsKept DEF SendInv
  <2>3. SentOK'
    BY <1>1, <1>4, <1>5, <2>1, <2>2, SentKept DEF SendInv
  <2>4. SendState'
    BY <1>1, <2>1 DEF SendInv, SendState
  <2> QED
    BY <1>2, <1>3, <2>2, <2>3, <2>4 DEF SendInv
<1>6. CASE BlockDone
  <2>1. PICK ret \in PayloadLens : on_encoder_frame(ret)
    BY <1>6 DEF VoiceRound
  <2>2. CASE ~(Size > ret + varint_encode_size(UInt(ret)))
    <3>1. aborted' = "framed" /\ UNCHANGED <<sequence, tcp, datagrams>>
      BY <2>1, <2>2 DEF on_encoder_frame
    <3>2. Sent' = Sent /\ Tunnelled' = Tunnelled /\ Written'
      BY <3>1, PathsKept DEF SendInv
    <3>3. SentOK'
      BY <1>1, <3>1, <3>2, SentKept DEF SendInv
    <3>4. SendState'
      BY <1>1, <3>1 DEF SendInv, SendState
    <3> QED
      BY <1>2, <1>3, <3>2, <3>3, <3>4 DEF SendInv
  <2>3. CASE Size > ret + varint_encode_size(UInt(ret))
    <3> DEFINE p == [number |-> sequence, block |-> blocks, target |-> target % 32,
                     bytes |-> 1 + varint_encode_size(UInt(sequence))
                                 + (varint_encode_size(UInt(ret)) + ret)]
    <3>1. sequence' = (sequence + 1) % SequenceRange /\ encoder_cb(p)
      BY <2>1, <2>3 DEF on_encoder_frame, encoder_codec_cb
    <3>2. /\ p \in Packet /\ Len(asked) \in DOMAIN asked /\ FilledBy(p, Len(asked))
          /\ p.number = sequence /\ p.block = blocks
      BY <1>1, <1>6, <2>3, NewPacket
    <3> HIDE DEF p
    <3>3. ~(p.bytes > DatagramLimit)
      <4>1. p.bytes \in 0 .. DatagramLimit
        BY <3>2 DEF Packet
      <4>2. \A n \in 0 .. DatagramLimit : ~(n > DatagramLimit)
        BY DEF DatagramLimit
      <4> QED
        BY <4>1, <4>2
    <3>4. aborted' = aborted
      BY <3>1, <3>3 DEF encoder_cb
    <3>5. SendState'
      <4>1. sequence' \in 0 .. SequenceRange - 1
        BY <3>1, Constants960 DEF SendInv, SendState
      <4> QED
        BY <1>1, <3>4, <4>1 DEF SendInv, SendState
    <3>6. CASE ~connected
      <4>1. tcp' = Append(tcp, Tunnel(p)) /\ datagrams' = datagrams
        BY <3>1, <3>6 DEF encoder_cb
      <4>2. /\ Written' /\ Sent' = Sent \cup {p}
            /\ Cardinality(Tunnelled') = Cardinality(Tunnelled) + 1
        BY <3>2, <4>1, WriteTunnel DEF SendInv
      <4>3. SentOK'
        BY <1>1, <1>4, <1>6, <3>1, <3>2, <4>1, <4>2, SentOneMore
      <4> QED
        BY <1>2, <1>3, <3>5, <4>2, <4>3 DEF SendInv
    <3>7. CASE connected
      <4>1. datagrams' = Append(datagrams, p) /\ tcp' = tcp
        BY <3>1, <3>3, <3>7 DEF encoder_cb
      <4>2. /\ Written' /\ Sent' = Sent \cup {p} /\ Tunnelled' = Tunnelled
            /\ Len(datagrams') = Len(datagrams) + 1
        BY <3>2, <4>1, WriteDatagram DEF SendInv
      <4>3. SentOK'
        BY <1>1, <1>4, <1>6, <3>1, <3>2, <4>2, SentOneMore
      <4> QED
        BY <1>2, <1>3, <3>5, <4>2, <4>3 DEF SendInv
    <3> QED
      BY <3>6, <3>7
  <2> QED
    BY <2>2, <2>3
<1> QED
  BY <1>5, <1>6

\* Steps of the block buffer alone: nothing is sent and nothing asked for.
LEMMA BufferOnlyInv ==
  ASSUME SendInv, BufferInv', left = 0, left' = 0, UNCHANGED <<fed, blocks>>,
         UNCHANGED <<greeted, connected, voiceVars, tcp, aborted>>
  PROVE  SendInv'
<1>1. UNCHANGED <<tcp, datagrams, asked, sequence, target>>
  BY DEF voiceVars
<1>2. Sent' = Sent /\ Tunnelled' = Tunnelled /\ Written'
  BY <1>1, PathsKept DEF SendInv
<1>3. SentOK'
  BY <1>1, <1>2, SentKept DEF SendInv
<1>4. AskedOK'
  BY <1>1 DEF SendInv, AskedOK
<1>5. SendState'
  BY <1>1 DEF SendInv, SendState
<1> QED
  BY <1>2, <1>3, <1>4, <1>5 DEF SendInv

\* Every step preserves the invariant.
LEMMA SendNextInv == SendInv /\ [SendNext]_sendVars => SendInv'
<1> SUFFICES ASSUME SendInv, [SendNext]_sendVars PROVE SendInv'
  OBVIOUS
<1>1. CASE mumble_connect_cb_adapter
  BY <1>1, ConnectInv
<1>2. CASE mumble_client_on_ping
  BY <1>2, ClientWriteInv DEF mumble_client_on_ping, Messages
<1>3. ASSUME NEW m \in AppMessages, AppWrites(m) PROVE SendInv'
  BY <1>3, ClientWriteInv DEF AppWrites, Messages
<1>4. CASE PathChanges
  <2>1. connected' \in BOOLEAN
    BY <1>4, Zenon DEF PathChanges
  <2>2. /\ UNCHANGED <<tcp, datagrams, asked, sequence, target, aborted, greeted>>
        /\ UNCHANGED bufferVars
    BY <1>4 DEF PathChanges, voiceVars
  <2>3. Sent' = Sent /\ Tunnelled' = Tunnelled /\ Written'
    BY <2>2, PathsKept DEF SendInv
  <2>4. SentOK'
    BY <2>2, <2>3, SentKept DEF SendInv, bufferVars
  <2>5. BufferInv' /\ AskedOK'
    BY <2>2 DEF bufferVars, SendInv, BufferInv, BufferTypeOK, FlushHangs, NothingLost,
                HangNeedsRemainder, AskedOK
  <2> QED
    BY <2>1, <2>2, <2>3, <2>4, <2>5 DEF SendInv, SendState
<1>5. ASSUME NEW t \in Targets, NEW n \in Writes, mumble_client_write_audio(t, n)
      PROVE  SendInv'
  BY <1>5, EncodeInv, Constants960, ZenonT(60)
     DEF mumble_client_write_audio, mumble_audio_send, mumble_audio_encoder_encode
<1>6. ASSUME NEW n \in Writes, NEW e \in Ends, mumble_codec_opus_encode(0, n, e)
      PROVE  SendInv'
  BY <1>6, EncodeInv, Constants960
<1>7. CASE on_message(MUMBLE_TYPE_TEXT_MESSAGE)
  <2>1. mumble_codec_opus_encode(0, Tone, FALSE)
    BY <1>7 DEF on_message, send_tone, mumble_client_write_audio, mumble_audio_send,
                mumble_audio_encoder_encode
  <2>2. Tone \in Writes
    BY <2>1 DEF mumble_codec_opus_encode, mumble_buffer_write
  <2> QED
    BY <2>1, <2>2, EncodeInv
<1>8. CASE CodecFlush
  <2>1. mumble_buffer_flush /\ UNCHANGED <<greeted, connected, voiceVars, tcp, aborted>>
    BY <1>8 DEF CodecFlush
  <2>2. BufferInv'
    BY <2>1, BufferCallInv DEF SendInv
  <2>3. left = 0 /\ left' = 0 /\ UNCHANGED <<fed, blocks>>
    BY <2>1 DEF mumble_buffer_flush, SendInv, BufferInv
  <2> QED
    BY <2>1, <2>2, <2>3, BufferOnlyInv
<1>9. CASE VoiceRound
  BY <1>9, VoiceRoundInv
<1>10. CASE VoiceReturns
  <2>1. /\ WriteReturns \/ FlushFromWrite
        /\ UNCHANGED <<greeted, connected, voiceVars, tcp, aborted>>
    BY <1>10 DEF VoiceReturns
  <2>2. BufferInv'
    BY <2>1, BufferReturnInv DEF SendInv
  <2>3. left = 0 /\ left' = 0 /\ UNCHANGED <<fed, blocks>>
    BY <2>1 DEF WriteReturns, FlushFromWrite
  <2> QED
    BY <2>1, <2>2, <2>3, BufferOnlyInv
<1>11. CASE UNCHANGED sendVars
  <2>1. /\ UNCHANGED <<tcp, datagrams, asked, sequence, target, aborted, greeted, connected>>
        /\ UNCHANGED bufferVars
    BY <1>11 DEF sendVars
  <2>2. Sent' = Sent /\ Tunnelled' = Tunnelled /\ Written'
    BY <2>1, PathsKept DEF SendInv
  <2>3. SentOK'
    BY <2>1, <2>2, SentKept DEF SendInv, bufferVars
  <2>4. BufferInv' /\ AskedOK'
    BY <2>1 DEF bufferVars, SendInv, BufferInv, BufferTypeOK, FlushHangs, NothingLost,
                HangNeedsRemainder, AskedOK
  <2> QED
    BY <2>1, <2>2, <2>3, <2>4 DEF SendInv, SendState
<1> QED
  BY <1>1, <1>2, <1>3, <1>4, <1>5, <1>6, <1>7, <1>8, <1>9, <1>10, <1>11
     DEF SendNext, InCall, ProcessGone

-------------------------------------------------------------------------------
\* The invariant holds of every behaviour, and with it all that follows from it.
THEOREM SendCorrect == SendSpec => []SendInv
BY SendInitInv, SendNextInv, PTL DEF SendSpec

\* Types: frames have types of the table and fit the server's limit, targets
\* fit their five bits, the block buffer never overflows.
THEOREM SendTypes == SendSpec => []SendTypeOK
BY SendCorrect, SendInvCovers, PTL

\* mumble_buffer_write: until a flush pads a block, every byte written is in
\* exactly one block handed to the encoder, or still in the buffer.
THEOREM SendNothingLost == SendSpec => []NothingLost
BY SendCorrect, SendInvCovers, PTL

\* The endless recursion of mumble_buffer_flush and mumble_buffer_write needs a
\* remainder in the block, or a caller that flushes.
THEOREM SendCrash == SendSpec => []CrashNeedsRemainder
BY SendCorrect, SendInvCovers, PTL

\* Every full block is sent once, on the path of the moment, under its own
\* number and to the target of the write that filled it.
THEOREM SendEachBlockOnce == SendSpec => []EachBlockOnce
BY SendCorrect, SendInvCovers, PTL

\* Whatever Opus returns and however long the call, no voice packet is too long
\* for uv_udp_ssl_write.
THEOREM SendFitsDatagram == SendSpec => []VoiceFitsDatagram
BY SendCorrect, SendInvCovers, PTL
===============================================================================
