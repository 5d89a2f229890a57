----------------------------- MODULE TcpSslProofs -----------------------------
(***************************************************************************)
(* For pools, streams and read buffers of every size, and any set of       *)
(* faults: how the calls of uv_tcp_ssl.c nest, which of them holds which   *)
(* buffer, and what follows for the pool, the handshake and the reads.     *)
(***************************************************************************)
EXTENDS TcpSsl, FiniteSetTheorems, SequenceTheorems, TLAPS

FrameSet == [at : Locations, buf : BP!Buf \cup {-1}, left : 0 .. 3 + MaxWrites]

\* The calls libuv makes, the ones made while a network read is passed on, the
\* ones that may write, and what a write consists of.
Bottom  == {"alloc_cb", "recv", "written", "handshake", "refused", "connect_cb", "timer_cb"}
Passing == {"handshake", "refused", "connect_cb", "do_read", "ssl_read", "alerted", "data_cb"}
Writers == {"handshake", "refused", "connect_cb", "timer_cb", "alerted", "data_cb"}
Writing == {"wbio_cb", "try_write"}

\* Where a call holds a pool buffer.
Owners  == {"recv", "written", "ssl_read", "alerted", "data_cb", "try_write"}
Own(a)  == IF a \in Owners THEN 1 ELSE 0
Owned(s, k) ==
  (IF k > 0 THEN Own(s[1].at) ELSE 0) + (IF k > 1 THEN Own(s[2].at) ELSE 0)
    + (IF k > 2 THEN Own(s[3].at) ELSE 0)
Total(s) == Owned(s, Len(s))

\* A call at b may be running inside a call at a.
Over(a, b) == (a = "written" /\ b \in Passing) \/ (a \in Writers /\ b \in Writing)

\* A call at a may be made with the calls of s active.
Fits(s, a) == IF s = <<>> THEN a \in Bottom ELSE Over(s[Len(s)].at, a)

\* How calls nest, and that they acquire buffers in the order they are made, on
\* top of the L leaked ones.
Nested(s, L) ==
  /\ s \in Seq(FrameSet) /\ Len(s) <= 3
  /\ Len(s) > 0 => s[1].at \in Bottom
  /\ \A i \in 2 .. Len(s) : Over(s[i - 1].at, s[i].at)
  /\ \A i \in 1 .. Len(s) :
       s[i].buf = IF s[i].at \in Owners THEN L + Owned(s, i - 1) ELSE -1

\* The calls release in the opposite order, and a leak happens when nothing else
\* is active: buffer_pool_release never has to move an entry, and the leaked
\* buffers are the first ones.
LeakedFirst ==
  /\ leaked = 0 .. Cardinality(leaked) - 1 /\ Cardinality(leaked) \in 0 .. N
  /\ pool = [buffers |-> [i \in 0 .. N - 1 |-> i], in_use |-> Cardinality(leaked) + Total(stack)]
  /\ pool.in_use \in 0 .. N

\* The calls of the handshake and of uv_ssl_read, and the states of the SSL object
\* in which each of the two runs.
Hands    == {"handshake", "refused"}
Reading  == {"do_read", "ssl_read", "alerted", "data_cb"}
Starting == {"init", "ended"}
Up       == {"ok", "shut", "broken"}

\* Which calls can be active with the SSL object in state x; waits says that the
\* client has sent as many flights as it has seen records.
FramesOK(s, x, waits) ==
  \A i \in 1 .. Len(s) :
    /\ s[i].at \in Hands => x \in Starting
    /\ s[i].at = "handshake" /\ i < Len(s) => x = "init" /\ waits
    /\ s[i].at \in Reading => x \in Up
HasReader(s) == \E i \in 1 .. Len(s) : s[i].at \in Reading

\* The handshake: its result is reported once, and a failure at once.
HandshakeInv ==
  /\ connects = IF ssl \in Starting THEN 0 ELSE 1
  /\ ssl = "init" => taken < H /\ flights \in {taken, taken + 1}
  /\ FramesOK(stack, ssl, flights = taken)
  /\ phase \notin {"open", "eof"} => ssl = "init" /\ stack = <<>>
  /\ ssl = "failed" => /\ stack # <<>> /\ top.at = "connect_cb" /\ top.left > 0
                       /\ aborted \in {"no", "ssl_write"}

\* While something complete waits in the read BIO somebody is about to read it.
ReadsInv ==
  ssl = "ok" /\ aborted = "no" /\ complete > taken => fresh \/ HasReader(stack)

\* The types of all but the stack and the pool.
ScalarsOK ==
  /\ phase \in {"new", "resolving", "connecting", "open", "eof"}
  /\ ssl \in {"init", "ok", "failed", "ended", "shut", "broken"}
  /\ flights \in 0 .. H /\ taken \in 0 .. Records
  /\ arrived \in 0 .. 2 * Records /\ rcvd \in 0 .. arrived
  /\ closed \in BOOLEAN /\ fresh \in BOOLEAN
  /\ connects \in Nat /\ pings \in 0 .. MaxPings
  /\ aborted \in Reasons

TcpInv ==
  /\ ScalarsOK
  /\ Nested(stack, Cardinality(leaked)) /\ LeakedFirst
  /\ HandshakeInv /\ ReadsInv
  /\ ExhaustionNeedsLeaks

-------------------------------------------------------------------------------
(* Stacks. *)
USE DEF BP!Pool, BP!Buf

\* The owners below depend on the frames below.
LEMMA OwnedSame ==
  ASSUME NEW s, NEW t, NEW n \in 0 .. 3, \A i \in 1 .. n : s[i] = t[i], NEW k \in 0 .. n
  PROVE  Owned(s, k) = Owned(t, k) /\ Owned(s, k) \in 0 .. k
<1>1. /\ k > 0 => s[1] = t[1]
      /\ k > 1 => s[2] = t[2]
      /\ k > 2 => s[3] = t[3]
  OBVIOUS
<1>2. \A a : Own(a) \in {0, 1}
  BY DEF Own
<1> QED
  BY <1>1, <1>2 DEF Owned

\* The number of owners of a stack.
LEMMA OwnedStep ==
  ASSUME NEW s, NEW n \in 1 .. 3
  PROVE  Owned(s, n) = Owned(s, n - 1) + Own(s[n].at) /\ Owned(s, n - 1) \in 0 .. n - 1
<1>1. \A a : Own(a) \in {0, 1}
  BY DEF Own
<1> QED
  BY <1>1 DEF Owned

\* A call is made.
LEMMA Push ==
  ASSUME NEW L \in Nat, NEW s, Nested(s, L), NEW f \in FrameSet, Fits(s, f.at),
         f.buf = IF f.at \in Owners THEN L + Total(s) ELSE -1
  PROVE  /\ Nested(Append(s, f), L)
         /\ Total(Append(s, f)) = Total(s) + Own(f.at)
         /\ Append(s, f) \in Seq(FrameSet) /\ Len(Append(s, f)) = Len(s) + 1
         /\ Append(s, f)[Len(s) + 1] = f
         /\ \A i \in 1 .. Len(s) : Append(s, f)[i] = s[i]
         /\ Append(s, f) # <<>>
<1> DEFINE n == Len(s)
           t == Append(s, f)
<1>1. /\ s \in Seq(FrameSet) /\ n \in 0 .. 3
      /\ n > 0 => s[1].at \in Bottom
      /\ \A i \in 2 .. n : Over(s[i - 1].at, s[i].at)
      /\ \A i \in 1 .. n : s[i].buf = IF s[i].at \in Owners THEN L + Owned(s, i - 1) ELSE -1
  <2>1. /\ s \in Seq(FrameSet) /\ n <= 3
        /\ n > 0 => s[1].at \in Bottom
        /\ \A i \in 2 .. n : Over(s[i - 1].at, s[i].at)
        /\ \A i \in 1 .. n : s[i].buf = IF s[i].at \in Owners THEN L + Owned(s, i - 1) ELSE -1
    BY Zenon DEF Nested
  <2>2. n \in Nat /\ n <= 3
    BY <2>1, LenProperties, Zenon
  <2>3. n \in 0 .. 3
    <3> HIDE DEF n
    <3> QED
      BY <2>2
  <2> QED
    BY <2>1, <2>3
<1>2. /\ t \in Seq(FrameSet) /\ Len(t) = n + 1
      /\ t[n + 1] = f /\ \A i \in 1 .. n : t[i] = s[i]
  BY <1>1, AppendProperties
<1>3. n > 0 => Over(s[n].at, f.at)
  BY <1>1 DEF Fits
<1>4. n + 1 <= 3
  <2> SUFFICES ASSUME n = 3 PROVE FALSE
    BY <1>1
  <2>1. Over(s[1].at, s[2].at) /\ Over(s[2].at, s[3].at) /\ Over(s[3].at, f.at)
    <3>1. /\ Over(s[2 - 1].at, s[2].at) /\ Over(s[3 - 1].at, s[3].at)
      BY <1>1
    <3> QED
      BY <1>3, <3>1
  <2> QED
    BY <2>1 DEF Over, Passing, Writers, Writing
<1> HIDE DEF t
<1>5. t[1].at \in Bottom
  BY <1>1, <1>2 DEF Fits
<1>6. \A i \in 2 .. n + 1 : Over(t[i - 1].at, t[i].at)
  <2> TAKE i \in 2 .. n + 1
  <2>1. CASE i = n + 1
    BY <1>1, <1>2, <1>3, <2>1
  <2>2. CASE i # n + 1
    <3>1. i \in 2 .. n /\ i \in 1 .. n /\ i - 1 \in 1 .. n
      BY <1>1, <2>2
    <3> QED
      BY <1>1, <1>2, <3>1, Zenon
  <2> QED
    BY <2>1, <2>2
<1>7. \A k \in 0 .. n : Owned(t, k) = Owned(s, k)
  <2> TAKE k \in 0 .. n
  <2>1. \A i \in 1 .. n : t[i] = s[i]
    BY <1>2
  <2>2. n \in 0 .. 3
    BY <1>1
  <2> HIDE DEF n
  <2> QED
    BY <2>1, <2>2, OwnedSame
<1>8. Owned(t, n + 1) = Owned(s, n) + Own(f.at)
  <2>1. n + 1 \in 1 .. 3 /\ (n + 1) - 1 = n /\ n \in 0 .. n
    BY <1>1, <1>4
  <2>2. Owned(t, n + 1) = Owned(t, n) + Own(t[n + 1].at)
    BY <2>1, OwnedStep
  <2> QED
    BY <1>2, <1>7, <2>1, <2>2
<1>9. \A i \in 1 .. n + 1 : t[i].buf = IF t[i].at \in Owners THEN L + Owned(t, i - 1) ELSE -1
  <2> TAKE i \in 1 .. n + 1
  <2>0. i - 1 \in 0 .. n
    BY <1>1
  <2>1. CASE i = n + 1
    <3>1. i - 1 = n
      BY <1>1, <2>1
    <3> QED
      BY <1>2, <1>7, <2>0, <2>1, <3>1 DEF Total
  <2>2. CASE i # n + 1
    <3>1. i \in 1 .. n
      BY <1>1, <2>2
    <3> QED
      BY <1>1, <1>2, <1>7, <2>0, <3>1, Zenon
  <2> QED
    BY <2>1, <2>2
<1>10. Nested(t, L) /\ Total(t) = Total(s) + Own(f.at)
  BY <1>2, <1>4, <1>5, <1>6, <1>8, <1>9 DEF Nested, Total
<1>11. t # <<>>
  BY <1>1, <1>2
<1> QED
  BY <1>2, <1>10, <1>11 DEF t

\* A call that holds no buffer enters the stack.
LEMMA PushPlain ==
  ASSUME NEW L \in Nat, NEW s, Nested(s, L), NEW f \in FrameSet, Fits(s, f.at),
         f.at \notin Owners, f.buf = -1
  PROVE  Nested(Append(s, f), L) /\ Total(Append(s, f)) = Total(s) + Own(f.at)
<1>1. f.buf = IF f.at \in Owners THEN L + Total(s) ELSE -1
  BY Zenon
<1> QED
  BY <1>1, Push, SMTT(60)

\* The innermost call, and the ones it was made from.
LEMMA Pop ==
  ASSUME NEW L \in Nat, NEW s, Nested(s, L), s # <<>>
  PROVE  LET n == Len(s)
             r == SubSeq(s, 1, n - 1)
         IN  /\ n \in 1 .. 3 /\ s[n] \in FrameSet
             /\ Nested(r, L) /\ Len(r) = n - 1
             /\ \A i \in 1 .. n - 1 : r[i] = s[i]
             /\ Fits(r, s[n].at)
             /\ s[n].buf = IF s[n].at \in Owners THEN L + Total(r) ELSE -1
             /\ Total(s) = Total(r) + Own(s[n].at)
             /\ Total(r) \in 0 .. n - 1
             /\ s[n].at \in Passing => n <= 2
             /\ s[n].at \in Passing => \A i \in 1 .. n - 1 : s[i].at = "written"
             /\ s[n].at \notin Writing => n <= 2
<1> DEFINE n == Len(s)
           r == SubSeq(s, 1, n - 1)
<1>1. /\ s \in Seq(FrameSet) /\ n \in 0 .. 3
      /\ n > 0 => s[1].at \in Bottom
      /\ \A i \in 2 .. n : Over(s[i - 1].at, s[i].at)
      /\ \A i \in 1 .. n : s[i].buf = IF s[i].at \in Owners THEN L + Owned(s, i - 1) ELSE -1
  <2>1. /\ s \in Seq(FrameSet) /\ n <= 3
        /\ n > 0 => s[1].at \in Bottom
        /\ \A i \in 2 .. n : Over(s[i - 1].at, s[i].at)
        /\ \A i \in 1 .. n : s[i].buf = IF s[i].at \in Owners THEN L + Owned(s, i - 1) ELSE -1
    BY Zenon DEF Nested
  <2>2. n \in Nat /\ n <= 3
    BY <2>1, LenProperties, Zenon
  <2>3. n \in 0 .. 3
    <3> HIDE DEF n
    <3> QED
      BY <2>2
  <2> QED
    BY <2>1, <2>3
<1>2. n \in 1 .. 3 /\ n - 1 \in 0 .. 3 /\ n - 1 \in Nat /\ n \in 1 .. n
  <2>1. n # 0
    BY <1>1, EmptySeq
  <2> QED
    BY <1>1, <2>1
<1>3. s[n] \in FrameSet
  BY <1>1, <1>2, ElementOfSeq
<1>4. r \in Seq(FrameSet) /\ Len(r) = n - 1 /\ \A i \in 1 .. n - 1 : r[i] = s[i]
  BY <1>1, <1>2, SubSeqProperties
<1> HIDE DEF r
<1>5. \A k \in 0 .. n - 1 : Owned(r, k) = Owned(s, k) /\ Owned(r, k) \in 0 .. k
  BY <1>2, <1>4, OwnedSame
<1>6. Nested(r, L)
  <2>1. Len(r) > 0 => r[1].at \in Bottom
    BY <1>1, <1>2, <1>4
  <2>2. \A i \in 2 .. n - 1 : Over(r[i - 1].at, r[i].at)
    <3> TAKE i \in 2 .. n - 1
    <3>1. i \in 2 .. n /\ i \in 1 .. n - 1 /\ i - 1 \in 1 .. n - 1
      BY <1>2
    <3> QED
      BY <1>1, <1>4, <3>1, Zenon
  <2>3. \A i \in 1 .. n - 1 : r[i].buf = IF r[i].at \in Owners THEN L + Owned(r, i - 1) ELSE -1
    <3> TAKE i \in 1 .. n - 1
    <3>1. i \in 1 .. n /\ i - 1 \in 0 .. n - 1
      BY <1>2
    <3> QED
      BY <1>1, <1>4, <1>5, <3>1, Zenon
  <2> QED
    BY <1>2, <1>4, <2>1, <2>2, <2>3 DEF Nested
<1>7. Total(r) = Owned(s, n - 1) /\ Total(r) \in 0 .. n - 1
  BY <1>2, <1>4, <1>5 DEF Total
<1>8. Total(s) = Total(r) + Own(s[n].at)
  BY <1>2, <1>7, OwnedStep DEF Total
<1>9. s[n].buf = IF s[n].at \in Owners THEN L + Total(r) ELSE -1
  BY <1>1, <1>2, <1>7
<1>10. Fits(r, s[n].at)
  <2>1. CASE n = 1
    <3>1. r = <<>>
      BY <1>4, <2>1, EmptySeq
    <3> QED
      BY <1>1, <2>1, <3>1 DEF Fits
  <2>2. CASE n > 1
    <3>1. r # <<>> /\ n \in 2 .. n /\ n - 1 \in 1 .. n - 1
      BY <1>2, <1>4, <2>2, EmptySeq
    <3>2. Over(s[n - 1].at, s[n].at)
      BY <1>1, <3>1, Zenon
    <3> QED
      BY <1>4, <3>1, <3>2 DEF Fits
  <2> QED
    BY <1>2, <2>1, <2>2, SMTT(60)
<1>11. s[n].at \notin Writing => n <= 2
  <2> SUFFICES ASSUME n = 3 PROVE s[n].at \in Writing
    BY <1>2
  <2>1. Over(s[1].at, s[2].at) /\ Over(s[2].at, s[3].at)
    <3>1. /\ Over(s[2 - 1].at, s[2].at) /\ Over(s[3 - 1].at, s[3].at)
      BY <1>1
    <3> QED
      BY <3>1
  <2> QED
    BY <2>1 DEF Over, Passing, Writers, Writing
<1>12. s[n].at \in Passing => n <= 2 /\ \A i \in 1 .. n - 1 : s[i].at = "written"
  <2> HAVE s[n].at \in Passing
  <2>1. n <= 2
    BY <1>11 DEF Passing, Writing
  <2>2. n = 2 => Over(s[1].at, s[2].at)
    <3>1. n = 2 => Over(s[2 - 1].at, s[2].at)
      BY <1>1
    <3> QED
      BY <3>1
  <2>3. n = 2 => s[1].at = "written"
    BY <2>2 DEF Over, Passing, Writing
  <2> QED
    BY <1>2, <2>1, <2>3
<1> QED
  BY <1>2, <1>3, <1>4, <1>6, <1>7, <1>8, <1>9, <1>10, <1>11, <1>12 DEF r

\* What a call made adds to the active ones.
LEMMA PushFrames ==
  ASSUME NEW S, NEW s \in Seq(S), NEW f \in S, NEW x, NEW waits
  PROVE  /\ HasReader(Append(s, f)) <=> HasReader(s) \/ f.at \in Reading
         /\ /\ FramesOK(s, x, waits)
            /\ f.at \in Hands => x \in Starting
            /\ f.at \in Reading => x \in Up
            /\ s # <<>> /\ s[Len(s)].at = "handshake" => x = "init" /\ waits
            => FramesOK(Append(s, f), x, waits)
<1> DEFINE n == Len(s)
           t == Append(s, f)
<1>1. /\ n \in Nat /\ Len(t) = n + 1
      /\ t[n + 1] = f /\ \A i \in 1 .. n : t[i] = s[i]
  BY AppendProperties, LenProperties
<1>0. n > 0 => s # <<>>
  BY EmptySeq
<1> HIDE DEF n, t
<1>2. \A i \in 1 .. n + 1 : i = n + 1 \/ i \in 1 .. n
  BY <1>1
<1>3. \A i \in 1 .. n : i \in 1 .. n + 1
  BY <1>1
<1>4. n + 1 \in 1 .. n + 1
  BY <1>1
<1>5. HasReader(t) <=> HasReader(s) \/ f.at \in Reading
  <2>1. HasReader(t) <=> \E i \in 1 .. n + 1 : t[i].at \in Reading
    BY <1>1, Zenon DEF HasReader
  <2>2. HasReader(s) <=> \E i \in 1 .. n : s[i].at \in Reading
    BY Zenon DEF HasReader, n
  <2>3. HasReader(t) => HasReader(s) \/ f.at \in Reading
    BY <1>1, <1>2, <2>1, <2>2, Zenon
  <2>4. HasReader(s) => HasReader(t)
    BY <1>1, <1>3, <2>1, <2>2, Zenon
  <2>5. f.at \in Reading => HasReader(t)
    BY <1>1, <1>4, <2>1, Zenon
  <2> QED
    BY <2>3, <2>4, <2>5
<1>6. ASSUME FramesOK(s, x, waits),
             f.at \in Hands => x \in Starting,
             f.at \in Reading => x \in Up,
             s # <<>> /\ s[Len(s)].at = "handshake" => x = "init" /\ waits
      PROVE  FramesOK(t, x, waits)
  <2>1. \A i \in 1 .. n : /\ s[i].at \in Hands => x \in Starting
                          /\ s[i].at = "handshake" /\ i < n => x = "init" /\ waits
                          /\ s[i].at \in Reading => x \in Up
    BY <1>6, Zenon DEF FramesOK, n
  <2>2. \A i \in 1 .. n : s[i].at = "handshake" => x = "init" /\ waits
    <3> TAKE i \in 1 .. n
    <3>1. CASE i = n
      BY <1>0, <1>1, <1>6, <3>1 DEF n
    <3>2. CASE i # n
      <4>1. i < n
        BY <1>1, <3>2
      <4> QED
        BY <2>1, <4>1, Zenon
    <3> QED
      BY <3>1, <3>2
  <2>3. ASSUME NEW i \in 1 .. n + 1
        PROVE  /\ t[i].at \in Hands => x \in Starting
               /\ t[i].at = "handshake" /\ i < n + 1 => x = "init" /\ waits
               /\ t[i].at \in Reading => x \in Up
    <3>1. CASE i = n + 1
      <4>1. ~ (i < n + 1)
        BY <1>1, <3>1
      <4>2. t[i] = f
        BY <1>1, <3>1, Zenon
      <4> QED
        BY <1>6, <4>1, <4>2, Zenon
    <3>2. CASE i # n + 1
      <4>1. i \in 1 .. n
        BY <1>2, <3>2, Zenon
      <4>2. t[i] = s[i]
        BY <1>1, <4>1, Zenon
      <4> QED
        BY <2>1, <2>2, <4>1, <4>2, Zenon
    <3> QED
      BY <3>1, <3>2
  <2> QED
    BY <1>1, <2>3, Zenon DEF FramesOK
<1> QED
  BY <1>5, <1>6 DEF t

\* What the innermost call leaves behind when it returns.
LEMMA PopFrames ==
  ASSUME NEW L \in Nat, NEW s, Nested(s, L), s # <<>>
  PROVE  LET n == Len(s)
             r == SubSeq(s, 1, n - 1)
         IN  /\ HasReader(s) <=> HasReader(r) \/ s[n].at \in Reading
             /\ \A x, waits : FramesOK(s, x, waits) =>
                  /\ FramesOK(r, x, waits)
                  /\ s[n].at \in Hands => x \in Starting
                  /\ s[n].at \in Reading => x \in Up
                  /\ r # <<>> /\ r[Len(r)].at = "handshake" => x = "init" /\ waits
             /\ s[n].at \in Passing => \A x, waits : FramesOK(r, x, waits)
             /\ s[n].at \in Passing => ~HasReader(r)
             /\ s[n].at \in Passing /\ r # <<>> => r[Len(r)].at = "written"
<1> DEFINE n == Len(s)
           r == SubSeq(s, 1, n - 1)
<1>1. /\ n \in 1 .. 3 /\ Len(r) = n - 1
      /\ \A i \in 1 .. n - 1 : r[i] = s[i]
      /\ s[n].at \in Passing => \A i \in 1 .. n - 1 : s[i].at = "written"
  BY Pop, Zenon
<1>0. r # <<>> => n - 1 > 0
  <2>1. r \in Seq(FrameSet) /\ Len(r) \in Nat
    BY Pop, LenProperties, Zenon DEF Nested
  <2>2. r # <<>> => Len(r) # 0
    BY <2>1, EmptySeq
  <2> QED
    BY <1>1, <2>1, <2>2
<1> HIDE DEF n, r
<1>2. \A i \in 1 .. n : i = n \/ i \in 1 .. n - 1
  BY <1>1
<1>3. \A i \in 1 .. n - 1 : i \in 1 .. n /\ i < n
  BY <1>1
<1>4. n \in 1 .. n
  BY <1>1
<1>5. HasReader(s) <=> HasReader(r) \/ s[n].at \in Reading
  <2>1. HasReader(s) <=> \E i \in 1 .. n : s[i].at \in Reading
    BY Zenon DEF HasReader, n
  <2>2. HasReader(r) <=> \E i \in 1 .. n - 1 : r[i].at \in Reading
    BY <1>1, Zenon DEF HasReader
  <2>3. HasReader(s) => HasReader(r) \/ s[n].at \in Reading
    BY <1>1, <1>2, <2>1, <2>2, Zenon
  <2>4. HasReader(r) => HasReader(s)
    BY <1>1, <1>3, <2>1, <2>2, Zenon
  <2>5. s[n].at \in Reading => HasReader(s)
    BY <1>4, <2>1, Zenon
  <2> QED
    BY <2>3, <2>4, <2>5
<1>6. ASSUME NEW x, NEW waits, FramesOK(s, x, waits)
      PROVE  /\ FramesOK(r, x, waits)
             /\ s[n].at \in Hands => x \in Starting
             /\ s[n].at \in Reading => x \in Up
             /\ r # <<>> /\ r[Len(r)].at = "handshake" => x = "init" /\ waits
  <2>1. \A i \in 1 .. n : /\ s[i].at \in Hands => x \in Starting
                          /\ s[i].at = "handshake" /\ i < n => x = "init" /\ waits
                          /\ s[i].at \in Reading => x \in Up
    BY <1>6, Zenon DEF FramesOK, n
  <2>2. \A i \in 1 .. n - 1 : /\ r[i].at \in Hands => x \in Starting
                              /\ r[i].at = "handshake" => x = "init" /\ waits
                              /\ r[i].at \in Reading => x \in Up
    BY <1>1, <1>3, <2>1, Zenon
  <2>3. FramesOK(r, x, waits)
    BY <1>1, <2>2, Zenon DEF FramesOK
  <2>4. r # <<>> => Len(r) \in 1 .. n - 1
    BY <1>0, <1>1
  <2> QED
    BY <1>4, <2>1, <2>2, <2>3, <2>4, Zenon
<1>7. ASSUME s[n].at \in Passing
      PROVE  /\ \A x, waits : FramesOK(r, x, waits)
             /\ ~HasReader(r)
             /\ r # <<>> => r[Len(r)].at = "written"
  <2>1. \A i \in 1 .. n - 1 : r[i].at = "written"
    BY <1>1, <1>7, Zenon
  <2>2. "written" # "handshake" /\ "written" \notin Hands /\ "written" \notin Reading
    BY DEF Hands, Reading
  <2>3. r # <<>> => Len(r) \in 1 .. n - 1
    BY <1>0, <1>1
  <2>4. \A x, waits : FramesOK(r, x, waits)
    BY <1>1, <2>1, <2>2, Zenon DEF FramesOK
  <2>5. ~HasReader(r)
    BY <1>1, <2>1, <2>2, Zenon DEF HasReader
  <2> QED
    BY <2>1, <2>3, <2>4, <2>5, Zenon
<1> QED
  BY <1>5, <1>6, <1>7 DEF n, r

-------------------------------------------------------------------------------
(* The invariant. *)

\* The stack of a running call, taken apart.
LEMMA TopOfStack ==
  ASSUME TcpInv, stack # <<>>
  PROVE  LET L == Cardinality(leaked)
         IN  /\ L \in Nat /\ L <= N
             /\ Len(stack) \in 1 .. 3 /\ top \in FrameSet
             /\ Nested(stack, L) /\ Nested(callers, L) /\ callers \in Seq(FrameSet)
             /\ Len(callers) = Len(stack) - 1
             /\ Fits(callers, top.at)
             /\ top.buf = IF top.at \in Owners THEN L + Total(callers) ELSE -1
             /\ Total(stack) = Total(callers) + Own(top.at)
             /\ Total(callers) \in 0 .. 2
             /\ top.at \notin Writing => Total(callers) \in 0 .. 1
<1> DEFINE L == Cardinality(leaked)
<1>1. Nested(stack, L) /\ L \in 0 .. N /\ N \in Nat
  BY TcpAssumption DEF TcpInv, LeakedFirst
<1>2. L \in Nat /\ L <= N
  BY <1>1
<1> HIDE DEF L
<1>3. /\ Len(stack) \in 1 .. 3 /\ top \in FrameSet
      /\ Nested(callers, L)
      /\ Len(callers) = Len(stack) - 1
      /\ Fits(callers, top.at)
      /\ top.buf = IF top.at \in Owners THEN L + Total(callers) ELSE -1
      /\ Total(stack) = Total(callers) + Own(top.at)
      /\ Total(callers) \in 0 .. Len(stack) - 1
      /\ top.at \notin Writing => Len(stack) <= 2
  BY <1>1, <1>2, Pop, Zenon DEF top, callers
<1>4. callers \in Seq(FrameSet)
  BY <1>3, Zenon DEF Nested
<1>5. Total(callers) \in 0 .. 2 /\ (top.at \notin Writing => Total(callers) \in 0 .. 1)
  <2> DEFINE k == Total(callers)
             n == Len(stack)
             w == top.at \notin Writing
  <2>1. n \in 1 .. 3 /\ k \in 0 .. n - 1 /\ (w => n <= 2)
    BY <1>3
  <2> HIDE DEF k, n, w
  <2>2. k \in 0 .. 2 /\ (w => k \in 0 .. 1)
    BY <2>1
  <2> QED
    BY <2>2 DEF k, w
<1> QED
  BY <1>1, <1>2, <1>3, <1>4, <1>5 DEF L

\* The active calls around the innermost one.
LEMMA TopFrames ==
  ASSUME TcpInv, stack # <<>>
  PROVE  /\ HasReader(stack) <=> HasReader(callers) \/ top.at \in Reading
         /\ FramesOK(callers, ssl, flights = taken)
         /\ top.at \in Hands => ssl \in Starting
         /\ top.at \in Reading => ssl \in Up
         /\ callers # <<>> /\ callers[Len(callers)].at = "handshake" => ssl = "init" /\ flights = taken
         /\ top.at \in Passing => \A x, waits : FramesOK(callers, x, waits)
         /\ top.at \in Passing => ~HasReader(callers)
         /\ top.at \in Passing /\ callers # <<>> => callers[Len(callers)].at = "written"
<1>1. Nested(stack, Cardinality(leaked)) /\ Cardinality(leaked) \in Nat
  BY TopOfStack, Zenon
<1>2. FramesOK(stack, ssl, flights = taken)
  BY DEF TcpInv, HandshakeInv
<1> QED
  BY <1>1, <1>2, PopFrames, Zenon DEF top, callers

\* The pool while the process runs.
LEMMA PoolNow ==
  ASSUME TcpInv
  PROVE  /\ pool = [buffers |-> [i \in 0 .. N - 1 |-> i],
                    in_use |-> Cardinality(leaked) + Total(stack)]
         /\ Cardinality(leaked) + Total(stack) \in 0 .. N /\ N \in Nat
BY TcpAssumption DEF TcpInv, LeakedFirst

\* buffer_pool_acquire hands out the first buffer behind the ones in use.
LEMMA AcquireNext ==
  ASSUME TcpInv
  PROVE  LET k == Cardinality(leaked) + Total(stack)
         IN  /\ BP!CanAcquire(pool) <=> k < N
             /\ k < N => /\ BP!Acquired(pool) = k
                         /\ BP!buffer_pool_acquire(pool)
                              = [buffers |-> [i \in 0 .. N - 1 |-> i], in_use |-> k + 1]
<1> DEFINE k == Cardinality(leaked) + Total(stack)
           id == [i \in 0 .. N - 1 |-> i]
<1>1. pool = [buffers |-> id, in_use |-> k] /\ k \in 0 .. N /\ N \in Nat
  BY PoolNow
<1> HIDE DEF k
<1>2. BP!CanAcquire(pool) <=> k < N
  BY <1>1 DEF BP!CanAcquire
<1>3. k < N => id[k] = k
  BY <1>1
<1> HIDE DEF id
<1>4. k < N => BP!Acquired(pool) = k
  BY <1>1, <1>2, <1>3 DEF BP!Acquired
<1>5. k < N => BP!buffer_pool_acquire(pool) = [buffers |-> id, in_use |-> k + 1]
  BY <1>1, <1>2 DEF BP!buffer_pool_acquire
<1> QED
  BY <1>2, <1>4, <1>5 DEF k, id

\* buffer_pool_release of the last buffer in use shortens the prefix.
LEMMA ReleaseLast ==
  ASSUME TcpInv, stack # <<>>, top.at \in Owners
  PROVE  /\ BP!buffer_pool_release(pool, top.buf)
              = [buffers |-> [i \in 0 .. N - 1 |-> i],
                 in_use |-> Cardinality(leaked) + Total(callers)]
         /\ Cardinality(leaked) + Total(callers) \in 0 .. N
<1> DEFINE k == Cardinality(leaked) + Total(callers)
           id == [i \in 0 .. N - 1 |-> i]
           b == top.buf
<1>1. b = k /\ k \in Nat /\ Cardinality(leaked) + Total(stack) = k + 1
  <2> DEFINE L == Cardinality(leaked)
             T == Total(callers)
  <2>1. L \in Nat /\ T \in 0 .. 2 /\ b = L + T /\ Total(stack) = T + Own(top.at)
    BY TopOfStack, Zenon
  <2>2. Own(top.at) = 1
    BY DEF Own
  <2> HIDE DEF L, T, b
  <2> QED
    BY <2>1, <2>2 DEF L, T
<1>2. pool = [buffers |-> id, in_use |-> k + 1] /\ k + 1 \in 0 .. N /\ N \in Nat
  BY <1>1, PoolNow
<1> HIDE DEF k, b
<1>3. k \in 0 .. N - 1 /\ k \in 0 .. N /\ (k + 1) - 1 = k
  BY <1>1, <1>2
<1>4. \A i \in 0 .. N - 1 : id[i] = i
  OBVIOUS
<1>5. BP!IndexOf(pool, k) = k
  <2>1. k \in 0 .. N - 1 /\ pool.buffers[k] = k
    BY <1>2, <1>3, <1>4
  <2>2. \A i \in 0 .. N - 1 : pool.buffers[i] = k => i = k
    BY <1>2, <1>4
  <2> QED
    BY <2>1, <2>2 DEF BP!IndexOf
<1>6. BP!SwapOut(pool, k) = id
  <2>1. pool.buffers = id /\ pool.in_use - 1 = k
    BY <1>2, <1>3
  <2>2. BP!SwapOut(pool, k) = [[id EXCEPT ![k] = id[k]] EXCEPT ![k] = k]
    BY <1>5, <2>1 DEF BP!SwapOut
  <2> QED
    BY <1>3, <2>2
<1>7. BP!buffer_pool_release(pool, k) = [buffers |-> id, in_use |-> k]
  <2>1. pool.buffers = id /\ pool.in_use - 1 = k
    BY <1>2, <1>3
  <2>2. \E i \in 0 .. N - 1 : pool.buffers[i] = k
    BY <1>3, <1>4, <2>1
  <2> QED
    BY <1>6, <2>1, <2>2 DEF BP!buffer_pool_release
<1> QED
  BY <1>1, <1>3, <1>7 DEF k, id, b

\* The handshake's part where a step leaves its variables alone.
LEMMA HandshakeKept ==
  ASSUME TcpInv, stack # <<>>, ssl = "failed" => ~(top.at = "connect_cb" /\ top.left > 0),
         UNCHANGED <<ssl, flights, taken, connects>>,
         phase' = phase \/ phase' = "eof",
         FramesOK(stack', ssl, flights = taken)
  PROVE  HandshakeInv'
<1>1. HandshakeInv /\ phase \in {"open", "eof"} /\ ssl # "failed"
  BY DEF TcpInv, HandshakeInv
<1>2. phase' \in {"open", "eof"} /\ ssl' # "failed"
  BY <1>1
<1>3. FramesOK(stack, ssl, flights = taken)'
  BY Zenon DEF FramesOK
<1>4. /\ connects' = IF ssl' \in Starting THEN 0 ELSE 1
      /\ ssl' = "init" => taken' < H /\ flights' \in {taken', taken' + 1}
  BY <1>1, Zenon DEF HandshakeInv
<1> QED
  BY <1>2, <1>3, <1>4, Zenon DEF HandshakeInv

\* The reads' part where a step leaves its variables alone.
LEMMA ReadsKept ==
  ASSUME TcpInv, aborted = "no", UNCHANGED <<ssl, rcvd, taken, fresh>>,
         HasReader(stack) => HasReader(stack')
  PROVE  ReadsInv'
<1>1. ssl = "ok" /\ complete > taken => fresh \/ HasReader(stack)
  BY DEF TcpInv, ReadsInv
<1>2. complete' = complete
  BY Zenon DEF complete
<1>3. HasReader(stack)' <=> HasReader(stack')
  BY Zenon DEF HasReader
<1>4. ReadsInv' <=> (ssl' = "ok" /\ aborted' = "no" /\ complete' > taken' => fresh' \/ HasReader(stack)')
  BY Zenon DEF ReadsInv
<1> QED
  BY <1>1, <1>2, <1>3, <1>4

\* DefaultAllocCb, uv_ssl_do_read and uv_ssl_wbio_cb take a buffer, or fail
\* their assertion: two calls below hold one each at most.
LEMMA AcquireForInv ==
  ASSUME TcpInv, NEW loc, NEW next,
         <<loc, next>> \in {<<"alloc_cb", "recv">>, <<"do_read", "ssl_read">>,
                            <<"wbio_cb", "try_write">>},
         At(loc), AcquireFor(next), UNCHANGED <<netVars, sslVars>>
  PROVE  TcpInv'
<1> DEFINE L == Cardinality(leaked)
           k == L + Total(stack)
           f == [top EXCEPT !.at = next, !.buf = k]
<1>1. aborted = "no" /\ stack # <<>> /\ top.at = loc /\ leaked' = leaked
  BY DEF At, AcquireFor
<1>2. /\ loc \notin Owners /\ next \in Owners /\ next \in Locations
      /\ loc # "connect_cb" /\ next \notin Hands
      /\ loc \in Reading <=> next \in Reading
  BY DEF Owners, Locations, Hands, Reading
<1>3. /\ L \in Nat /\ top \in FrameSet /\ Nested(callers, L) /\ callers \in Seq(FrameSet)
      /\ Fits(callers, loc) /\ Total(stack) = Total(callers) + Own(loc)
      /\ Total(callers) \in 0 .. 2 /\ Nested(stack, L)
  BY <1>1, TopOfStack, Zenon
<1>4. Total(stack) = Total(callers)
  BY <1>2, <1>3 DEF Own
<1>5. ScalarsOK /\ aborted' \in Reasons => ScalarsOK'
  BY DEF ScalarsOK, netVars, sslVars
<1>6. /\ phase' = phase
      /\ UNCHANGED <<ssl, flights, taken, connects>>
      /\ UNCHANGED <<ssl, rcvd, taken, fresh>>
  BY DEF netVars, sslVars
<1>7. k \in 0 .. N /\ N \in Nat
  BY PoolNow
<1>8. CASE k < N
  <2>1. /\ pool' = [buffers |-> [i \in 0 .. N - 1 |-> i], in_use |-> k + 1]
        /\ stack' = Append(callers, f) /\ aborted' = "no"
    BY <1>1, <1>8, AcquireNext DEF AcquireFor, Replace
  <2>2. f \in FrameSet /\ f.at = next /\ f.buf = L + Total(callers)
    <3>1. k \in 0 .. N - 1
      BY <1>7, <1>8
    <3> HIDE DEF k
    <3>2. f \in FrameSet /\ f.at = next /\ f.buf = k
      BY <1>2, <1>3, <3>1 DEF FrameSet
    <3> QED
      BY <1>4, <3>2 DEF k
  <2> HIDE DEF f
  <2>3. Fits(callers, next)
    BY <1>3 DEF Fits, Bottom, Over, Passing, Writers, Writing
  <2>4. Nested(stack', L) /\ Total(stack') = Total(callers) + Own(next)
    BY <1>2, <1>3, <2>1, <2>2, <2>3, Push, ZenonT(60)
  <2>5. Own(next) = 1
    BY <1>2 DEF Own
  <2>6. /\ FramesOK(stack', ssl, flights = taken)
        /\ HasReader(stack) => HasReader(stack')
    <3>1. /\ FramesOK(callers, ssl, flights = taken)
          /\ callers # <<>> /\ callers[Len(callers)].at = "handshake" => ssl = "init" /\ flights = taken
          /\ top.at \in Reading => ssl \in Up
          /\ HasReader(stack) <=> HasReader(callers) \/ top.at \in Reading
      BY <1>1, TopFrames, Zenon
    <3> QED
      BY <1>1, <1>2, <1>3, <2>1, <2>2, <3>1, PushFrames, Zenon
  <2>7. LeakedFirst'
    <3> DEFINE T == Total(stack)
    <3>1. L + T' = k + 1 /\ k + 1 \in 0 .. N
      BY <1>3, <1>4, <1>7, <1>8, <2>4, <2>5 DEF Total
    <3>2. pool'.in_use = k + 1
      BY <2>1
    <3> QED
      BY <1>1, <2>1, <3>1, <3>2 DEF TcpInv, LeakedFirst
  <2>8. Nested(stack, Cardinality(leaked))'
    BY <1>1, <2>4, Zenon DEF Nested, Owned
  <2>9. ScalarsOK' /\ ExhaustionNeedsLeaks'
    BY <1>1, <1>5, <2>1 DEF TcpInv, ExhaustionNeedsLeaks, Reasons
  <2>10. HandshakeInv' /\ ReadsInv'
    BY <1>1, <1>2, <1>6, <2>6, HandshakeKept, ReadsKept, Zenon
  <2> QED
    BY <2>7, <2>8, <2>9, <2>10 DEF TcpInv
<1>9. CASE ~ (k < N)
  <2>1. aborted' = "no_buffer" /\ pool' = pool /\ stack' = stack
    BY <1>9, AcquireNext DEF AcquireFor, Abort
  <2>2. Cardinality(leaked') >= N - 2
    BY <1>1, <1>3, <1>4, <1>7, <1>9
  <2>3. ScalarsOK' /\ ExhaustionNeedsLeaks'
    BY <1>5, <2>1, <2>2 DEF TcpInv, ExhaustionNeedsLeaks, Reasons
  <2>4. LeakedFirst'
    BY <1>1, <2>1 DEF TcpInv, LeakedFirst, Total, Owned
  <2>5. Nested(stack, Cardinality(leaked))'
    BY <1>1, <1>3, <2>1, Zenon DEF Nested, Owned
  <2>6. HandshakeInv' /\ ReadsInv'
    <3>1. FramesOK(stack', ssl, flights = taken) /\ (HasReader(stack) => HasReader(stack'))
      BY <2>1, Zenon DEF TcpInv, HandshakeInv
    <3> QED
      BY <1>1, <1>2, <1>6, <3>1, HandshakeKept, ReadsKept, Zenon
  <2> QED
    BY <2>3, <2>4, <2>5, <2>6 DEF TcpInv
<1> QED
  BY <1>8, <1>9

\* The innermost call returns, giving back the buffer it holds.
LEMMA ReturnStack ==
  ASSUME TcpInv, stack # <<>>, stack' = callers, leaked' = leaked,
         pool' = IF top.at \in Owners THEN BP!buffer_pool_release(pool, top.buf) ELSE pool
  PROVE  /\ Nested(stack, Cardinality(leaked))' /\ LeakedFirst'
         /\ FramesOK(stack', ssl, flights = taken)
         /\ HasReader(stack) /\ top.at \notin Reading => HasReader(stack')
<1> DEFINE L == Cardinality(leaked)
           k == L + Total(callers)
<1>1. Nested(callers, L) /\ Total(stack) = Total(callers) + Own(top.at)
  BY TopOfStack, Zenon
<1>2. Nested(stack, Cardinality(leaked))'
  BY <1>1, Zenon DEF Nested, Owned
<1>3. pool' = [buffers |-> [i \in 0 .. N - 1 |-> i], in_use |-> k] /\ k \in 0 .. N
  <2>1. CASE top.at \in Owners
    BY <2>1, ReleaseLast, Zenon
  <2>2. CASE top.at \notin Owners
    <3>1. Total(stack) = Total(callers)
      BY <1>1, <2>2, TopOfStack DEF Own
    <3> QED
      BY <2>2, <3>1, PoolNow, Zenon
  <2> QED
    BY <2>1, <2>2
<1>4. Total(stack)' = Total(callers)
  BY Zenon DEF Total, Owned
<1>5. LeakedFirst'
  <2>1. L + Total(stack)' = k
    BY <1>4
  <2> HIDE DEF k
  <2>2. pool'.in_use = k
    BY <1>3
  <2>3. leaked' = 0 .. Cardinality(leaked') - 1 /\ Cardinality(leaked') \in 0 .. N
    BY DEF TcpInv, LeakedFirst
  <2> QED
    BY <1>3, <2>1, <2>2, <2>3, Zenon DEF LeakedFirst
<1>6. /\ FramesOK(stack', ssl, flights = taken)
      /\ HasReader(stack) /\ top.at \notin Reading => HasReader(stack')
  BY TopFrames, Zenon
<1> QED
  BY <1>2, <1>5, <1>6

\* The innermost call goes on elsewhere, with its buffer or without.
LEMMA ReplaceStack ==
  ASSUME TcpInv, stack # <<>>, NEW f \in FrameSet, stack' = Replace(f), leaked' = leaked,
         Fits(callers, f.at),
         \/ f.buf = top.buf /\ (f.at \in Owners <=> top.at \in Owners) /\ pool' = pool
         \/ /\ f.buf = -1 /\ f.at \notin Owners /\ top.at \in Owners
            /\ pool' = BP!buffer_pool_release(pool, top.buf)
  PROVE  /\ Nested(stack, Cardinality(leaked))' /\ LeakedFirst'
         /\ Nested(stack', Cardinality(leaked)) /\ Total(stack') = Total(callers) + Own(f.at)
         /\ stack' \in Seq(FrameSet) /\ Len(stack') = Len(stack) /\ stack'[Len(stack')] = f
         /\ stack' # <<>>
         /\ HasReader(stack') <=> HasReader(callers) \/ f.at \in Reading
         /\ \A x, waits :
              /\ FramesOK(callers, x, waits)
              /\ f.at \in Hands => x \in Starting
              /\ f.at \in Reading => x \in Up
              /\ callers # <<>> /\ callers[Len(callers)].at = "handshake" => x = "init" /\ waits
              => FramesOK(stack', x, waits)
<1> DEFINE L == Cardinality(leaked)
           k == L + Total(callers)
           m == k + Own(f.at)
<1>1. /\ L \in Nat /\ Nested(callers, L) /\ callers \in Seq(FrameSet)
      /\ top.buf = IF top.at \in Owners THEN k ELSE -1
      /\ Total(stack) = Total(callers) + Own(top.at) /\ Total(callers) \in 0 .. 2
      /\ Len(stack) \in 1 .. 3 /\ Len(callers) = Len(stack) - 1
  BY TopOfStack, Zenon
<1>2. f.buf = IF f.at \in Owners THEN k ELSE -1
  BY <1>1, Zenon
<1>3. /\ Nested(stack', L) /\ Total(stack') = Total(callers) + Own(f.at)
      /\ stack' \in Seq(FrameSet) /\ stack' # <<>>
      /\ Len(stack') = Len(callers) + 1 /\ stack'[Len(callers) + 1] = f
  <2> HIDE DEF L
  <2> QED
    BY <1>1, <1>2, Push DEF Replace
<1>4. Len(stack') = Len(stack) /\ stack'[Len(stack')] = f
  BY <1>1, <1>3
<1>5. pool' = [buffers |-> [i \in 0 .. N - 1 |-> i], in_use |-> m] /\ m \in 0 .. N
  <2>1. CASE f.buf = top.buf /\ (f.at \in Owners <=> top.at \in Owners) /\ pool' = pool
    <3>1. Own(f.at) = Own(top.at)
      BY <2>1 DEF Own
    <3>2. L + Total(stack) = m
      BY <1>1, <3>1 DEF Own
    <3> QED
      BY <2>1, <3>2, PoolNow, Zenon
  <2>2. CASE /\ f.buf = -1 /\ f.at \notin Owners /\ top.at \in Owners
             /\ pool' = BP!buffer_pool_release(pool, top.buf)
    <3>1. m = k
      BY <1>1, <2>2 DEF Own
    <3> HIDE DEF m
    <3> QED
      BY <2>2, <3>1, ReleaseLast, Zenon
  <2> QED
    BY <2>1, <2>2
<1>6. LeakedFirst'
  <2>1. Total(stack)' = Total(stack')
    BY Zenon DEF Total, Owned
  <2>2. L + Total(stack)' = m
    BY <1>1, <1>3, <2>1 DEF Own
  <2> HIDE DEF m
  <2> QED
    BY <1>5, <2>2 DEF TcpInv, LeakedFirst
<1>7. Nested(stack, Cardinality(leaked))'
  BY <1>3, Zenon DEF Nested, Owned
<1>8. /\ HasReader(stack') <=> HasReader(callers) \/ f.at \in Reading
      /\ \A x, waits :
              /\ FramesOK(callers, x, waits)
              /\ f.at \in Hands => x \in Starting
              /\ f.at \in Reading => x \in Up
              /\ callers # <<>> /\ callers[Len(callers)].at = "handshake" => x = "init" /\ waits
              => FramesOK(stack', x, waits)
  BY <1>1, PushFrames, Zenon DEF Replace
<1> QED
  BY <1>3, <1>4, <1>6, <1>7, <1>8

\* The innermost call makes another.
LEMMA CallStack ==
  ASSUME TcpInv, stack # <<>>, NEW f \in FrameSet, NEW g \in FrameSet, stack' = Call(f, g),
         leaked' = leaked, pool' = pool, Fits(callers, f.at), Over(f.at, g.at),
         f.buf = top.buf, f.at \in Owners <=> top.at \in Owners,
         g.buf = -1, g.at \notin Owners
  PROVE  /\ Nested(stack, Cardinality(leaked))' /\ LeakedFirst'
         /\ stack' # <<>>
         /\ HasReader(stack') <=> HasReader(callers) \/ f.at \in Reading \/ g.at \in Reading
         /\ \A x, waits :
              /\ FramesOK(callers, x, waits)
              /\ f.at \in Hands => x \in Starting
              /\ f.at = "handshake" => x = "init" /\ waits
              /\ f.at \in Reading => x \in Up
              /\ g.at \in Hands => x \in Starting
              /\ g.at \in Reading => x \in Up
              /\ callers # <<>> /\ callers[Len(callers)].at = "handshake" => x = "init" /\ waits
              => FramesOK(stack', x, waits)
<1> DEFINE L == Cardinality(leaked)
           k == L + Total(callers)
           s == Append(callers, f)
<1>1. /\ L \in Nat /\ Nested(callers, L) /\ callers \in Seq(FrameSet)
      /\ top.buf = IF top.at \in Owners THEN k ELSE -1
      /\ Total(stack) = Total(callers) + Own(top.at) /\ Total(callers) \in 0 .. 2
      /\ Len(callers) = Len(stack) - 1 /\ Len(stack) \in 1 .. 3
  BY TopOfStack, Zenon
<1>2. f.buf = IF f.at \in Owners THEN k ELSE -1
  BY <1>1, Zenon
<1>3. /\ Nested(s, L) /\ Total(s) = Total(callers) + Own(f.at)
      /\ s \in Seq(FrameSet) /\ s # <<>>
      /\ Len(s) = Len(callers) + 1 /\ s[Len(callers) + 1] = f
  <2> HIDE DEF L
  <2> QED
    BY <1>1, <1>2, Push
<1>4. s[Len(s)] = f
  BY <1>3, Zenon
<1>5. /\ HasReader(s) <=> HasReader(callers) \/ f.at \in Reading
      /\ \A x, waits :
              /\ FramesOK(callers, x, waits)
              /\ f.at \in Hands => x \in Starting
              /\ f.at \in Reading => x \in Up
              /\ callers # <<>> /\ callers[Len(callers)].at = "handshake" => x = "init" /\ waits
              => FramesOK(s, x, waits)
  BY <1>1, PushFrames, Zenon
<1>6. stack' = Append(s, g)
  <2>1. callers \o <<f, g>> = s \o <<g>> /\ s \o <<g>> = Append(s, g)
    BY <1>1, <1>3
  <2> QED
    BY <2>1, Zenon DEF Call
<1> HIDE DEF s
<1>7. Fits(s, g.at)
  BY <1>3, <1>4, Zenon DEF Fits
<1>8. Nested(stack', L) /\ Total(stack') = Total(s) + Own(g.at) /\ stack' # <<>>
  <2>1. g.buf = IF g.at \in Owners THEN L + Total(s) ELSE -1
    OBVIOUS
  <2> HIDE DEF L
  <2> QED
    BY <1>1, <1>3, <1>6, <1>7, <2>1, Push
<1>9. L + Total(stack') = L + Total(stack)
  <2>1. Own(f.at) = Own(top.at) /\ Own(g.at) = 0 /\ Own(top.at) \in {0, 1}
    BY DEF Own
  <2> QED
    BY <1>1, <1>3, <1>8, <2>1
<1>10. LeakedFirst'
  <2>1. Total(stack)' = Total(stack')
    BY Zenon DEF Total, Owned
  <2> QED
    BY <1>9, <2>1, Zenon DEF TcpInv, LeakedFirst
<1>11. Nested(stack, Cardinality(leaked))'
  BY <1>8, Zenon DEF Nested, Owned
<1>12. HasReader(stack') <=> HasReader(callers) \/ f.at \in Reading \/ g.at \in Reading
  BY <1>3, <1>5, <1>6, PushFrames, Zenon
<1>13. ASSUME NEW x, NEW waits,
              FramesOK(callers, x, waits),
              f.at \in Hands => x \in Starting,
              f.at = "handshake" => x = "init" /\ waits,
              f.at \in Reading => x \in Up,
              g.at \in Hands => x \in Starting,
              g.at \in Reading => x \in Up,
              callers # <<>> /\ callers[Len(callers)].at = "handshake" => x = "init" /\ waits
       PROVE  FramesOK(stack', x, waits)
  <2>1. FramesOK(s, x, waits)
    BY <1>5, <1>13, Zenon
  <2>2. s[Len(s)].at = "handshake" => x = "init" /\ waits
    BY <1>4, <1>13, Zenon
  <2> QED
    BY <1>3, <1>6, <1>13, <2>1, <2>2, PushFrames, Zenon
<1> QED
  BY <1>8, <1>10, <1>11, <1>12, <1>13, Zenon

\* A handshake is the innermost call that belongs to the handshake, and has only
\* the read callback below it.
LEMMA HandshakeAlone ==
  ASSUME NEW L \in Nat, NEW s, Nested(s, L), s # <<>>, s[Len(s)].at = "handshake"
  PROVE  (\A waits : FramesOK(s, "init", waits)) /\ ~HasReader(s)
<1> DEFINE n == Len(s)
<1>1. /\ "handshake" \in Passing /\ "handshake" \notin Reading /\ "written" \notin Reading
      /\ "init" \in Starting
  BY DEF Passing, Reading, Starting
<1>2. n \in 1 .. 3 /\ \A i \in 1 .. n - 1 : s[i].at = "written"
  BY <1>1, Pop, Zenon
<1> HIDE DEF n
<1>3. \A i \in 1 .. n : i = n \/ i \in 1 .. n - 1
  BY <1>2
<1>4. ~ (n < n)
  BY <1>2
<1>5. s[n].at = "handshake"
  BY DEF n
<1>6. \A i \in 1 .. n : /\ s[i].at = "handshake" => ~ (i < n)
                        /\ s[i].at \notin Reading
  BY <1>1, <1>2, <1>3, <1>4, <1>5, Zenon
<1> QED
  BY <1>1, <1>6, Zenon DEF FramesOK, HasReader, n

\* Steps that leave the stack and the pool alone.
LEMMA SameStack ==
  ASSUME TcpInv, UNCHANGED <<stack, pool, leaked>>
  PROVE  /\ Nested(stack, Cardinality(leaked))' /\ LeakedFirst'
         /\ FramesOK(stack', ssl, flights = taken)
         /\ HasReader(stack) => HasReader(stack')
<1>1. stack' = stack /\ pool' = pool /\ leaked' = leaked
  OBVIOUS
<1>2. Nested(stack, Cardinality(leaked))'
  BY <1>1, Zenon DEF TcpInv, Nested, Owned
<1>3. LeakedFirst'
  BY <1>1, Zenon DEF TcpInv, LeakedFirst, Total, Owned
<1>4. FramesOK(stack', ssl, flights = taken) /\ (HasReader(stack) => HasReader(stack'))
  BY <1>1, Zenon DEF TcpInv, HandshakeInv
<1> QED
  BY <1>2, <1>3, <1>4

\* libuv makes a call from the loop.
LEMMA StartStack ==
  ASSUME TcpInv, stack = <<>>, NEW a \in Bottom, a \notin Owners, NEW l \in 0 .. 3,
         stack' = <<Frame(a, l)>>, UNCHANGED <<pool, leaked>>
  PROVE  /\ Nested(stack, Cardinality(leaked))' /\ LeakedFirst'
         /\ ~HasReader(stack)
         /\ (a \in Hands => ssl \in Starting) => FramesOK(stack', ssl, flights = taken)
<1> DEFINE L == Cardinality(leaked)
           f == Frame(a, l)
<1>1. L \in Nat
  BY TcpAssumption DEF TcpInv, LeakedFirst
<1>2. f \in FrameSet /\ f.at = a /\ f.buf = -1
  BY TcpAssumption DEF Frame, FrameSet, Bottom, Locations
<1>3. Nested(stack, L) /\ stack \in Seq(FrameSet) /\ Len(stack) = 0
  BY Zenon, EmptySeq DEF TcpInv, Nested
<1>4. Fits(stack, a)
  BY DEF Fits
<1>5. stack' = Append(stack, f)
  BY DEF Frame
<1> HIDE DEF f
<1>6. Nested(stack', L) /\ Total(stack') = Total(stack) + Own(a)
  <2>1. f.at \notin Owners /\ f.buf = -1
    BY <1>2, Zenon
  <2>2. Fits(stack, f.at)
    BY <1>2, <1>4, Zenon
  <2> HIDE DEF L
  <2>3. Nested(Append(stack, f), L) /\ Total(Append(stack, f)) = Total(stack) + Own(f.at)
    BY <1>1, <1>2, <1>3, <2>1, <2>2, PushPlain, ZenonT(60)
  <2> QED
    BY <1>2, <1>5, <2>3, Zenon
<1>7. Total(stack) = 0 /\ Own(a) = 0
  BY <1>3 DEF Total, Owned, Own
<1>8. LeakedFirst'
  <2>1. Total(stack)' = Total(stack)
    <3>1. Total(stack)' = Total(stack')
      BY Zenon DEF Total, Owned
    <3> QED
      BY <1>6, <1>7, <3>1
  <2> QED
    BY <2>1, Zenon DEF TcpInv, LeakedFirst
<1>9. Nested(stack, Cardinality(leaked))'
  BY <1>6, Zenon DEF Nested, Owned
<1>10. ~HasReader(stack) /\ FramesOK(stack, ssl, flights = taken)
  BY <1>3 DEF HasReader, FramesOK
<1>11. a \notin Reading
  BY DEF Bottom, Reading
<1>12. (a \in Hands => ssl \in Starting) => FramesOK(stack', ssl, flights = taken)
  <2> HAVE a \in Hands => ssl \in Starting
  <2>1. /\ f.at \in Hands => ssl \in Starting
        /\ f.at \in Reading => ssl \in Up
    BY <1>2, <1>11, Zenon
  <2>2. FramesOK(Append(stack, f), ssl, flights = taken)
    BY <1>2, <1>3, <1>10, <2>1, PushFrames, Zenon
  <2> QED
    BY <1>5, <2>2, Zenon
<1> QED
  BY <1>8, <1>9, <1>10, <1>12

\* The parts whose variables a step leaves alone.
LEMMA ScalarsKept ==
  ASSUME TcpInv, UNCHANGED <<netVars, sslVars>>, aborted' \in Reasons
  PROVE  ScalarsOK'
BY DEF TcpInv, ScalarsOK, netVars, sslVars

-------------------------------------------------------------------------------
(* The steps between callbacks. *)
\* The invariant holds of a fresh socket.
LEMMA TcpInitInv == TcpInit => TcpInv
<1> SUFFICES ASSUME TcpInit PROVE TcpInv
  OBVIOUS
<1>1. stack = <<>> /\ leaked = {} /\ pool = BP!buffer_pool_init
  BY DEF TcpInit
<1>2. Cardinality(leaked) = 0 /\ Len(stack) = 0 /\ N \in Nat
  BY <1>1, FS_EmptySet, TcpAssumption
<1>3. Total(stack) = 0
  BY <1>2 DEF Total, Owned
<1>4. Nested(stack, Cardinality(leaked))
  BY <1>1, <1>2, EmptySeq DEF Nested
<1>5. LeakedFirst
  <2>1. pool = [buffers |-> [i \in 0 .. N - 1 |-> i], in_use |-> 0]
    BY <1>1 DEF BP!buffer_pool_init
  <2>2. leaked = 0 .. 0 - 1
    BY <1>1
  <2> QED
    BY <1>2, <1>3, <2>1, <2>2 DEF LeakedFirst
<1>6. closed \in BOOLEAN /\ fresh \in BOOLEAN
  BY Zenon DEF TcpInit
<1>7. ScalarsOK
  BY <1>6, TcpAssumption DEF TcpInit, ScalarsOK, Reasons
<1>8. FramesOK(stack, ssl, flights = taken)
  BY <1>2 DEF FramesOK
<1>9. HandshakeInv
  BY <1>1, <1>8, TcpAssumption DEF TcpInit, HandshakeInv, Starting
<1>10. ReadsInv /\ ExhaustionNeedsLeaks
  BY DEF TcpInit, ReadsInv, ExhaustionNeedsLeaks
<1> QED
  BY <1>4, <1>5, <1>7, <1>9, <1>10 DEF TcpInv

\* mumble_uv_ssl_connect, uv_ssl_dns_cb, uv_ssl_connect_cb and its failures.
LEMMA ConnectingInv == TcpInv /\ (Connect \/ DnsCb \/ ConnectCb) => TcpInv'
<1> SUFFICES ASSUME TcpInv, Connect \/ DnsCb \/ ConnectCb PROVE TcpInv'
  OBVIOUS
<1>1. /\ stack = <<>> /\ aborted = "no" /\ phase \in {"new", "resolving", "connecting"}
      /\ UNCHANGED <<sslVars, wireVars, poolState, pings>>
  BY DEF Connect, DnsCb, ConnectCb, Idle
<1>2. ssl = "init" /\ connects = 0 /\ taken < H /\ flights \in {taken, taken + 1}
  BY <1>1 DEF TcpInv, HandshakeInv, Starting
<1>3. /\ ssl' = "init" /\ connects' = 0 /\ taken' < H /\ flights' \in {taken', taken' + 1}
      /\ ssl' = ssl /\ flights' = flights /\ taken' = taken /\ UNCHANGED <<pool, leaked>>
  BY <1>1, <1>2 DEF sslVars, poolState
<1>4. ReadsInv'
  BY <1>3 DEF ReadsInv
<1>5. /\ phase' \in {"new", "resolving", "connecting", "open", "eof"}
      /\ aborted' \in Reasons \ {"no_buffer"}
  BY <1>1 DEF Connect, DnsCb, ConnectCb, Abort, Reasons
<1>6. ScalarsOK' /\ ExhaustionNeedsLeaks'
  BY <1>1, <1>5 DEF TcpInv, ScalarsOK, ExhaustionNeedsLeaks, sslVars, wireVars
<1>7. CASE stack' = stack
  <2>1. Nested(stack, Cardinality(leaked))' /\ LeakedFirst'
        /\ FramesOK(stack', ssl, flights = taken)
    BY <1>3, <1>7, SameStack
  <2>2. FramesOK(stack, ssl, flights = taken)'
    BY <1>3, <2>1, Zenon DEF FramesOK
  <2>3. HandshakeInv'
    BY <1>1, <1>3, <1>7, <2>2 DEF HandshakeInv, Starting
  <2> QED
    BY <1>4, <1>6, <2>1, <2>3 DEF TcpInv
<1>8. CASE stack' = <<Frame("handshake", 0)>> /\ phase' = "open"
  <2>1. Nested(stack, Cardinality(leaked))' /\ LeakedFirst'
        /\ FramesOK(stack', ssl, flights = taken)
    <3>1. /\ "handshake" \in Bottom /\ "handshake" \notin Owners /\ 0 \in 0 .. 3
          /\ "init" \in Starting
      BY DEF Bottom, Owners, Starting
    <3> QED
      BY <1>1, <1>2, <1>3, <1>8, <3>1, StartStack, Zenon
  <2>2. FramesOK(stack, ssl, flights = taken)'
    BY <1>3, <2>1, Zenon DEF FramesOK
  <2>3. HandshakeInv'
    BY <1>3, <1>8, <2>2 DEF HandshakeInv, Starting
  <2> QED
    BY <1>4, <1>6, <2>1, <2>3 DEF TcpInv
<1> QED
  BY <1>7, <1>8 DEF Connect, DnsCb, ConnectCb

\* What the server does changes nothing of the client.
LEMMA ServerInv == TcpInv /\ (Arrive \/ Close) => TcpInv'
<1> SUFFICES ASSUME TcpInv, Arrive \/ Close PROVE TcpInv'
  OBVIOUS
<1>1. UNCHANGED <<phase, sslVars, poolState, stack, pings, aborted>> /\ phase = "open"
  BY DEF Arrive, Close
<1>2. UNCHANGED <<stack, pool, leaked>> /\ UNCHANGED <<ssl, flights, taken, connects, rcvd, fresh>>
  BY <1>1 DEF poolState, sslVars
<1>3. /\ Nested(stack, Cardinality(leaked))' /\ LeakedFirst'
      /\ FramesOK(stack', ssl, flights = taken)
      /\ HasReader(stack) => HasReader(stack')
  BY <1>2, SameStack
<1>4. closed' \in BOOLEAN /\ arrived' \in arrived .. 2 * Records
  <2>1. closed \in BOOLEAN /\ arrived \in 0 .. 2 * Records /\ Records \in Nat
    BY TcpAssumption DEF TcpInv, ScalarsOK
  <2>2. closed' = closed \/ closed' = TRUE
    BY DEF Arrive, Close
  <2>3. closed' \in BOOLEAN
    BY <2>1, <2>2, Zenon
  <2>4. arrived' = arrived \/ (arrived' = arrived + 1 /\ arrived < 2 * Records)
    BY DEF Arrive, Close
  <2> QED
    BY <2>1, <2>3, <2>4
<1>5. ScalarsOK' /\ ExhaustionNeedsLeaks'
  BY <1>1, <1>2, <1>4 DEF TcpInv, ScalarsOK, ExhaustionNeedsLeaks
<1>6. FramesOK(stack, ssl, flights = taken)'
  BY <1>2, <1>3, Zenon DEF FramesOK
<1>7. HandshakeInv'
  BY <1>1, <1>2, <1>6, Zenon DEF TcpInv, HandshakeInv, top
<1>8. ReadsInv'
  BY <1>1, <1>2, Zenon DEF TcpInv, ReadsInv, complete, HasReader
<1> QED
  BY <1>3, <1>5, <1>7, <1>8 DEF TcpInv

\* libuv finds the socket readable, or the ping timer fires.
LEMMA LoopCallsInv == TcpInv /\ (UvReadable \/ PingTimer) => TcpInv'
<1> SUFFICES ASSUME TcpInv, UvReadable \/ PingTimer PROVE TcpInv'
  OBVIOUS
<1>1. /\ stack = <<>> /\ aborted = "no" /\ aborted' = "no"
      /\ UNCHANGED <<phase, wireVars, sslVars, poolState>>
      /\ stack' = <<Frame("alloc_cb", 0)>> \/ stack' = <<Frame("timer_cb", 1)>>
  BY DEF UvReadable, PingTimer, Idle, netVars, wireVars
<1>2. UNCHANGED <<pool, leaked>> /\ UNCHANGED <<ssl, flights, taken, connects, rcvd, fresh>>
  BY <1>1 DEF poolState, sslVars
<1>3. ssl # "failed" /\ phase \in {"open", "eof"}
  BY <1>1 DEF TcpInv, HandshakeInv, UvReadable, PingTimer, Idle, Starting
<1>4. /\ Nested(stack, Cardinality(leaked))' /\ LeakedFirst'
      /\ ~HasReader(stack)
      /\ FramesOK(stack', ssl, flights = taken)
  <2>1. /\ "alloc_cb" \in Bottom /\ "alloc_cb" \notin Owners /\ "alloc_cb" \notin Hands
        /\ "timer_cb" \in Bottom /\ "timer_cb" \notin Owners /\ "timer_cb" \notin Hands
        /\ 0 \in 0 .. 3 /\ 1 \in 0 .. 3
    BY DEF Bottom, Owners, Hands
  <2>2. UNCHANGED <<pool, leaked>>
    BY <1>2
  <2>3. CASE stack' = <<Frame("alloc_cb", 0)>>
    BY <1>1, <2>1, <2>2, <2>3, StartStack, Zenon
  <2>4. CASE stack' = <<Frame("timer_cb", 1)>>
    BY <1>1, <2>1, <2>2, <2>4, StartStack, Zenon
  <2> QED
    BY <1>1, <2>3, <2>4, Zenon
<1>5. pings' \in 0 .. MaxPings
  BY TcpAssumption DEF UvReadable, PingTimer, netVars, TcpInv, ScalarsOK
<1>6. ScalarsOK' /\ ExhaustionNeedsLeaks'
  BY <1>1, <1>2, <1>5 DEF TcpInv, ScalarsOK, ExhaustionNeedsLeaks, wireVars
<1>7. FramesOK(stack, ssl, flights = taken)'
  BY <1>2, <1>4, Zenon DEF FramesOK
<1>8. HandshakeInv'
  BY <1>1, <1>2, <1>3, <1>7 DEF TcpInv, HandshakeInv
<1>9. ReadsInv'
  <2>1. HasReader(stack) => HasReader(stack')
    BY <1>4
  <2> QED
    BY <1>1, <1>2, <2>1, ReadsKept, Zenon
<1> QED
  BY <1>4, <1>6, <1>8, <1>9 DEF TcpInv

-------------------------------------------------------------------------------
(* The steps inside a callback. *)

\* uv_ssl_read_cb with data.
LEMMA ReadCbDataInv == TcpInv /\ ReadCbData => TcpInv'
<1> SUFFICES ASSUME TcpInv, ReadCbData PROVE TcpInv'
  OBVIOUS
<1> DEFINE n == Min2(Cap, arrived - rcvd)
           l == IF n = Cap THEN 1 ELSE 0
           f == [top EXCEPT !.at = "written", !.left = l]
           g == uv_ssl_rbio_cb
<1>1. /\ stack # <<>> /\ aborted = "no" /\ top.at = "recv" /\ arrived > rcvd
      /\ rcvd' = rcvd + n /\ stack' = Call(f, g)
      /\ UNCHANGED <<netVars, ssl, flights, taken, connects, fresh, poolState, aborted>>
  BY DEF ReadCbData, At
<1>2. top \in FrameSet /\ Fits(callers, top.at)
  BY <1>1, TopOfStack, Zenon
<1>3. MaxWrites \in Nat /\ Cap \in Nat /\ arrived \in Nat /\ rcvd \in 0 .. arrived
  BY TcpAssumption DEF TcpInv, ScalarsOK
<1>4. rcvd' \in 0 .. arrived
  BY <1>1, <1>3 DEF Min2
<1>5. f \in FrameSet /\ f.at = "written" /\ f.buf = top.buf
  <2>1. l \in 0 .. 3 + MaxWrites
    <3> HIDE DEF n
    <3> QED
      BY <1>3
  <2> HIDE DEF l
  <2> QED
    BY <1>2, <2>1 DEF FrameSet, Locations
<1>6. ssl \in Starting \cup Up
  BY <1>1 DEF TcpInv, HandshakeInv, ScalarsOK, Starting, Up
<1>7. /\ g \in FrameSet /\ g.buf = -1
      /\ \/ g.at = "do_read" /\ ssl \in Up
         \/ g.at = "handshake" /\ ssl \in Starting
  BY <1>3, <1>6 DEF uv_ssl_rbio_cb, Frame, FrameSet, Locations, Starting, Up
<1> HIDE DEF f, g
<1>8. Fits(callers, "written")
  BY <1>1, <1>2 DEF Fits, Bottom, Over, Passing, Writing
<1>9. /\ Over(f.at, g.at) /\ g.at \notin Owners /\ f.at \in Owners /\ top.at \in Owners
      /\ f.at \notin Hands /\ f.at # "handshake" /\ f.at \notin Reading
      /\ g.at \in Hands => ssl \in Starting
      /\ g.at \in Reading <=> ssl \in Up
      /\ ssl = "ok" => ssl \in Up
  BY <1>1, <1>5, <1>7 DEF Over, Passing, Owners, Hands, Reading, Starting, Up
<1>10. /\ FramesOK(callers, ssl, flights = taken)
       /\ callers # <<>> /\ callers[Len(callers)].at = "handshake" => ssl = "init" /\ flights = taken
  BY <1>1, TopFrames, Zenon
<1>11. pool' = pool /\ leaked' = leaked
  BY <1>1 DEF poolState
<1>12. /\ Nested(stack, Cardinality(leaked))' /\ LeakedFirst'
       /\ HasReader(stack') <=> HasReader(callers) \/ f.at \in Reading \/ g.at \in Reading
       /\ FramesOK(stack', ssl, flights = taken)
  BY <1>1, <1>5, <1>7, <1>8, <1>9, <1>10, <1>11, CallStack, Zenon
<1>13. HandshakeInv'
  <2>1. top.at # "connect_cb" /\ phase' = phase
    BY <1>1 DEF netVars
  <2> QED
    BY <1>1, <1>12, <2>1, HandshakeKept, Zenon
<1>14. ReadsInv'
  <2>1. HasReader(stack)' <=> HasReader(stack')
    BY Zenon DEF HasReader
  <2> QED
    BY <1>1, <1>9, <1>12, <2>1 DEF ReadsInv
<1>15. ScalarsOK' /\ ExhaustionNeedsLeaks'
  BY <1>1, <1>4 DEF TcpInv, ScalarsOK, ExhaustionNeedsLeaks, netVars
<1> QED
  BY <1>12, <1>13, <1>14, <1>15 DEF TcpInv

\* uv_ssl_read_cb without data: it is the only active call, so the buffer it
\* leaks is the next one behind those leaked before.
LEMMA ReadCbNothingInv == TcpInv /\ ReadCbNothing => TcpInv'
<1> SUFFICES ASSUME TcpInv, ReadCbNothing PROVE TcpInv'
  OBVIOUS
<1> DEFINE L == Cardinality(leaked)
<1>1. /\ stack # <<>> /\ aborted = "no" /\ top.at = "recv" /\ stack' = callers
      /\ leaked' = leaked \cup {top.buf} /\ pool' = pool
      /\ phase' = phase \/ phase' = "eof"
      /\ UNCHANGED <<wireVars, sslVars, pings, aborted>>
  BY DEF ReadCbNothing, At, LeakTop
<1>2. /\ L \in Nat /\ Nested(callers, L) /\ callers \in Seq(FrameSet) /\ Fits(callers, top.at)
      /\ top.buf = IF top.at \in Owners THEN L + Total(callers) ELSE -1
      /\ Total(stack) = Total(callers) + Own(top.at)
  BY <1>1, TopOfStack, Zenon
<1>3. callers = <<>>
  BY <1>1, <1>2 DEF Fits, Over, Passing, Writing
<1>4. Total(callers) = 0 /\ top.at \in Owners /\ Own(top.at) = 1
  BY <1>1, <1>3 DEF Total, Owned, Owners, Own
<1>5. top.buf = L /\ Total(stack) = 1
  BY <1>2, <1>4
<1>6. leaked = 0 .. L - 1
  BY DEF TcpInv, LeakedFirst
<1>7. pool = [buffers |-> [i \in 0 .. N - 1 |-> i], in_use |-> L + 1] /\ L + 1 \in 0 .. N
  BY <1>5, PoolNow
<1> HIDE DEF L
<1>8. leaked' = 0 .. L
  BY <1>1, <1>2, <1>5, <1>6
<1>9. Cardinality(leaked') = L + 1
  BY <1>2, <1>8, FS_Interval
<1>10. stack' = <<>> /\ Len(stack') = 0
  BY <1>1, <1>3
<1>11. Total(stack)' = 0
  BY <1>10 DEF Total, Owned
<1>12. LeakedFirst'
  <2>1. pool'.in_use = L + 1
    BY <1>1, <1>7
  <2>2. leaked' = 0 .. Cardinality(leaked') - 1
    BY <1>2, <1>8, <1>9
  <2>3. Cardinality(leaked') + Total(stack)' = L + 1
    BY <1>2, <1>9, <1>11
  <2>4. pool' = [buffers |-> [i \in 0 .. N - 1 |-> i], in_use |-> Cardinality(leaked') + Total(stack)']
    BY <1>1, <1>7, <2>3, Zenon
  <2> QED
    BY <1>7, <1>9, <2>1, <2>2, <2>4, Zenon DEF LeakedFirst
<1>13. Nested(stack, Cardinality(leaked))'
  BY <1>10, EmptySeq DEF Nested
<1>14. FramesOK(stack', ssl, flights = taken)
  BY <1>10 DEF FramesOK
<1>15. HasReader(stack) => HasReader(stack')
  <2>1. top.at \notin Reading
    BY <1>1 DEF Reading
  <2> QED
    BY <1>1, <2>1, TopFrames, Zenon
<1>16. HandshakeInv' /\ ReadsInv'
  <2>1. /\ top.at # "connect_cb"
        /\ UNCHANGED <<ssl, flights, taken, connects>> /\ UNCHANGED <<ssl, rcvd, taken, fresh>>
    BY <1>1 DEF sslVars
  <2> QED
    BY <1>1, <1>14, <1>15, <2>1, HandshakeKept, ReadsKept, Zenon
<1>17. ScalarsOK' /\ ExhaustionNeedsLeaks'
  BY <1>1 DEF TcpInv, ScalarsOK, ExhaustionNeedsLeaks, wireVars, sslVars
<1> QED
  BY <1>12, <1>13, <1>16, <1>17 DEF TcpInv

\* The tail of uv_ssl_read_cb.
LEMMA ReadCbReturnInv == TcpInv /\ ReadCbReturn => TcpInv'
<1> SUFFICES ASSUME TcpInv, ReadCbReturn PROVE TcpInv'
  OBVIOUS
<1> DEFINE f == Frame("alloc_cb", 0)
<1>1. /\ stack # <<>> /\ aborted = "no" /\ top.at = "written"
      /\ pool' = BP!buffer_pool_release(pool, top.buf) /\ leaked' = leaked
      /\ stack' = Replace(f) \/ stack' = callers
      /\ UNCHANGED <<netVars, sslVars>> /\ aborted' = "no"
  BY DEF ReadCbReturn, At, ReleaseTop
<1>2. top.at \in Owners /\ top.at \notin Reading /\ top.at # "connect_cb"
  BY <1>1 DEF Owners, Reading
<1>3. f \in FrameSet /\ f.at = "alloc_cb" /\ f.buf = -1
  BY TcpAssumption DEF Frame, FrameSet, Locations
<1> HIDE DEF f
<1>4. f.at \notin Owners /\ f.at \notin Hands /\ f.at \notin Reading
  BY <1>3 DEF Owners, Hands, Reading
<1>5. Fits(callers, f.at)
  <2>1. Fits(callers, "written")
    BY <1>1, TopOfStack, Zenon
  <2> QED
    BY <1>3, <2>1 DEF Fits, Bottom, Over, Passing, Writing
<1>6. /\ Nested(stack, Cardinality(leaked))' /\ LeakedFirst'
      /\ FramesOK(stack', ssl, flights = taken)
      /\ HasReader(stack) => HasReader(stack')
  <2>1. /\ FramesOK(callers, ssl, flights = taken)
        /\ callers # <<>> /\ callers[Len(callers)].at = "handshake" => ssl = "init" /\ flights = taken
        /\ HasReader(stack) <=> HasReader(callers) \/ top.at \in Reading
    BY <1>1, TopFrames, Zenon
  <2>2. CASE stack' = callers
    BY <1>1, <1>2, <2>2, ReturnStack, Zenon
  <2>3. CASE stack' = Replace(f)
    BY <1>1, <1>2, <1>3, <1>4, <1>5, <2>1, <2>3, ReplaceStack, Zenon
  <2> QED
    BY <1>1, <2>2, <2>3
<1>7. HandshakeInv' /\ ReadsInv'
  <2>1. /\ phase' = phase
        /\ UNCHANGED <<ssl, flights, taken, connects>> /\ UNCHANGED <<ssl, rcvd, taken, fresh>>
    BY <1>1 DEF netVars, sslVars
  <2> QED
    BY <1>1, <1>2, <1>6, <2>1, HandshakeKept, ReadsKept, Zenon
<1>8. ScalarsOK' /\ ExhaustionNeedsLeaks'
  BY <1>1, ScalarsKept DEF ExhaustionNeedsLeaks, Reasons
<1> QED
  BY <1>6, <1>7, <1>8 DEF TcpInv

\* SSL_do_handshake sends a flight.
LEMMA HandshakeFlightInv == TcpInv /\ HandshakeFlight => TcpInv'
<1> SUFFICES ASSUME TcpInv, HandshakeFlight PROVE TcpInv'
  OBVIOUS
<1> DEFINE g == Frame("wbio_cb", 0)
<1>1. /\ stack # <<>> /\ aborted = "no" /\ top.at = "handshake" /\ ssl = "init" /\ flights = taken
      /\ stack' = Call(top, g) /\ pool' = pool /\ leaked' = leaked
      /\ UNCHANGED <<netVars, sslVars>> /\ aborted' = "no"
  BY DEF HandshakeFlight, At, poolState
<1>2. top \in FrameSet /\ Fits(callers, top.at)
  BY <1>1, TopOfStack, Zenon
<1>3. g \in FrameSet /\ g.at = "wbio_cb" /\ g.buf = -1
  BY TcpAssumption DEF Frame, FrameSet, Locations
<1> HIDE DEF g
<1>4. /\ Over(top.at, g.at) /\ g.at \notin Owners
      /\ g.at \notin Hands /\ g.at \notin Reading /\ top.at \notin Reading /\ ssl \in Starting
  BY <1>1, <1>3 DEF Over, Writers, Writing, Owners, Hands, Reading, Starting
<1>5. /\ FramesOK(callers, ssl, flights = taken)
      /\ HasReader(stack) <=> HasReader(callers) \/ top.at \in Reading
  BY <1>1, TopFrames, Zenon
<1>6. /\ Nested(stack, Cardinality(leaked))' /\ LeakedFirst'
      /\ FramesOK(stack', ssl, flights = taken)
      /\ HasReader(stack) => HasReader(stack')
  BY <1>1, <1>2, <1>3, <1>4, <1>5, CallStack, Zenon
<1>7. HandshakeInv' /\ ReadsInv'
  <2>1. /\ phase' = phase /\ top.at # "connect_cb"
        /\ UNCHANGED <<ssl, flights, taken, connects>> /\ UNCHANGED <<ssl, rcvd, taken, fresh>>
    BY <1>1 DEF netVars, sslVars
  <2> QED
    BY <1>1, <1>6, <2>1, HandshakeKept, ReadsKept, Zenon
<1>8. ScalarsOK' /\ ExhaustionNeedsLeaks'
  BY <1>1, ScalarsKept DEF ExhaustionNeedsLeaks, Reasons
<1> QED
  BY <1>6, <1>7, <1>8 DEF TcpInv

\* The records of the handshake are among those received.
LEMMA RecordsLeft ==
  ASSUME TcpInv, complete > taken
  PROVE  taken + 1 \in 0 .. Records
<1>1. /\ taken \in 0 .. Records /\ arrived \in 0 .. 2 * Records /\ rcvd \in 0 .. arrived
      /\ Records \in Nat
  BY TcpAssumption DEF TcpInv, ScalarsOK
<1>2. complete = rcvd \div 2
  BY DEF complete
<1>3. rcvd \div 2 <= Records
  BY <1>1
<1> QED
  BY <1>1, <1>2, <1>3

\* A record of the handshake; the last one ends it.
LEMMA HandshakeRecordInv == TcpInv /\ HandshakeRecord => TcpInv'
<1> SUFFICES ASSUME TcpInv, HandshakeRecord PROVE TcpInv'
  OBVIOUS
<1> DEFINE f == Frame("connect_cb", 3)
<1>1. /\ stack # <<>> /\ aborted = "no" /\ top.at = "handshake" /\ ssl = "init"
      /\ flights > taken /\ complete > taken /\ taken' = taken + 1
      /\ pool' = pool /\ leaked' = leaked /\ aborted' = "no"
      /\ UNCHANGED <<netVars, flights, rcvd>>
  BY DEF HandshakeRecord, At, poolState
<1>2. /\ H \in Nat /\ taken \in Nat /\ flights \in Nat /\ flights = taken + 1
      /\ connects = 0 /\ phase \in {"open", "eof"}
      /\ taken' \in 0 .. Records /\ taken < H
  <2>1. taken \in 0 .. Records /\ flights \in 0 .. H /\ H \in Nat
    BY TcpAssumption DEF TcpInv, ScalarsOK
  <2>2. connects = 0 /\ taken < H /\ flights \in {taken, taken + 1} /\ phase \in {"open", "eof"}
    BY <1>1 DEF TcpInv, HandshakeInv, Starting
  <2> QED
    BY <1>1, <2>1, <2>2, RecordsLeft
<1>3. Nested(stack, Cardinality(leaked)) /\ Cardinality(leaked) \in Nat
      /\ Fits(callers, top.at)
  BY <1>1, TopOfStack, Zenon
<1>4. CASE taken + 1 < H
  <2>1. UNCHANGED <<ssl, connects, fresh, stack>>
    BY <1>4 DEF HandshakeRecord
  <2>2. Nested(stack, Cardinality(leaked))' /\ LeakedFirst'
    <3>1. UNCHANGED <<stack, pool, leaked>>
      BY <1>1, <2>1
    <3> QED
      BY <3>1, SameStack, Zenon
  <2>3. FramesOK(stack, "init", flights' = taken')
    BY <1>1, <1>3, HandshakeAlone, Zenon DEF top
  <2>4. FramesOK(stack, ssl, flights = taken)'
    BY <1>1, <2>1, <2>3, Zenon DEF FramesOK
  <2>5. HandshakeInv'
    BY <1>1, <1>2, <1>4, <2>1, <2>4 DEF HandshakeInv, netVars, Starting
  <2>6. ReadsInv'
    BY <1>1, <2>1 DEF ReadsInv
  <2>7. ScalarsOK' /\ ExhaustionNeedsLeaks'
    BY <1>1, <1>2, <2>1 DEF TcpInv, ScalarsOK, ExhaustionNeedsLeaks, netVars
  <2> QED
    BY <2>2, <2>5, <2>6, <2>7 DEF TcpInv
<1>5. CASE ~ (taken + 1 < H)
  <2>1. ssl' = "ok" /\ connects' = connects + 1 /\ fresh' = TRUE /\ stack' = Replace(f)
    BY <1>5 DEF HandshakeRecord
  <2>2. f \in FrameSet /\ f.at = "connect_cb" /\ f.buf = -1
    BY TcpAssumption DEF Frame, FrameSet, Locations
  <2> HIDE DEF f
  <2>3. /\ f.at \notin Owners /\ f.at \notin Hands /\ f.at \notin Reading
        /\ top.at \notin Owners /\ top.at \in Passing
    BY <1>1, <2>2 DEF Owners, Hands, Reading, Passing
  <2>4. Fits(callers, f.at) /\ f.buf = top.buf
    <3>1. top.buf = -1
      BY <1>1, <2>3, TopOfStack, Zenon
    <3>2. Fits(callers, f.at)
      BY <1>1, <1>3, <2>2 DEF Fits, Bottom, Over, Passing, Writing
    <3> QED
      BY <2>2, <3>1, <3>2
  <2>5. /\ FramesOK(callers, "ok", flights' = taken')
        /\ callers # <<>> => callers[Len(callers)].at = "written"
    BY <1>1, <2>3, TopFrames, Zenon
  <2>6. /\ Nested(stack, Cardinality(leaked))' /\ LeakedFirst'
        /\ FramesOK(stack', "ok", flights' = taken')
    <3>1. "written" # "handshake"
      OBVIOUS
    <3>2. /\ Nested(stack, Cardinality(leaked))' /\ LeakedFirst'
          /\ \A x, waits :
              /\ FramesOK(callers, x, waits)
              /\ f.at \in Hands => x \in Starting
              /\ f.at \in Reading => x \in Up
              /\ callers # <<>> /\ callers[Len(callers)].at = "handshake" => x = "init" /\ waits
              => FramesOK(stack', x, waits)
      BY <1>1, <2>1, <2>2, <2>3, <2>4, ReplaceStack, Zenon
    <3> QED
      BY <2>3, <2>5, <3>1, <3>2, Zenon
  <2>7. FramesOK(stack, ssl, flights = taken)'
    BY <2>1, <2>6, Zenon DEF FramesOK
  <2>8. HandshakeInv'
    BY <1>1, <1>2, <2>1, <2>7 DEF HandshakeInv, netVars, Starting
  <2>9. ReadsInv'
    BY <2>1 DEF ReadsInv
  <2>10. fresh' \in BOOLEAN
    BY <2>1, Zenon
  <2>11. ScalarsOK' /\ ExhaustionNeedsLeaks'
    BY <1>1, <1>2, <2>1, <2>10 DEF TcpInv, ScalarsOK, ExhaustionNeedsLeaks, netVars
  <2> QED
    BY <2>6, <2>8, <2>9, <2>11 DEF TcpInv
<1> QED
  BY <1>4, <1>5

\* The handshake fails: the connect callback is told so.
LEMMA HandshakeFailedInv == TcpInv /\ HandshakeFailed => TcpInv'
<1> SUFFICES ASSUME TcpInv, HandshakeFailed PROVE TcpInv'
  OBVIOUS
<1> DEFINE f == Frame("connect_cb", 3)
<1>1. /\ stack # <<>> /\ aborted = "no" /\ top.at \in Hands
      /\ ssl' = "failed" /\ connects' = connects + 1 /\ stack' = Replace(f)
      /\ pool' = pool /\ leaked' = leaked /\ aborted' = "no"
      /\ UNCHANGED <<netVars, flights, rcvd, taken, fresh>>
  BY DEF HandshakeFailed, At, poolState, Hands
<1>2. connects = 0 /\ phase \in {"open", "eof"}
  <2>1. ssl \in Starting
    BY <1>1, TopFrames, Zenon
  <2> QED
    BY <1>1, <2>1 DEF TcpInv, HandshakeInv
<1>3. f \in FrameSet /\ f.at = "connect_cb" /\ f.buf = -1 /\ f.left = 3
  BY TcpAssumption DEF Frame, FrameSet, Locations
<1> HIDE DEF f
<1>4. /\ f.at \notin Owners /\ f.at \notin Hands /\ f.at \notin Reading
      /\ top.at \notin Owners /\ top.at \in Passing
  BY <1>1, <1>3 DEF Owners, Hands, Reading, Passing
<1>5. Fits(callers, f.at) /\ f.buf = top.buf
  <2>1. top.buf = -1 /\ Fits(callers, top.at)
    BY <1>1, <1>4, TopOfStack, Zenon
  <2>2. Fits(callers, f.at)
    BY <1>1, <1>3, <2>1 DEF Fits, Bottom, Hands, Over, Passing, Writing
  <2> QED
    BY <1>3, <2>1, <2>2
<1>6. /\ Nested(stack, Cardinality(leaked))' /\ LeakedFirst'
      /\ stack' # <<>> /\ stack'[Len(stack')] = f
      /\ FramesOK(stack', "failed", flights' = taken')
  <2>1. /\ FramesOK(callers, "failed", flights' = taken')
        /\ callers # <<>> => callers[Len(callers)].at = "written"
    BY <1>1, <1>4, TopFrames, Zenon
  <2>2. "written" # "handshake"
    OBVIOUS
  <2>3. /\ Nested(stack, Cardinality(leaked))' /\ LeakedFirst'
        /\ stack' # <<>> /\ stack'[Len(stack')] = f
        /\ \A x, waits :
              /\ FramesOK(callers, x, waits)
              /\ f.at \in Hands => x \in Starting
              /\ f.at \in Reading => x \in Up
              /\ callers # <<>> /\ callers[Len(callers)].at = "handshake" => x = "init" /\ waits
              => FramesOK(stack', x, waits)
    BY <1>1, <1>3, <1>4, <1>5, ReplaceStack, Zenon
  <2> QED
    BY <1>4, <2>1, <2>2, <2>3, Zenon
<1>7. FramesOK(stack, ssl, flights = taken)'
  BY <1>1, <1>6, Zenon DEF FramesOK
<1>8. top' = f
  BY <1>6, Zenon DEF top
<1>9. HandshakeInv'
  BY <1>1, <1>2, <1>3, <1>6, <1>7, <1>8 DEF HandshakeInv, netVars, Starting
<1>10. ReadsInv'
  BY <1>1 DEF ReadsInv
<1>11. ScalarsOK' /\ ExhaustionNeedsLeaks'
  BY <1>1, <1>2 DEF TcpInv, ScalarsOK, ExhaustionNeedsLeaks, netVars
<1> QED
  BY <1>6, <1>9, <1>10, <1>11 DEF TcpInv

\* A call without a buffer returns: the handshake wants more data, or a callback
\* is through.
LEMMA PlainReturnInv == TcpInv /\ (HandshakeWantRead \/ CallbackReturn) => TcpInv'
<1> SUFFICES ASSUME TcpInv, HandshakeWantRead \/ CallbackReturn PROVE TcpInv'
  OBVIOUS
<1>1. /\ stack # <<>> /\ aborted = "no" /\ stack' = callers
      /\ top.at = "handshake" \/ (top.at \in {"connect_cb", "timer_cb"} /\ top.left = 0)
      /\ pool' = pool /\ leaked' = leaked /\ aborted' = "no"
      /\ UNCHANGED <<netVars, sslVars>>
  BY DEF HandshakeWantRead, CallbackReturn, At, poolState
<1>2. /\ top.at \notin Owners /\ top.at \notin Reading
      /\ ~(top.at = "connect_cb" /\ top.left > 0)
  BY <1>1 DEF Owners, Reading
<1>3. /\ Nested(stack, Cardinality(leaked))' /\ LeakedFirst'
      /\ FramesOK(stack', ssl, flights = taken)
      /\ HasReader(stack) => HasReader(stack')
  BY <1>1, <1>2, ReturnStack, Zenon
<1>4. HandshakeInv' /\ ReadsInv'
  <2>1. /\ phase' = phase
        /\ UNCHANGED <<ssl, flights, taken, connects>> /\ UNCHANGED <<ssl, rcvd, taken, fresh>>
    BY <1>1 DEF netVars, sslVars
  <2> QED
    BY <1>1, <1>2, <1>3, <2>1, HandshakeKept, ReadsKept, Zenon
<1>5. ScalarsOK' /\ ExhaustionNeedsLeaks'
  BY <1>1, ScalarsKept DEF ExhaustionNeedsLeaks, Reasons
<1> QED
  BY <1>3, <1>4, <1>5 DEF TcpInv

\* SSL_read delivers a record.
LEMMA SslReadDataInv == TcpInv /\ SslReadData => TcpInv'
<1> SUFFICES ASSUME TcpInv, SslReadData PROVE TcpInv'
  OBVIOUS
<1>1. PICK w \in 0 .. MaxWrites : stack' = Replace([top EXCEPT !.at = "data_cb", !.left = w])
  BY DEF SslReadData
<1> DEFINE f == [top EXCEPT !.at = "data_cb", !.left = w]
<1>2. /\ stack # <<>> /\ aborted = "no" /\ top.at = "ssl_read" /\ ssl = "ok" /\ complete > taken
      /\ taken' = taken + 1 /\ fresh' = FALSE /\ stack' = Replace(f)
      /\ pool' = pool /\ leaked' = leaked /\ aborted' = "no"
      /\ UNCHANGED <<netVars, ssl, flights, rcvd, connects>>
  BY <1>1 DEF SslReadData, At, poolState
<1>3. top \in FrameSet /\ Fits(callers, "ssl_read")
  BY <1>2, TopOfStack, Zenon
<1>4. f \in FrameSet /\ f.at = "data_cb" /\ f.buf = top.buf
  <2>1. w \in 0 .. 3 + MaxWrites
    BY TcpAssumption
  <2> QED
    BY <1>3, <2>1 DEF FrameSet, Locations
<1> HIDE DEF f
<1>5. /\ f.at \in Owners /\ f.at \notin Hands /\ f.at \in Reading
      /\ top.at \in Owners /\ top.at \in Passing /\ top.at \in Reading
      /\ "ok" \in Up
  BY <1>2, <1>4 DEF Owners, Hands, Reading, Passing, Up
<1>6. Fits(callers, f.at)
  BY <1>3, <1>4 DEF Fits, Bottom, Over, Passing, Writing
<1>7. /\ ssl = "ok" /\ FramesOK(callers, "ok", flights' = taken')
      /\ callers # <<>> => callers[Len(callers)].at = "written"
  BY <1>2, <1>5, TopFrames, Zenon
<1>8. /\ Nested(stack, Cardinality(leaked))' /\ LeakedFirst'
      /\ HasReader(stack')
      /\ FramesOK(stack', "ok", flights' = taken')
  <2>1. "written" # "handshake"
    OBVIOUS
  <2>2. /\ Nested(stack, Cardinality(leaked))' /\ LeakedFirst'
        /\ HasReader(stack') <=> HasReader(callers) \/ f.at \in Reading
        /\ \A x, waits :
              /\ FramesOK(callers, x, waits)
              /\ f.at \in Hands => x \in Starting
              /\ f.at \in Reading => x \in Up
              /\ callers # <<>> /\ callers[Len(callers)].at = "handshake" => x = "init" /\ waits
              => FramesOK(stack', x, waits)
    BY <1>2, <1>4, <1>5, <1>6, ReplaceStack, Zenon
  <2> QED
    BY <1>5, <1>7, <2>1, <2>2, Zenon
<1>9. FramesOK(stack, ssl, flights = taken)' /\ HasReader(stack)'
  BY <1>2, <1>7, <1>8, Zenon DEF FramesOK, HasReader
<1>10. phase \in {"open", "eof"}
  BY <1>2 DEF TcpInv, HandshakeInv
<1>11. HandshakeInv'
  BY <1>2, <1>7, <1>9, <1>10 DEF TcpInv, HandshakeInv, netVars
<1>12. ReadsInv'
  BY <1>9, Zenon DEF ReadsInv
<1>13. fresh' \in BOOLEAN /\ taken' \in 0 .. Records
  <2>1. fresh' \in BOOLEAN
    BY <1>2, Zenon
  <2> QED
    BY <1>2, <2>1, RecordsLeft
<1>14. ScalarsOK' /\ ExhaustionNeedsLeaks'
  BY <1>2, <1>13 DEF TcpInv, ScalarsOK, ExhaustionNeedsLeaks, netVars
<1> QED
  BY <1>8, <1>11, <1>12, <1>14 DEF TcpInv

\* SSL_read has nothing more, or never will: uv_ssl_read ends with nothing complete
\* left in a session that goes on.
LEMMA SslReadWantReadInv == TcpInv /\ SslReadWantRead => TcpInv'
<1> SUFFICES ASSUME TcpInv, SslReadWantRead PROVE TcpInv'
  OBVIOUS
<1>1. /\ stack # <<>> /\ aborted = "no" /\ top.at = "ssl_read"
      /\ ssl = "ok" => complete <= taken
      /\ fresh' = FALSE /\ stack' = callers
      /\ pool' = BP!buffer_pool_release(pool, top.buf) /\ leaked' = leaked /\ aborted' = "no"
      /\ UNCHANGED <<netVars, ssl, flights, rcvd, taken, connects>>
  BY DEF SslReadWantRead, At, ReleaseTop
<1>2. top.at \in Owners /\ top.at # "connect_cb"
  BY <1>1 DEF Owners
<1>3. /\ Nested(stack, Cardinality(leaked))' /\ LeakedFirst'
      /\ FramesOK(stack', ssl, flights = taken)
  BY <1>1, <1>2, ReturnStack, Zenon
<1>4. HandshakeInv'
  <2>1. phase' = phase /\ UNCHANGED <<ssl, flights, taken, connects>>
    BY <1>1 DEF netVars
  <2> QED
    BY <1>1, <1>2, <1>3, <2>1, HandshakeKept, Zenon
<1>5. ReadsInv'
  <2>1. complete' = complete /\ taken' = taken
    BY <1>1, Zenon DEF complete
  <2>2. complete \in Int /\ taken \in Int
    BY DEF TcpInv, ScalarsOK, complete
  <2>3. ssl = "ok" => ~(complete' > taken')
    BY <1>1, <2>1, <2>2
  <2>4. ssl' = ssl
    BY <1>1
  <2> QED
    BY <2>3, <2>4, Zenon DEF ReadsInv
<1>6. fresh' \in BOOLEAN
  BY <1>1, Zenon
<1>7. ScalarsOK' /\ ExhaustionNeedsLeaks'
  BY <1>1, <1>6 DEF TcpInv, ScalarsOK, ExhaustionNeedsLeaks, netVars
<1> QED
  BY <1>3, <1>4, <1>5, <1>7 DEF TcpInv

\* OpenSSL refuses a record, in the handshake or in SSL_read, and writes an alert.
LEMMA AlertInv == TcpInv /\ (HandshakeAlert \/ SslReadAlert) => TcpInv'
<1> SUFFICES ASSUME TcpInv, HandshakeAlert \/ SslReadAlert PROVE TcpInv'
  OBVIOUS
<1> DEFINE f(a) == [top EXCEPT !.at = a]
           g == Frame("wbio_cb", 0)
<1>1. PICK a \in {"refused", "alerted"} :
        /\ stack # <<>> /\ aborted = "no" /\ stack' = Call(f(a), g)
        /\ a = "refused" => top.at = "handshake"
        /\ a = "alerted" => top.at = "ssl_read"
        /\ pool' = pool /\ leaked' = leaked
        /\ UNCHANGED <<netVars, sslVars>> /\ aborted' = "no"
  BY DEF HandshakeAlert, SslReadAlert, At, poolState
<1>2. top \in FrameSet /\ Fits(callers, top.at)
  BY <1>1, TopOfStack, Zenon
<1>3. f(a) \in FrameSet /\ f(a).at = a /\ f(a).buf = top.buf
  BY <1>2 DEF FrameSet, Locations
<1>4. g \in FrameSet /\ g.at = "wbio_cb" /\ g.buf = -1
  BY TcpAssumption DEF Frame, FrameSet, Locations
<1> HIDE DEF f, g
<1>5. /\ Over(f(a).at, g.at) /\ g.at \notin Owners /\ g.at \notin Hands /\ g.at \notin Reading
      /\ f(a).at \in Owners <=> top.at \in Owners
      /\ f(a).at \in Hands <=> top.at \in Hands
      /\ f(a).at \in Reading <=> top.at \in Reading
      /\ f(a).at # "handshake" /\ top.at # "connect_cb"
  BY <1>1, <1>3, <1>4 DEF Over, Writers, Writing, Owners, Hands, Reading
<1>6. Fits(callers, f(a).at)
  BY <1>1, <1>2, <1>3 DEF Fits, Bottom, Over, Passing, Writing
<1>7. /\ FramesOK(callers, ssl, flights = taken)
      /\ callers # <<>> /\ callers[Len(callers)].at = "handshake" => ssl = "init" /\ flights = taken
      /\ HasReader(stack) <=> HasReader(callers) \/ top.at \in Reading
      /\ top.at \in Hands => ssl \in Starting
      /\ top.at \in Reading => ssl \in Up
  BY <1>1, TopFrames, Zenon
<1>8. /\ Nested(stack, Cardinality(leaked))' /\ LeakedFirst'
      /\ FramesOK(stack', ssl, flights = taken)
      /\ HasReader(stack) => HasReader(stack')
  BY <1>1, <1>3, <1>4, <1>5, <1>6, <1>7, CallStack, Zenon
<1>9. HandshakeInv' /\ ReadsInv'
  <2>1. /\ phase' = phase
        /\ UNCHANGED <<ssl, flights, taken, connects>> /\ UNCHANGED <<ssl, rcvd, taken, fresh>>
    BY <1>1 DEF netVars, sslVars
  <2> QED
    BY <1>1, <1>5, <1>8, <2>1, HandshakeKept, ReadsKept, Zenon
<1>10. ScalarsOK' /\ ExhaustionNeedsLeaks'
  BY <1>1, ScalarsKept DEF ExhaustionNeedsLeaks, Reasons
<1> QED
  BY <1>8, <1>9, <1>10 DEF TcpInv

\* The session ends, inside the handshake or later: nothing is read from it again,
\* and nobody is called.
LEMMA SessionOverInv == TcpInv /\ (HandshakeEnded \/ SslReadEnd) => TcpInv'
<1> SUFFICES ASSUME TcpInv, HandshakeEnded \/ SslReadEnd PROVE TcpInv'
  OBVIOUS
<1>1. /\ stack # <<>> /\ aborted = "no" /\ stack' = callers
      /\ \/ top.at = "handshake" /\ ssl' = "ended" /\ pool' = pool
         \/ /\ top.at \in {"ssl_read", "alerted"} /\ ssl' \in {"shut", "broken"}
            /\ pool' = BP!buffer_pool_release(pool, top.buf)
      /\ leaked' = leaked /\ aborted' = "no" /\ fresh' \in {fresh, FALSE}
      /\ UNCHANGED <<netVars, flights, rcvd, taken, connects>>
  BY DEF HandshakeEnded, SslReadEnd, At, ReleaseTop, poolState
<1>2. /\ top.at = "handshake" => top.at \in Hands /\ top.at \notin Owners
      /\ top.at \in {"ssl_read", "alerted"} => top.at \in Reading /\ top.at \in Owners
      /\ top.at \in Passing
  BY <1>1 DEF Hands, Reading, Owners, Passing
<1>3. pool' = IF top.at \in Owners THEN BP!buffer_pool_release(pool, top.buf) ELSE pool
  BY <1>1, <1>2, Zenon
<1>4. Nested(stack, Cardinality(leaked))' /\ LeakedFirst'
  BY <1>1, <1>3, ReturnStack, Zenon
<1>5. FramesOK(stack', ssl', flights' = taken')
  BY <1>1, <1>2, TopFrames, Zenon
<1>6. FramesOK(stack, ssl, flights = taken)'
  BY <1>5, Zenon DEF FramesOK
<1>7. (ssl \in Starting /\ ssl' = "ended") \/ (ssl \in Up /\ ssl' \in {"shut", "broken"})
  BY <1>1, <1>2, TopFrames, Zenon
<1>8. connects' = (IF ssl' \in Starting THEN 0 ELSE 1) /\ phase' \in {"open", "eof"}
  BY <1>1, <1>7 DEF TcpInv, HandshakeInv, netVars, Starting, Up
<1>9. HandshakeInv'
  BY <1>6, <1>7, <1>8 DEF HandshakeInv
<1>10. ReadsInv'
  BY <1>7 DEF ReadsInv
<1>11. fresh' \in BOOLEAN
  <2>1. fresh \in BOOLEAN
    BY DEF TcpInv, ScalarsOK
  <2> QED
    BY <1>1, <2>1, Zenon
<1>12. ScalarsOK' /\ ExhaustionNeedsLeaks'
  BY <1>1, <1>7, <1>11 DEF TcpInv, ScalarsOK, ExhaustionNeedsLeaks, netVars
<1> QED
  BY <1>4, <1>9, <1>10, <1>12 DEF TcpInv

\* The data callback returns and uv_ssl_read tries again.
LEMMA DataCbReturnInv == TcpInv /\ DataCbReturn => TcpInv'
<1> SUFFICES ASSUME TcpInv, DataCbReturn PROVE TcpInv'
  OBVIOUS
<1> DEFINE f == Frame("do_read", 0)
<1>1. /\ stack # <<>> /\ aborted = "no" /\ top.at = "data_cb" /\ stack' = Replace(f)
      /\ pool' = BP!buffer_pool_release(pool, top.buf) /\ leaked' = leaked /\ aborted' = "no"
      /\ UNCHANGED <<netVars, sslVars>>
  BY DEF DataCbReturn, Retry, At, ReleaseTop
<1>2. f \in FrameSet /\ f.at = "do_read" /\ f.buf = -1
  BY TcpAssumption DEF Frame, FrameSet, Locations
<1> HIDE DEF f
<1>3. /\ f.at \notin Owners /\ f.at \notin Hands /\ f.at \in Reading
      /\ top.at \in Owners /\ top.at # "connect_cb" /\ top.at \in Reading
  BY <1>1, <1>2 DEF Owners, Hands, Reading
<1>4. Fits(callers, f.at)
  <2>1. Fits(callers, "data_cb")
    BY <1>1, TopOfStack, Zenon
  <2> QED
    BY <1>2, <2>1 DEF Fits, Bottom, Over, Passing, Writing
<1>5. /\ FramesOK(callers, ssl, flights = taken) /\ ssl \in Up
      /\ callers # <<>> /\ callers[Len(callers)].at = "handshake" => ssl = "init" /\ flights = taken
  BY <1>1, <1>3, TopFrames, Zenon
<1>6. /\ Nested(stack, Cardinality(leaked))' /\ LeakedFirst'
      /\ FramesOK(stack', ssl, flights = taken)
      /\ HasReader(stack')
  BY <1>1, <1>2, <1>3, <1>4, <1>5, ReplaceStack, Zenon
<1>7. HandshakeInv' /\ ReadsInv'
  <2>1. /\ phase' = phase
        /\ UNCHANGED <<ssl, flights, taken, connects>> /\ UNCHANGED <<ssl, rcvd, taken, fresh>>
    BY <1>1 DEF netVars, sslVars
  <2> QED
    BY <1>1, <1>3, <1>6, <2>1, HandshakeKept, ReadsKept, Zenon
<1>8. ScalarsOK' /\ ExhaustionNeedsLeaks'
  BY <1>1, ScalarsKept DEF ExhaustionNeedsLeaks, Reasons
<1> QED
  BY <1>6, <1>7, <1>8 DEF TcpInv

\* A failed assertion ends the process and changes nothing else.
LEMMA AbortInv ==
  ASSUME TcpInv, stack # <<>>, aborted = "no",
         UNCHANGED <<netVars, sslVars, pool, leaked, stack>>,
         \/ aborted' = "ssl_write"
         \/ aborted' \in {"short_write", "overrun"} /\ top.at # "connect_cb"
  PROVE  TcpInv'
<1>1. /\ UNCHANGED <<stack, pool, leaked>> /\ UNCHANGED <<netVars, sslVars>>
      /\ phase' = phase /\ UNCHANGED <<ssl, flights, taken, connects>>
      /\ UNCHANGED <<ssl, rcvd, taken, fresh>>
  BY DEF netVars, sslVars
<1>2. /\ Nested(stack, Cardinality(leaked))' /\ LeakedFirst'
      /\ FramesOK(stack', ssl, flights = taken)
      /\ HasReader(stack) => HasReader(stack')
  BY <1>1, SameStack, Zenon
<1>3. FramesOK(stack, ssl, flights = taken)'
  BY <1>1, <1>2, Zenon DEF FramesOK
<1>4. HandshakeInv'
  <2>1. top' = top
    BY <1>1, Zenon DEF top
  <2>2. /\ connects' = IF ssl' \in Starting THEN 0 ELSE 1
        /\ ssl' = "init" => taken' < H /\ flights' \in {taken', taken' + 1}
        /\ phase' \notin {"open", "eof"} => ssl' = "init" /\ stack' = <<>>
    BY <1>1, Zenon DEF TcpInv, HandshakeInv
  <2>3. ssl' = "failed" => /\ stack' # <<>> /\ top'.at = "connect_cb" /\ top'.left > 0
                           /\ aborted' \in {"no", "ssl_write"}
    BY <1>1, <2>1 DEF TcpInv, HandshakeInv
  <2> QED
    BY <1>3, <2>2, <2>3, Zenon DEF HandshakeInv
<1>5. ReadsInv'
  BY <1>1, <1>2, ReadsKept, Zenon
<1>6. ScalarsOK' /\ ExhaustionNeedsLeaks'
  BY <1>1, ScalarsKept DEF ExhaustionNeedsLeaks, Reasons
<1> QED
  BY <1>2, <1>4, <1>5, <1>6 DEF TcpInv

\* mumble_uv_ssl_write from a callback.
LEMMA SslWriteInv == TcpInv /\ SslWrite => TcpInv'
<1> SUFFICES ASSUME TcpInv, SslWrite PROVE TcpInv'
  OBVIOUS
<1> DEFINE f == [top EXCEPT !.left = @ - 1]
           g == Frame("wbio_cb", 0)
<1>1. /\ stack # <<>> /\ aborted = "no" /\ top.at \in {"connect_cb", "data_cb", "timer_cb"}
      /\ top.left > 0 /\ pool' = pool /\ leaked' = leaked
      /\ UNCHANGED <<netVars, sslVars>>
  BY DEF SslWrite, InCallback, Callbacks, At, poolState
<1>2. CASE ssl \notin {"ok", "shut"}
  <2>1. aborted' = "ssl_write" /\ stack' = stack
    BY <1>2 DEF SslWrite, Abort
  <2>2. UNCHANGED <<netVars, sslVars, pool, leaked, stack>>
    BY <1>1, <2>1
  <2> QED
    BY <1>1, <2>1, <2>2, AbortInv, Zenon
<1>3. CASE ssl \in {"ok", "shut"}
  <2>1. stack' = Call(f, g) /\ aborted' = "no"
    BY <1>1, <1>3 DEF SslWrite
  <2>2. top \in FrameSet /\ Fits(callers, top.at)
    BY <1>1, TopOfStack, Zenon
  <2>3. f \in FrameSet /\ f.at = top.at /\ f.buf = top.buf
    <3>1. top.left - 1 \in 0 .. 3 + MaxWrites
      BY <1>1, <2>2, TcpAssumption DEF FrameSet
    <3> QED
      BY <2>2, <3>1 DEF FrameSet
  <2>4. g \in FrameSet /\ g.at = "wbio_cb" /\ g.buf = -1
    BY TcpAssumption DEF Frame, FrameSet, Locations
  <2> HIDE DEF f, g
  <2>5. /\ Over(f.at, g.at) /\ g.at \notin Owners
        /\ f.at \notin Hands /\ f.at # "handshake" /\ g.at \notin Hands /\ g.at \notin Reading
    BY <1>1, <2>3, <2>4 DEF Over, Writers, Writing, Owners, Hands, Reading
  <2>6. /\ FramesOK(callers, ssl, flights = taken)
        /\ callers # <<>> /\ callers[Len(callers)].at = "handshake" => ssl = "init" /\ flights = taken
        /\ HasReader(stack) <=> HasReader(callers) \/ top.at \in Reading
        /\ top.at \in Reading => ssl \in Up
    BY <1>1, TopFrames, Zenon
  <2>7. /\ Nested(stack, Cardinality(leaked))' /\ LeakedFirst'
        /\ FramesOK(stack', ssl, flights = taken)
        /\ HasReader(stack) => HasReader(stack')
    BY <1>1, <1>3, <2>1, <2>2, <2>3, <2>4, <2>5, <2>6, CallStack, Zenon
  <2>8. HandshakeInv' /\ ReadsInv'
    <3>1. /\ phase' = phase /\ ssl # "failed"
          /\ UNCHANGED <<ssl, flights, taken, connects>> /\ UNCHANGED <<ssl, rcvd, taken, fresh>>
      BY <1>1, <1>3 DEF netVars, sslVars
    <3> QED
      BY <1>1, <2>7, <3>1, HandshakeKept, ReadsKept, Zenon
  <2>9. ScalarsOK' /\ ExhaustionNeedsLeaks'
    BY <1>1, <2>1, ScalarsKept DEF ExhaustionNeedsLeaks, Reasons
  <2> QED
    BY <2>7, <2>8, <2>9 DEF TcpInv
<1> QED
  BY <1>2, <1>3

\* uv_ssl_wbio_cb hands its copy to uv_try_write.
LEMMA WbioWriteInv == TcpInv /\ WbioWrite => TcpInv'
<1> SUFFICES ASSUME TcpInv, WbioWrite PROVE TcpInv'
  OBVIOUS
<1>1. /\ stack # <<>> /\ aborted = "no" /\ top.at = "try_write"
      /\ UNCHANGED <<netVars, ssl, rcvd, taken, connects, fresh>>
  BY DEF WbioWrite, At
<1>2. CASE aborted' \in {"short_write", "overrun"} /\ UNCHANGED <<stack, flights, poolState>>
  <2>1. UNCHANGED <<netVars, sslVars, pool, leaked, stack>> /\ top.at # "connect_cb"
    BY <1>1, <1>2 DEF sslVars, poolState
  <2> QED
    BY <1>1, <1>2, <2>1, AbortInv, Zenon
<1>3. CASE /\ ReleaseTop /\ stack' = callers /\ aborted' = aborted
           /\ flights' = IF stack[Len(stack) - 1].at = "handshake" THEN flights + 1 ELSE flights
  <2> DEFINE m == Len(callers)
             below == callers[m]
  <2>1. top.at \in Owners /\ top.at # "connect_cb" /\ top.at \notin Reading
    BY <1>1 DEF Owners, Reading
  <2>2. pool' = BP!buffer_pool_release(pool, top.buf) /\ leaked' = leaked
    BY <1>3 DEF ReleaseTop
  <2>3. /\ Nested(stack, Cardinality(leaked))' /\ LeakedFirst'
        /\ FramesOK(stack', ssl, flights = taken)
        /\ HasReader(stack) => HasReader(stack')
    BY <1>1, <1>3, <2>1, <2>2, ReturnStack, Zenon
  <2>4. /\ Fits(callers, "try_write") /\ callers \in Seq(FrameSet)
        /\ Nested(callers, Cardinality(leaked)) /\ Cardinality(leaked) \in Nat
        /\ m = Len(stack) - 1 /\ Len(stack) \in 1 .. 3
    BY <1>1, TopOfStack, Zenon
  <2>5. callers # <<>>
    BY <2>4 DEF Fits, Bottom
  <2>6. below = stack[Len(stack) - 1]
    <3>1. \A i \in 1 .. Len(stack) - 1 : callers[i] = stack[i]
      <4>1. Nested(stack, Cardinality(leaked))
        BY DEF TcpInv
      <4> QED
        BY <1>1, <2>4, <4>1, Pop, Zenon DEF callers
    <3>2. m \in 1 .. Len(stack) - 1
      <4>1. m \in Nat \ {0}
        BY <2>4, <2>5, EmptySeq, Zenon
      <4> QED
        BY <2>4, <4>1
    <3> QED
      BY <2>4, <3>1, <3>2, Zenon
  <2>7. flights' = IF below.at = "handshake" THEN flights + 1 ELSE flights
    BY <1>3, <2>6, Zenon
  <2>8. HandshakeInv' /\ flights' \in 0 .. H
    <3>1. CASE below.at # "handshake"
      <4>1. flights' = flights /\ phase' = phase /\ flights \in 0 .. H
        BY <1>1, <2>7, <3>1 DEF netVars, TcpInv, ScalarsOK
      <4>2. UNCHANGED <<ssl, flights, taken, connects>>
        BY <1>1, <4>1
      <4> QED
        BY <1>1, <2>1, <2>3, <4>1, <4>2, HandshakeKept, Zenon
    <3>2. CASE below.at = "handshake"
      <4>1. ssl = "init" /\ flights = taken
        BY <1>1, <2>5, <3>2, TopFrames, Zenon
      <4>2. FramesOK(callers, "init", flights' = taken')
        BY <2>4, <2>5, <3>2, HandshakeAlone, Zenon
      <4>3. FramesOK(stack, ssl, flights = taken)'
        BY <1>1, <1>3, <4>1, <4>2, Zenon DEF FramesOK
      <4>4. connects = 0 /\ taken < H /\ phase \in {"open", "eof"}
        BY <1>1, <4>1 DEF TcpInv, HandshakeInv, Starting
      <4>5. taken \in Nat /\ H \in Nat
        BY TcpAssumption DEF TcpInv, ScalarsOK
      <4>6. flights' = taken + 1
        BY <2>7, <3>2, <4>1, Zenon
      <4> HIDE DEF below, m
      <4> QED
        BY <1>1, <4>1, <4>3, <4>4, <4>5, <4>6 DEF HandshakeInv, netVars, Starting
    <3> QED
      BY <3>1, <3>2
  <2>9. ReadsInv'
    BY <1>1, <2>3, ReadsKept, Zenon
  <2>10. ScalarsOK' /\ ExhaustionNeedsLeaks'
    BY <1>1, <1>3, <2>8 DEF TcpInv, ScalarsOK, ExhaustionNeedsLeaks, netVars
  <2> QED
    BY <2>3, <2>8, <2>9, <2>10 DEF TcpInv
<1> QED
  BY <1>2, <1>3 DEF WbioWrite, Abort

-------------------------------------------------------------------------------
\* Every step preserves the invariant.
LEMMA TcpNextInv == TcpInv /\ [TcpNext]_tcpVars => TcpInv'
<1> SUFFICES ASSUME TcpInv, [TcpNext]_tcpVars PROVE TcpInv'
  OBVIOUS
<1>1. CASE Connect \/ DnsCb \/ ConnectCb
  BY <1>1, ConnectingInv
<1>2. CASE Arrive \/ Close
  BY <1>2, ServerInv
<1>3. CASE UvReadable \/ PingTimer
  BY <1>3, LoopCallsInv
<1>4. CASE DefaultAllocCb \/ DoReadAcquire \/ WbioAcquire
  <2>1. CASE DefaultAllocCb
    BY <2>1, AcquireForInv DEF DefaultAllocCb
  <2>2. CASE DoReadAcquire
    BY <2>2, AcquireForInv DEF DoReadAcquire
  <2>3. CASE WbioAcquire
    BY <2>3, AcquireForInv DEF WbioAcquire
  <2> QED
    BY <1>4, <2>1, <2>2, <2>3
<1>5. CASE ReadCbData
  BY <1>5, ReadCbDataInv
<1>6. CASE ReadCbNothing
  BY <1>6, ReadCbNothingInv
<1>7. CASE ReadCbReturn
  BY <1>7, ReadCbReturnInv
<1>8. CASE HandshakeFlight
  BY <1>8, HandshakeFlightInv
<1>9. CASE HandshakeRecord
  BY <1>9, HandshakeRecordInv
<1>10. CASE HandshakeWantRead \/ CallbackReturn
  BY <1>10, PlainReturnInv
<1>11. CASE HandshakeFailed
  BY <1>11, HandshakeFailedInv
<1>12. CASE SslReadData
  BY <1>12, SslReadDataInv
<1>13. CASE SslReadWantRead
  BY <1>13, SslReadWantReadInv
<1>14. CASE DataCbReturn
  BY <1>14, DataCbReturnInv
<1>15. CASE SslWrite
  BY <1>15, SslWriteInv
<1>16. CASE WbioWrite
  BY <1>16, WbioWriteInv
<1>17. CASE HandshakeAlert \/ SslReadAlert
  BY <1>17, AlertInv
<1>18. CASE HandshakeEnded \/ SslReadEnd
  BY <1>18, SessionOverInv
<1>19. CASE UNCHANGED tcpVars
  <2>1. /\ UNCHANGED <<stack, pool, leaked>> /\ UNCHANGED <<netVars, sslVars>> /\ aborted' = aborted
        /\ ssl' = ssl /\ flights' = flights /\ taken' = taken /\ phase' = phase
        /\ connects' = connects /\ rcvd' = rcvd /\ fresh' = fresh /\ stack' = stack
    BY <1>19 DEF tcpVars, netVars, sslVars
  <2>2. Nested(stack, Cardinality(leaked))' /\ LeakedFirst'
    BY <2>1, SameStack, Zenon
  <2>3. ScalarsOK' /\ ExhaustionNeedsLeaks'
    BY <2>1, ScalarsKept DEF TcpInv, ScalarsOK, ExhaustionNeedsLeaks
  <2>4. HandshakeInv' /\ ReadsInv'
    BY <2>1, Zenon DEF TcpInv, HandshakeInv, ReadsInv, FramesOK, HasReader, top, complete
  <2> QED
    BY <2>2, <2>3, <2>4 DEF TcpInv
<1> QED
  BY <1>1, <1>2, <1>3, <1>4, <1>5, <1>6, <1>7, <1>8, <1>9, <1>10, <1>11, <1>12, <1>13,
     <1>14, <1>15, <1>16, <1>17, <1>18, <1>19 DEF TcpNext, InCall, Rest

\* The invariant holds in every state.
THEOREM TcpCorrect == TcpSpec => []TcpInv
BY TcpInitInv, TcpNextInv, PTL DEF TcpSpec

\* The types, and that calls never nest deeper than three.
THEOREM TcpTypes == TcpSpec => []TcpTypeOK
<1>1. TcpInv => TcpTypeOK
  <2> SUFFICES ASSUME TcpInv PROVE TcpTypeOK
    OBVIOUS
  <2>1. ScalarsOK
    BY DEF TcpInv
  <2>2. stack \in Seq(FrameSet) /\ Len(stack) <= 3
    BY Zenon DEF TcpInv, Nested
  <2>3. \A i \in 1 .. Len(stack) : stack[i] \in FrameSet
    BY <2>2, ElementOfSeq
  <2>4. leaked \subseteq 0 .. N - 1
    <3> DEFINE L == Cardinality(leaked)
    <3>1. leaked = 0 .. L - 1 /\ L \in 0 .. N /\ N \in Nat
      BY TcpAssumption DEF TcpInv, LeakedFirst
    <3> HIDE DEF L
    <3> QED
      BY <3>1
  <2>5. pool \in [buffers : [0 .. N - 1 -> 0 .. N - 1], in_use : 0 .. N]
    <3> DEFINE k == Cardinality(leaked) + Total(stack)
    <3>1. pool = [buffers |-> [i \in 0 .. N - 1 |-> i], in_use |-> k] /\ k \in 0 .. N
      BY PoolNow
    <3> HIDE DEF k
    <3> QED
      BY <3>1
  <2> QED
    BY <2>1, <2>2, <2>3, <2>4, <2>5 DEF ScalarsOK, TcpTypeOK, FrameSet
<1> QED
  BY <1>1, TcpCorrect, PTL

\* The connect callback runs at most once, before every message.
THEOREM TcpConnectsOnce == TcpSpec => []ConnectOnce
<1>1. TcpInv => ConnectOnce
  <2> SUFFICES ASSUME TcpInv PROVE ConnectOnce
    OBVIOUS
  <2>1. connects = IF ssl \in Starting THEN 0 ELSE 1
    BY DEF TcpInv, HandshakeInv
  <2>2. \A i \in 1 .. Len(stack) : stack[i].at = "data_cb" => ssl \in Up
    <3>1. "data_cb" \in Reading
      BY DEF Reading
    <3> QED
      BY <3>1, Zenon DEF TcpInv, HandshakeInv, FramesOK
  <2> QED
    BY <2>1, <2>2 DEF ConnectOnce, Starting, Up
<1> QED
  BY <1>1, TcpCorrect, PTL

\* A failed handshake ends the process in the greeting that follows it.
THEOREM TcpFailureIsFatal == TcpSpec => []FailedHandshakeIsFatal
<1>1. TcpInv => FailedHandshakeIsFatal
  BY DEF TcpInv, HandshakeInv, FailedHandshakeIsFatal, At
<1> QED
  BY <1>1, TcpCorrect, PTL

\* uv_ssl_read leaves nothing complete in the read BIO between callbacks, except
\* behind the end of the handshake.
THEOREM TcpDrained == TcpSpec => []DrainedWhenIdle
<1>1. TcpInv => DrainedWhenIdle
  <2> SUFFICES ASSUME TcpInv, Idle, ssl = "ok", complete > taken PROVE fresh
    BY DEF DrainedWhenIdle
  <2>1. stack = <<>> /\ aborted = "no"
    BY DEF Idle
  <2>2. ~HasReader(stack)
    <3>1. Len(stack) = 0
      BY <2>1
    <3> QED
      BY <3>1 DEF HasReader
  <2> QED
    BY <2>1, <2>2, Zenon DEF TcpInv, ReadsInv
<1> QED
  BY <1>1, TcpCorrect, PTL

\* The assertions on the pool can fail only after all but two buffers leaked.
THEOREM TcpExhaustion == TcpSpec => []ExhaustionNeedsLeaks
<1>1. TcpInv => ExhaustionNeedsLeaks
  BY DEF TcpInv
<1> QED
  BY <1>1, TcpCorrect, PTL

\* The buffers in use, the frames that hold them and the leaked ones agree.
LEMMA InvBalanced == TcpInv => PoolBalanced
<1> SUFFICES ASSUME TcpInv PROVE PoolBalanced
  OBVIOUS
<1> DEFINE L == Cardinality(leaked)
           n == Len(stack)
           T == Total(stack)
           o(i) == i \in 1 .. n /\ stack[i].at \in Owners
<1>1. /\ L \in Nat /\ leaked = 0 .. L - 1 /\ N \in Nat
      /\ pool.buffers = [i \in 0 .. N - 1 |-> i] /\ pool.in_use = L + T /\ L + T \in 0 .. N
  <2>1. L \in 0 .. N /\ leaked = 0 .. L - 1 /\ N \in Nat
    BY TcpAssumption DEF TcpInv, LeakedFirst
  <2>2. L \in Nat
    BY <2>1
  <2> DEFINE k == L + T
  <2>3. pool = [buffers |-> [i \in 0 .. N - 1 |-> i], in_use |-> k] /\ k \in 0 .. N
    BY PoolNow
  <2> HIDE DEF k
  <2>4. pool.buffers = [i \in 0 .. N - 1 |-> i] /\ pool.in_use = k
    BY <2>3
  <2> QED
    BY <2>1, <2>2, <2>3, <2>4 DEF k
<1>2. n \in 0 .. 3
  <2>1. n \in Nat /\ n <= 3
    BY LenProperties, Zenon DEF TcpInv, Nested
  <2> HIDE DEF n
  <2> QED
    BY <2>1
<1>3. \A i \in 1 .. n : stack[i].buf = IF stack[i].at \in Owners THEN L + Owned(stack, i - 1) ELSE -1
  BY Zenon DEF TcpInv, Nested
<1> HIDE DEF L
<1>4. /\ \A i : o(i) => i \in 1 .. n /\ i \in {1, 2, 3}
      /\ Owned(stack, 0) = 0
      /\ n > 0 => Owned(stack, 1) = IF o(1) THEN 1 ELSE 0
      /\ n > 1 => Owned(stack, 2) = Owned(stack, 1) + IF o(2) THEN 1 ELSE 0
      /\ n > 2 => Owned(stack, 3) = Owned(stack, 2) + IF o(3) THEN 1 ELSE 0
  <2> HIDE DEF n
  <2> QED
    BY <1>2 DEF Owned, Own
<1>5. T = Owned(stack, n)
  BY Zenon DEF Total
<1> HIDE DEF T
<1>6. Frames = {i \in {1, 2, 3} : o(i)}
  <2>1. \A i \in 1 .. n : stack[i].buf # -1 <=> stack[i].at \in Owners
    <3> TAKE i \in 1 .. n
    <3>1. Owned(stack, i - 1) \in Nat
      BY DEF Owned, Own
    <3> QED
      BY <1>1, <1>3, <3>1
  <2> HIDE DEF n
  <2>2. Frames = {i \in 1 .. n : stack[i].buf # -1}
    BY Zenon DEF Frames, n
  <2>3. \A i \in 1 .. n : i \in {1, 2, 3}
    BY <1>2
  <2> QED
    BY <2>1, <2>2, <2>3, Zenon
<1>7. \A i : o(i) => stack[i].buf = L + Owned(stack, i - 1)
  BY <1>3, Zenon
<1> DEFINE a == o(1)
           b == o(2)
           c == o(3)
<1>8. /\ a => n > 0
      /\ b => n > 1
      /\ c => n > 2
  <2> HIDE DEF n
  <2> QED
    BY <1>2
<1>9. /\ T = (IF a THEN 1 ELSE 0) + (IF b THEN 1 ELSE 0) + (IF c THEN 1 ELSE 0)
      /\ a => stack[1].buf = L
      /\ b => stack[2].buf = L + (IF a THEN 1 ELSE 0)
      /\ c => stack[3].buf = L + (IF a THEN 1 ELSE 0) + (IF b THEN 1 ELSE 0)
  <2>1. /\ a => stack[1].buf = L + Owned(stack, 1 - 1)
        /\ b => stack[2].buf = L + Owned(stack, 2 - 1)
        /\ c => stack[3].buf = L + Owned(stack, 3 - 1)
    BY <1>7, Zenon
  <2>2. 1 - 1 = 0 /\ 2 - 1 = 1 /\ 3 - 1 = 2
    OBVIOUS
  <2> DEFINE w0 == Owned(stack, 0)
             w1 == Owned(stack, 1)
             w2 == Owned(stack, 2)
             w3 == Owned(stack, 3)
             x1 == stack[1].buf
             x2 == stack[2].buf
             x3 == stack[3].buf
  <2>3. /\ a => x1 = L + w0
        /\ b => x2 = L + w1
        /\ c => x3 = L + w2
    BY <2>1, <2>2, Zenon
  <2>4. /\ n = 0 => T = w0
        /\ n = 1 => T = w1
        /\ n = 2 => T = w2
        /\ n = 3 => T = w3
    BY <1>5, Zenon
  <2>5. /\ w0 = 0
        /\ n > 0 => w1 = IF a THEN 1 ELSE 0
        /\ n > 1 => w2 = w1 + IF b THEN 1 ELSE 0
        /\ n > 2 => w3 = w2 + IF c THEN 1 ELSE 0
    BY <1>4, Zenon
  <2> HIDE DEF n, a, b, c, w0, w1, w2, w3, x1, x2, x3
  <2>6. /\ T = (IF a THEN 1 ELSE 0) + (IF b THEN 1 ELSE 0) + (IF c THEN 1 ELSE 0)
        /\ a => x1 = L
        /\ b => x2 = L + (IF a THEN 1 ELSE 0)
        /\ c => x3 = L + (IF a THEN 1 ELSE 0) + (IF b THEN 1 ELSE 0)
    BY <1>1, <1>2, <1>8, <2>3, <2>4, <2>5
  <2> QED
    BY <2>6, Zenon DEF x1, x2, x3
<1> HIDE DEF o, n
<1>10. {stack[i].buf : i \in Frames} = L .. L + T - 1
  <2>1. ASSUME NEW x
        PROVE  (\E i \in Frames : x = stack[i].buf) <=> x \in L .. L + T - 1
    <3>1. (\E i \in Frames : x = stack[i].buf)
            <=> (a /\ x = stack[1].buf) \/ (b /\ x = stack[2].buf) \/ (c /\ x = stack[3].buf)
      BY <1>6, Zenon
    <3> HIDE DEF a, b, c
    <3> QED
      BY <1>1, <1>9, <3>1
  <2> QED
    BY <2>1
<1>11. Cardinality(Frames) = T
  <2> DEFINE A == IF a THEN {1} ELSE {}
             B == IF b THEN A \cup {2} ELSE A
             C == IF c THEN B \cup {3} ELSE B
  <2>1. Frames = C
    BY <1>6, Zenon
  <2> HIDE DEF a, b, c
  <2>2. IsFiniteSet(A) /\ Cardinality(A) = (IF a THEN 1 ELSE 0) /\ A \subseteq {1}
    BY FS_EmptySet, FS_Singleton
  <2>3. 2 \notin A
    BY <2>2
  <2> HIDE DEF A
  <2>4. /\ IsFiniteSet(B) /\ B \subseteq {1, 2}
        /\ Cardinality(B) = Cardinality(A) + (IF b THEN 1 ELSE 0)
    <3>1. CASE b
      <4>1. B = A \cup {2}
        BY <3>1, Zenon
      <4>2. IsFiniteSet(A \cup {2}) /\ Cardinality(A \cup {2}) = Cardinality(A) + 1
        BY <2>2, <2>3, FS_AddElement
      <4>3. B \subseteq {1, 2}
        BY <2>2, <4>1
      <4> HIDE DEF B
      <4> QED
        BY <3>1, <4>1, <4>2, <4>3
    <3>2. CASE ~b
      <4>1. B = A
        BY <3>2, Zenon
      <4>2. Cardinality(A) \in Nat
        BY <2>2, FS_CardinalityType
      <4> HIDE DEF B
      <4> QED
        BY <2>2, <3>2, <4>1, <4>2
    <3> QED
      BY <3>1, <3>2
  <2>5. 3 \notin B
    BY <2>4
  <2> HIDE DEF B
  <2>6. Cardinality(C) = Cardinality(B) + (IF c THEN 1 ELSE 0)
    BY <2>4, <2>5, FS_AddElement, FS_CardinalityType
  <2> QED
    BY <1>9, <2>1, <2>2, <2>4, <2>6
<1>12. pool.in_use = Cardinality(Frames) + L
  BY <1>1, <1>9, <1>11
<1>13. BP!PrefixIsHeld
  <2>1. Held = 0 .. L + T - 1
    <3>1. T \in Nat
      BY <1>9
    <3>2. Held = (L .. L + T - 1) \cup (0 .. L - 1)
      BY <1>1, <1>10, Zenon DEF Held
    <3>3. (L .. L + T - 1) \cup (0 .. L - 1) = 0 .. L + T - 1
      BY <1>1, <3>1
    <3> QED
      BY <3>2, <3>3, Zenon
  <2>2. {pool.buffers[i] : i \in 0 .. pool.in_use - 1} = 0 .. L + T - 1
    <3> DEFINE k == L + T
               f == pool.buffers
    <3>1. k \in 0 .. N /\ N \in Nat
      BY <1>1
    <3>2. f = [i \in 0 .. N - 1 |-> i] /\ pool.in_use = k
      BY <1>1, Zenon
    <3> HIDE DEF k, f
    <3>3. \A i \in 0 .. k - 1 : i \in 0 .. N - 1
      BY <3>1
    <3>4. \A i \in 0 .. k - 1 : f[i] = i
      BY <3>2, <3>3, Zenon
    <3>5. {f[i] : i \in 0 .. k - 1} = 0 .. k - 1
      BY <3>4, Zenon
    <3>6. {pool.buffers[i] : i \in 0 .. pool.in_use - 1} = {f[i] : i \in 0 .. k - 1}
      BY <3>2, Zenon DEF f
    <3>7. 0 .. k - 1 = 0 .. L + T - 1
      <4>1. T \in Nat
        BY <1>9
      <4> QED
        BY <1>1, <4>1 DEF k
    <3> QED
      BY <3>5, <3>6, <3>7
  <2> QED
    BY <2>1, <2>2 DEF BP!PrefixIsHeld
<1> QED
  BY <1>12, <1>13 DEF PoolBalanced, L

\* Every buffer in use is held by exactly one active call, or leaked.
THEOREM TcpPoolBalanced == TcpSpec => []PoolBalanced
BY TcpCorrect, InvBalanced, PTL
===============================================================================
