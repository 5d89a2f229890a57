-------------------------------- MODULE TcpSsl --------------------------------
(***************************************************************************)
(* lib/mumble/uv_tcp_ssl.c: TLS over a libuv TCP stream.  Everything runs  *)
(* on the loop thread, but the calls nest: libuv reads into a pool buffer, *)
(* the read callback writes it to the memory BIO, whose callback runs the  *)
(* handshake or SSL_read into a second pool buffer, whose user callback    *)
(* may call SSL_write, whose BIO callback copies into a third.  `stack' is *)
(* that C call stack; each frame holds at most one pool buffer.            *)
(*                                                                         *)
(* The server's side of the TLS stream is a fixed sequence of Records      *)
(* records: the first H finish the handshake, the others carry messages.   *)
(* A record travels as two halves, so that a read may end inside one.  The *)
(* client sends a handshake flight before each of the first H records.     *)
(*                                                                         *)
(* What libuv and OpenSSL do is modelled from how this file uses them.     *)
(***************************************************************************)
EXTENDS Integers, Sequences, FiniteSets

CONSTANTS
  N,          \* buffers in the pool (4 in mumble_uv_ssl_init)
  H,          \* handshake records
  Records,    \* all records of the server
  Cap,        \* halves that fit one pool buffer (16 kB in the code)
  MaxWrites,  \* bound: messages a data callback sends
  MaxPings,   \* bound: firings of the ping timer
  Faults      \* which failures happen, a subset of FaultKinds

FaultKinds == {"dns", "connect", "stack_reuse", "handshake", "handshake_end", "tls_end",
               "tls_error", "big_record", "try_write", "close"}

ASSUME TcpAssumption ==
  /\ N \in Nat \ {0} /\ H \in Nat \ {0} /\ Cap \in Nat \ {0}
  /\ Records \in Nat /\ Records >= H
  /\ MaxWrites \in Nat /\ MaxPings \in Nat
  /\ Faults \subseteq FaultKinds

VARIABLES
  phase,     \* "new", "resolving", "connecting", "open", "eof"
  ssl,       \* the SSL object: "init", "ok", "failed" (the handshake, with an
             \* error), "ended" (the handshake, without one), "shut" (the server
             \* ended the session), "broken" (a record was bad)
  flights,   \* handshake flights that reached the wire
  arrived,   \* halves in the kernel since the connection opened
  rcvd,      \* halves written to the read BIO
  taken,     \* records OpenSSL has consumed
  closed,    \* the server closed the connection
  pool,      \* socket->buffer_pool
  stack,     \* the active calls, the innermost last
  leaked,    \* buffers no frame holds and nobody released
  connects,  \* times the connect callback has been called
  fresh,     \* the handshake finished and nothing was read from OpenSSL since
  pings,     \* firings of the ping timer
  aborted    \* "no", or what ended the process

tcpVars == <<phase, ssl, flights, arrived, rcvd, taken, closed, pool, stack,
             leaked, connects, fresh, pings, aborted>>
wireVars == <<arrived, closed>>
netVars  == <<phase, arrived, closed, pings>>
sslVars  == <<ssl, flights, rcvd, taken, connects, fresh>>
poolState == <<pool, leaked>>

Frames == {i \in 1 .. Len(stack) : stack[i].buf # -1}
Held   == {stack[i].buf : i \in Frames} \cup leaked
BP     == INSTANCE BufferPool WITH held <- Held, got <- -1

-------------------------------------------------------------------------------
(* The call stack. *)
Frame(at, left) == [at |-> at, buf |-> -1, left |-> left]
top      == stack[Len(stack)]
callers  == SubSeq(stack, 1, Len(stack) - 1)
At(loc)  == aborted = "no" /\ stack # <<>> /\ top.at = loc
Idle     == aborted = "no" /\ stack = <<>>
Replace(f)  == Append(callers, f)
Call(f, g)  == callers \o <<f, g>>
Abort(why)  == aborted' = why

\* The two pool calls, made for the frame that goes on at `next'.
AcquireFor(next) ==
  IF BP!CanAcquire(pool)
    THEN /\ pool' = BP!buffer_pool_acquire(pool)
         /\ stack' = Replace([top EXCEPT !.at = next, !.buf = BP!Acquired(pool)])
         /\ UNCHANGED <<aborted, leaked>>
    ELSE /\ Abort("no_buffer")
         /\ UNCHANGED <<pool, stack, leaked>>
ReleaseTop ==
  /\ pool' = BP!buffer_pool_release(pool, top.buf)
  /\ UNCHANGED leaked
LeakTop ==
  /\ leaked' = leaked \cup {top.buf}
  /\ UNCHANGED pool

complete == rcvd \div 2        \* whole records in the read BIO

-------------------------------------------------------------------------------
TcpInit ==
  /\ phase = "new" /\ ssl = "init" /\ flights = 0
  /\ arrived = 0 /\ rcvd = 0 /\ taken = 0 /\ closed = FALSE
  /\ pool = BP!buffer_pool_init
  /\ stack = <<>> /\ leaked = {}
  /\ connects = 0 /\ fresh = FALSE /\ pings = 0 /\ aborted = "no"

\* mumble_uv_ssl_connect queues the name lookup.
Connect ==
  /\ Idle /\ phase = "new"
  /\ phase' = "resolving"
  /\ UNCHANGED <<sslVars, wireVars, poolState, stack, pings, aborted>>

\* uv_ssl_dns_cb starts the connection, with a request on its own stack.
DnsCb ==
  /\ Idle /\ phase = "resolving"
  /\ \/ phase' = "connecting" /\ UNCHANGED aborted
     \/ "dns" \in Faults /\ Abort("dns") /\ UNCHANGED phase
  /\ UNCHANGED <<sslVars, wireVars, poolState, stack, pings>>

\* uv_ssl_connect_cb: libuv keeps a pointer to that dead request, so what is
\* read through it may be anything by now; if it survived, reading starts and
\* the handshake runs.
ConnectCb ==
  /\ Idle /\ phase = "connecting"
  /\ \/ /\ phase' = "open"
        /\ stack' = <<Frame("handshake", 0)>>
        /\ UNCHANGED aborted
     \/ /\ \/ "connect" \in Faults /\ Abort("connect")
           \/ "stack_reuse" \in Faults /\ Abort("dangling")
        /\ UNCHANGED <<phase, stack>>
  /\ UNCHANGED <<sslVars, wireVars, poolState, pings>>

-------------------------------------------------------------------------------
(* The server and the network. *)
Arrive ==
  /\ aborted = "no" /\ phase = "open" /\ ~closed
  /\ arrived < 2 * Records
  /\ flights > arrived \div 2 \/ flights = H
  /\ arrived' = arrived + 1
  /\ UNCHANGED <<phase, sslVars, closed, poolState, stack, pings, aborted>>

Close ==
  /\ "close" \in Faults
  /\ aborted = "no" /\ phase = "open" /\ ~closed
  /\ closed' = TRUE
  /\ UNCHANGED <<phase, sslVars, arrived, poolState, stack, pings, aborted>>

-------------------------------------------------------------------------------
(* uv__read: allocate, recv, call back; again if the buffer was filled. *)
UvReadable ==
  /\ Idle /\ phase = "open"
  /\ arrived > rcvd \/ closed
  /\ stack' = <<Frame("alloc_cb", 0)>>
  /\ UNCHANGED <<netVars, sslVars, poolState, aborted>>

DefaultAllocCb ==
  /\ At("alloc_cb")
  /\ AcquireFor("recv")
  /\ UNCHANGED <<netVars, sslVars>>

\* What uv_ssl_rbio_cb runs once the data is in the read BIO.
uv_ssl_rbio_cb ==
  IF ssl \in {"ok", "shut", "broken"} THEN Frame("do_read", 0) ELSE Frame("handshake", 0)

Min2(a, b) == IF a < b THEN a ELSE b

\* uv_ssl_read_cb with nread > 0: BIO_write calls uv_ssl_rbio_cb.  `left' is 1
\* when the buffer was filled and libuv will read again.
ReadCbData ==
  /\ At("recv") /\ arrived > rcvd
  /\ LET n == Min2(Cap, arrived - rcvd)
     IN  /\ rcvd' = rcvd + n
         /\ stack' = Call([top EXCEPT !.at = "written",
                                      !.left = IF n = Cap THEN 1 ELSE 0],
                          uv_ssl_rbio_cb)
  /\ UNCHANGED <<netVars, ssl, flights, taken, connects, fresh, poolState, aborted>>

\* uv_ssl_read_cb with nread = 0 (the socket had nothing more) or nread < 0
\* (the server closed; libuv stops reading): the buffer is not released.
ReadCbNothing ==
  /\ At("recv") /\ arrived = rcvd
  /\ stack' = callers
  /\ LeakTop
  /\ phase' = IF closed THEN "eof" ELSE phase
  /\ UNCHANGED <<wireVars, sslVars, pings, aborted>>

\* The tail of uv_ssl_read_cb, and libuv's test of nread against the length.
ReadCbReturn ==
  /\ At("written")
  /\ ReleaseTop
  /\ stack' = IF top.left = 1 THEN Replace(Frame("alloc_cb", 0)) ELSE callers
  /\ UNCHANGED <<netVars, sslVars, aborted>>

-------------------------------------------------------------------------------
(* uv_ssl_handshake: SSL_do_handshake sends a flight, consumes records, and *)
(* ends in success (the connect callback), failure (the same callback), a   *)
(* wish for more data, or an end that is no error (no callback).            *)
HandshakeFlight ==
  /\ At("handshake") /\ ssl = "init" /\ flights = taken
  /\ stack' = Call(top, Frame("wbio_cb", 0))
  /\ UNCHANGED <<netVars, sslVars, poolState, aborted>>

HandshakeRecord ==
  /\ At("handshake") /\ ssl = "init" /\ flights > taken /\ complete > taken
  /\ taken' = taken + 1
  /\ IF taken + 1 < H
       THEN UNCHANGED <<ssl, connects, fresh, stack>>
       ELSE /\ ssl' = "ok"
            /\ connects' = connects + 1
            /\ fresh' = TRUE
            /\ stack' = Replace(Frame("connect_cb", 3))
  /\ UNCHANGED <<netVars, flights, rcvd, poolState, aborted>>

\* Faulty variant: the callback is made whatever SSL_get_error says.
WantReadConnects ==
  /\ At("handshake") /\ ssl = "init" /\ flights > taken /\ complete <= taken
  /\ stack' = callers
  /\ connects' = connects + 1
  /\ UNCHANGED <<netVars, ssl, flights, rcvd, taken, fresh, poolState, aborted>>
HandshakeWantRead ==
  /\ At("handshake") /\ ssl = "init" /\ flights > taken /\ complete <= taken
  /\ stack' = callers
  /\ UNCHANGED <<netVars, sslVars, poolState, aborted>>

\* OpenSSL refuses a record of the server and tells it why, before it returns.
HandshakeAlert ==
  /\ "handshake" \in Faults
  /\ At("handshake") /\ ssl = "init" /\ flights > taken /\ complete > taken
  /\ stack' = Call([top EXCEPT !.at = "refused"], Frame("wbio_cb", 0))
  /\ UNCHANGED <<netVars, sslVars, poolState, aborted>>

\* SSL_get_error gives 1: after that alert, or because the record was one.
HandshakeFailed ==
  /\ \/ At("refused")
     \/ /\ "handshake" \in Faults
        /\ At("handshake") /\ ssl = "init" /\ flights > taken /\ complete > taken
  /\ ssl' = "failed"
  /\ connects' = connects + 1
  /\ stack' = Replace(Frame("connect_cb", 3))
  /\ UNCHANGED <<netVars, flights, rcvd, taken, fresh, poolState, aborted>>

\* SSL_get_error gives another value, and nobody is told: the server ended the
\* session inside the handshake.  Every read behind that runs into the same.
HandshakeEnded ==
  /\ At("handshake")
  /\ \/ "handshake_end" \in Faults /\ ssl = "init" /\ flights > taken /\ complete > taken
     \/ ssl = "ended"
  /\ ssl' = "ended"
  /\ stack' = callers
  /\ UNCHANGED <<netVars, flights, rcvd, taken, connects, fresh, poolState, aborted>>

-------------------------------------------------------------------------------
(* uv_ssl_read and uv_ssl_do_read. *)
DoReadAcquire ==
  /\ At("do_read")
  /\ AcquireFor("ssl_read")
  /\ UNCHANGED <<netVars, sslVars>>

\* SSL_read decrypts one record and the user callback runs; it may send.
SslReadData ==
  /\ At("ssl_read") /\ ssl = "ok" /\ complete > taken
  /\ taken' = taken + 1
  /\ \E w \in 0 .. MaxWrites :
       stack' = Replace([top EXCEPT !.at = "data_cb", !.left = w])
  /\ fresh' = FALSE
  /\ UNCHANGED <<netVars, ssl, flights, rcvd, connects, poolState, aborted>>

\* No record to give, or the session is over: whatever the error is, it ends the
\* loop of uv_ssl_read.
\* Faulty variant: the early return skips the release.
WantReadNoRelease ==
  /\ At("ssl_read") /\ (ssl = "ok" => complete <= taken)
  /\ stack' = callers
  /\ fresh' = FALSE
  /\ UNCHANGED <<netVars, ssl, flights, rcvd, taken, connects, poolState, aborted>>
SslReadWantRead ==
  /\ At("ssl_read") /\ (ssl = "ok" => complete <= taken)
  /\ ReleaseTop
  /\ stack' = callers
  /\ fresh' = FALSE
  /\ UNCHANGED <<netVars, ssl, flights, rcvd, taken, connects, aborted>>

\* SSL_read refuses the record, and tells the server why before it returns.
SslReadAlert ==
  /\ "tls_error" \in Faults
  /\ At("ssl_read") /\ ssl = "ok" /\ complete > taken
  /\ stack' = Call([top EXCEPT !.at = "alerted"], Frame("wbio_cb", 0))
  /\ UNCHANGED <<netVars, sslVars, poolState, aborted>>

\* The record ends the session, ret == 0, or was refused, ret < 0: the error is
\* logged and the loop left.  The client is not told.
SslReadEnd ==
  /\ \/ At("alerted") /\ ssl' = "broken"
     \/ "tls_end" \in Faults /\ At("ssl_read") /\ ssl = "ok" /\ complete > taken /\ ssl' = "shut"
  /\ ReleaseTop
  /\ stack' = callers
  /\ fresh' = FALSE
  /\ UNCHANGED <<netVars, flights, rcvd, taken, connects, aborted>>

\* Where uv_ssl_read goes on after a callback: the buffer is released and the
\* loop tries again.  Faulty variants: one read per network read; a retry by
\* recursion from inside the call that still holds its buffer.
RetryOnce ==
  /\ ReleaseTop
  /\ stack' = callers
RetryRecursive ==
  /\ UNCHANGED poolState
  /\ stack' = Call(top, Frame("do_read", 0))
Retry ==
  /\ ReleaseTop
  /\ stack' = Replace(Frame("do_read", 0))

DataCbReturn ==
  /\ At("data_cb") /\ top.left = 0
  /\ Retry
  /\ UNCHANGED <<netVars, sslVars, aborted>>

-------------------------------------------------------------------------------
(* The callbacks of the client, and mumble_uv_ssl_write. *)
Callbacks  == {"connect_cb", "data_cb", "timer_cb"}
InCallback == \E c \in Callbacks : At(c)

\* Faulty variant: the result of SSL_write is not looked at.
WriteUnchecked ==
  /\ InCallback /\ top.left > 0
  /\ stack' = IF ssl \in {"ok", "shut"} THEN Call([top EXCEPT !.left = @ - 1], Frame("wbio_cb", 0))
                                            ELSE Replace([top EXCEPT !.left = @ - 1])
  /\ UNCHANGED <<netVars, sslVars, poolState, aborted>>
SslWrite ==
  /\ InCallback /\ top.left > 0
  /\ IF ssl \in {"ok", "shut"}
       THEN /\ stack' = Call([top EXCEPT !.left = @ - 1], Frame("wbio_cb", 0))
            /\ UNCHANGED aborted
       ELSE /\ Abort("ssl_write")
            /\ UNCHANGED stack
  /\ UNCHANGED <<netVars, sslVars, poolState>>

CallbackReturn ==
  /\ At("connect_cb") \/ At("timer_cb")
  /\ top.left = 0
  /\ stack' = callers
  /\ UNCHANGED <<netVars, sslVars, poolState, aborted>>

\* on_ping, from the timer that the connect callback started.
PingTimer ==
  /\ Idle /\ connects > 0 /\ pings < MaxPings
  /\ pings' = pings + 1
  /\ stack' = <<Frame("timer_cb", 1)>>
  /\ UNCHANGED <<phase, wireVars, sslVars, poolState, aborted>>

-------------------------------------------------------------------------------
(* uv_ssl_wbio_cb. *)
WbioAcquire ==
  /\ At("wbio_cb")
  /\ AcquireFor("try_write")
  /\ UNCHANGED <<netVars, sslVars>>

\* A client's message of 16 kB less the overhead of a record, or more, is copied
\* over the end of the buffer (see RecordFits in ClientSend).
WbioWrite ==
  /\ At("try_write")
  /\ \/ /\ ReleaseTop
        /\ stack' = callers
        /\ flights' = IF stack[Len(stack) - 1].at = "handshake"
                        THEN flights + 1 ELSE flights
        /\ UNCHANGED aborted
     \/ /\ \/ "try_write" \in Faults /\ Abort("short_write")
           \/ /\ "big_record" \in Faults /\ stack[Len(stack) - 1].at \in Callbacks
              /\ Abort("overrun")
        /\ UNCHANGED <<stack, flights, poolState>>
  /\ UNCHANGED <<netVars, ssl, rcvd, taken, connects, fresh>>

-------------------------------------------------------------------------------
\* The loop blocks in poll when nothing is left; an aborted process is gone.
Rest ==
  /\ aborted # "no" \/ (Idle /\ phase \in {"open", "eof"})
  /\ UNCHANGED tcpVars

InCall ==
  \/ DefaultAllocCb \/ ReadCbData \/ ReadCbNothing \/ ReadCbReturn
  \/ HandshakeFlight \/ HandshakeRecord \/ HandshakeWantRead
  \/ HandshakeAlert \/ HandshakeFailed \/ HandshakeEnded
  \/ DoReadAcquire \/ SslReadData \/ SslReadWantRead \/ SslReadAlert \/ SslReadEnd \/ DataCbReturn
  \/ SslWrite \/ CallbackReturn \/ WbioAcquire \/ WbioWrite

TcpNext ==
  \/ Connect \/ DnsCb \/ ConnectCb \/ Arrive \/ Close
  \/ UvReadable \/ PingTimer \/ InCall \/ Rest

TcpSpec == TcpInit /\ [][TcpNext]_tcpVars

\* The thread keeps running, libuv completes requests and polls the socket,
\* and TCP delivers what the server sends.
TcpFairSpec ==
  /\ TcpSpec
  /\ WF_tcpVars(InCall)
  /\ WF_tcpVars(Connect \/ DnsCb \/ ConnectCb)
  /\ WF_tcpVars(Arrive)
  /\ WF_tcpVars(UvReadable)

-------------------------------------------------------------------------------
Locations == {"alloc_cb", "recv", "written", "handshake", "refused", "do_read", "ssl_read",
              "alerted", "data_cb", "connect_cb", "timer_cb", "wbio_cb", "try_write"}
Reasons   == {"no", "dns", "connect", "dangling", "ssl_write", "no_buffer", "short_write",
              "overrun"}

\* Types; the call stack is never deeper than the three calls described above.
TcpTypeOK ==
  /\ phase \in {"new", "resolving", "connecting", "open", "eof"}
  /\ ssl \in {"init", "ok", "failed", "ended", "shut", "broken"}
  /\ flights \in 0 .. H /\ taken \in 0 .. Records
  /\ arrived \in 0 .. 2 * Records /\ rcvd \in 0 .. arrived
  /\ closed \in BOOLEAN /\ fresh \in BOOLEAN
  /\ pool \in BP!Pool
  /\ Len(stack) <= 3
  /\ \A i \in 1 .. Len(stack) :
       stack[i] \in [at : Locations, buf : BP!Buf \cup {-1},
                    left : 0 .. 3 + MaxWrites]
  /\ leaked \subseteq BP!Buf
  /\ connects \in Nat /\ pings \in 0 .. MaxPings
  /\ aborted \in Reasons

\* Every buffer in use is held by exactly one active call or was leaked by
\* uv_ssl_read_cb: no path through the callbacks, however deep, releases a
\* buffer twice or forgets one elsewhere.
PoolBalanced ==
  /\ BP!PrefixIsHeld
  /\ pool.in_use = Cardinality(Frames) + Cardinality(leaked)

\* The calls nest three buffers deep, so the assertions on the pool
\* (uv_tcp_ssl.c:22, 96, 170) can fail only once all but two of the buffers
\* have leaked.
ExhaustionNeedsLeaks ==
  aborted = "no_buffer" => Cardinality(leaked) >= N - 2

\* Between callbacks nothing complete waits in the read BIO, except what came
\* in the same network read as the end of the handshake: uv_ssl_rbio_cb runs
\* the handshake or uv_ssl_read, never both.
DrainedWhenIdle ==
  (Idle /\ ssl = "ok" /\ complete > taken) => fresh

\* The connect callback runs once, and no message is delivered before it.
ConnectOnce ==
  /\ connects <= 1
  /\ \A i \in 1 .. Len(stack) : stack[i].at = "data_cb" => connects = 1

\* The connect callback does not look at its status: after a failed handshake the
\* greeting is the process's last act, which the assertion on SSL_write ends.  No
\* ping, no other read and no byte of the greeting come behind the failure.
FailedHandshakeIsFatal == ssl = "failed" => aborted = "ssl_write" \/ At("connect_cb")

\* Every record that arrives is handed on in the end, whatever fails or closes
\* later, except those stranded behind the end of the handshake; or the TLS
\* session or the process is over.
EventuallyDelivered ==
  <>[](\/ taken = arrived \div 2 \/ fresh
       \/ ssl \in {"ended", "shut", "broken"} \/ aborted # "no")

\* uv_tcp_ssl.c:22, :96 and :170 assert that the pool always has a buffer.
PoolNeverExhausted == aborted # "no_buffer"
===============================================================================
