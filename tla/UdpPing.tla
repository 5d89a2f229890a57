------------------------------- MODULE UdpPing --------------------------------
(***************************************************************************)
(* lib/mumble/udp_ping.c: decides whether voice may go by UDP.  A periodic *)
(* timer starts an attempt (remember the second, send it to the server,    *)
(* start the reply timer); a reply that echoes the second confirms the     *)
(* path, the reply timer gives it up.  Every CryptSetup of the server      *)
(* restarts the periodic timer, whatever attempt is under way.             *)
(*                                                                         *)
(* Time passes in seconds, the resolution of time(NULL).  A timer is an    *)
(* armed flag and the seconds left, which go below zero while the loop is  *)
(* late.  The clock is kept modulo Cycle, longer than a reply can be under *)
(* way, so that a behaviour may go on for ever.                            *)
(***************************************************************************)
EXTENDS Integers

CONSTANTS
  Timeout,      \* ping->timeout
  Period,       \* ping->ping_period
  MaxLate,      \* bound: seconds the loop may be late for a timer
  MaxAge,       \* bound: seconds a reply may be under way
  MaxStarts,    \* bound: CryptSetup messages
  MayStop       \* mumble_audio_stop is called

\* The two assertions of mumble_udp_ping_init_ex.
ASSUME PingAssumption ==
  /\ Timeout \in Nat \ {0} /\ Period \in Nat /\ Period > Timeout
  /\ MaxLate \in Nat /\ MaxAge \in Nat /\ MaxStarts \in Nat
  /\ MayStop \in BOOLEAN

Cycle == MaxAge + 3
After(t) == (t + 1) % Cycle

VARIABLES
  now,         \* time(NULL)
  connected,   \* ping->connected
  waiting,     \* ping->last_attempt.waiting
  timestamp,   \* ping->last_attempt.timestamp
  period,      \* ping->period_timer
  reply,       \* ping->reply_timer
  flying,      \* replies under way: [ts, age, and if of the latest attempt]
  answered,    \* history: a reply to the latest attempt's packet has arrived
  split,       \* history: the second changed between the two time(NULL) calls
               \* of the latest attempt
  falselyLost, \* history: another answered attempt was given up
  silence,     \* history: seconds connected since the last confirmation or
               \* start, counted up to SilenceCap
  stopped,     \* history: stopped, and no attempt begun since
  wanted,      \* history: started, and not stopped since
  starts       \* CryptSetup messages so far

pingVars == <<now, connected, waiting, timestamp, period, reply, flying,
              answered, split, falselyLost, silence, stopped, wanted, starts>>

TrustBound == Period + Timeout + 2 * MaxLate
SilenceCap == TrustBound + 1

Off       == [armed |-> FALSE, left |-> 0]
Armed(n)  == [armed |-> TRUE, left |-> n]
Due(t)    == t.armed /\ t.left <= 0
Passed(t) == IF t.armed THEN [t EXCEPT !.left = @ - 1] ELSE t
Late(t)   == t.armed /\ t.left <= -MaxLate

-------------------------------------------------------------------------------
\* mumble_udp_ping_init_ex
PingInit ==
  /\ now = 0 /\ connected = FALSE /\ waiting = FALSE /\ timestamp = 0
  /\ period = Off /\ reply = Off
  /\ flying = {} /\ answered = FALSE /\ split = FALSE /\ falselyLost = FALSE
  /\ silence = 0 /\ stopped = FALSE /\ wanted = FALSE /\ starts = 0

\* mumble_udp_ping_start, from mumble_audio_encryption.
Start ==
  /\ starts < MaxStarts
  /\ period' = Armed(0)
  /\ starts' = starts + 1
  /\ silence' = 0
  /\ wanted' = TRUE
  /\ UNCHANGED <<now, connected, waiting, timestamp, reply, flying, answered, split,
                 falselyLost, stopped>>

\* mumble_udp_ping_stop, from mumble_audio_stop: `waiting' is left as it is.
Stop ==
  /\ MayStop
  /\ period' = Off
  /\ reply' = Off
  /\ connected' = FALSE
  /\ silence' = 0
  /\ stopped' = TRUE
  /\ wanted' = FALSE
  /\ UNCHANGED <<now, waiting, timestamp, flying, answered, split, falselyLost, starts>>

\* libuv runs due timers in the order of their deadlines; the reply timer is
\* the older one when the deadlines are equal.
ReplyRuns  == Due(reply)  /\ (Due(period) => reply.left <= period.left)
PeriodRuns == Due(period) /\ ~ReplyRuns

\* What libuv does with a repeating timer before it calls back.
\* Faulty variant: a timer that fires once.
NoRepeat == Off
Repeated == Armed(Period)

\* The reply timer of a new attempt.
ReplyAfterTimeout == Armed(Timeout)

\* period_timer_cb: the attempt keeps one reading of the clock and the packet
\* carries the next one.  The server echoes it.
PeriodTimerCb ==
  /\ PeriodRuns
  /\ period' = Repeated
  /\ \E sent \in {now, After(now)} :
       /\ timestamp' = now
       /\ split' = (sent # now)
       /\ now' = sent
       /\ flying' = {[r EXCEPT !.latest = FALSE] : r \in flying}
                      \cup {[ts |-> sent, age |-> 0, latest |-> TRUE]}
  /\ waiting' = TRUE
  /\ reply' = ReplyAfterTimeout
  /\ answered' = FALSE
  /\ stopped' = FALSE
  /\ UNCHANGED <<connected, falselyLost, silence, wanted, starts>>

\* reply_timer_cb
\* Faulty variant: the attempt is not closed.
KeepWaiting ==
  /\ ReplyRuns
  /\ reply' = Off
  /\ connected' = FALSE
  /\ falselyLost' = (falselyLost \/ (answered /\ ~split))
  /\ silence' = 0
  /\ UNCHANGED <<now, waiting, timestamp, period, flying, answered, split, stopped, wanted,
                 starts>>
ReplyTimerCb ==
  /\ ReplyRuns
  /\ reply' = Off
  /\ connected' = FALSE
  /\ waiting' = FALSE
  /\ falselyLost' = (falselyLost \/ (answered /\ ~split))
  /\ silence' = 0
  /\ UNCHANGED <<now, timestamp, period, flying, answered, split, stopped, wanted,
                 starts>>

\* mumble_udp_ping_recv: what becomes of the pinger's state.
\* Faulty variant: the reply timer is left running.
AcceptKeepsTimer(ts) ==
  IF waiting /\ ts = timestamp
    THEN /\ connected' = TRUE /\ waiting' = FALSE /\ silence' = 0
         /\ UNCHANGED reply
    ELSE UNCHANGED <<connected, waiting, silence, reply>>
mumble_udp_ping_recv(ts) ==
  IF waiting /\ ts = timestamp
    THEN /\ connected' = TRUE /\ waiting' = FALSE /\ silence' = 0
         /\ reply' = Off
    ELSE UNCHANGED <<connected, waiting, silence, reply>>

\* A reply arrives; the network may deliver it again later.
Recv(r) ==
  /\ r \in flying
  /\ mumble_udp_ping_recv(r.ts)
  /\ answered' = (answered \/ r.latest)
  /\ flying' \in {flying, flying \ {r}}
  /\ UNCHANGED <<now, timestamp, period, split, falselyLost, stopped, wanted, starts>>

\* A ping or its reply is lost.
Lose(r) ==
  /\ r \in flying
  /\ flying' = flying \ {r}
  /\ UNCHANGED <<now, connected, waiting, timestamp, period, reply, answered,
                 split, falselyLost, silence, stopped, wanted, starts>>

\* A second passes.  The loop runs a timer before it is more than MaxLate late.
Tick ==
  /\ ~Late(period) /\ ~Late(reply)
  /\ now' = After(now)
  /\ period' = Passed(period)
  /\ reply' = Passed(reply)
  /\ flying' = {[r EXCEPT !.age = @ + 1] : r \in {f \in flying : f.age < MaxAge}}
  /\ silence' = IF ~connected THEN 0
                ELSE IF silence < SilenceCap THEN silence + 1 ELSE silence
  /\ UNCHANGED <<connected, waiting, timestamp, answered, split, falselyLost, stopped,
                 wanted, starts>>

Timers == PeriodTimerCb \/ ReplyTimerCb

PingNext ==
  \/ Start \/ Stop \/ Timers \/ Tick
  \/ \E r \in flying : Recv(r) \/ Lose(r)

PingSpec == PingInit /\ [][PingNext]_pingVars

\* Time passes and the loop runs its timers.
PingFairSpec ==
  PingSpec /\ WF_pingVars(Tick) /\ WF_pingVars(Timers)

-------------------------------------------------------------------------------
Timer(n) == [armed : BOOLEAN, left : -MaxLate .. n]

\* Types.
PingTypeOK ==
  /\ now \in 0 .. Cycle - 1 /\ timestamp \in 0 .. Cycle - 1
  /\ connected \in BOOLEAN /\ waiting \in BOOLEAN
  /\ period \in Timer(Period) /\ reply \in Timer(Timeout)
  /\ \A r \in flying : r \in [ts : 0 .. Cycle - 1, age : 0 .. MaxAge, latest : BOOLEAN]
  /\ answered \in BOOLEAN /\ split \in BOOLEAN /\ falselyLost \in BOOLEAN
  /\ wanted \in BOOLEAN
  /\ silence \in 0 .. SilenceCap /\ stopped \in BOOLEAN /\ starts \in 0 .. MaxStarts

\* An attempt is waited for exactly while its reply timer runs, so it ends one
\* way or the other, except after a stop, which leaves `waiting' set.
WaitingIsTimed ==
  /\ reply.armed => waiting
  /\ waiting /\ ~stopped => reply.armed

\* The path is believed in for at most one period and one timeout after the
\* last confirmation or restart, plus what the loop was late for two timers:
\* for no longer is voice sent into a dead path.  After a stop a late reply
\* can still set `connected', and then nothing takes it back.
StaleTrustBounded == connected /\ ~stopped => silence <= TrustBound

\* udp_ping.c:25, "On a timeout, consider the ping lost": an attempt whose
\* reply arrived before its timer ran is not timed out, whatever restarts and
\* older replies came in between, except when the second changed between the
\* two readings of the clock: then no reply can match.
TimeoutMeansLost == ~falselyLost

\* As long as it is not stopped, attempts are made for ever: a dead path is
\* tried again.
AttemptsForever == <>[]wanted => []<>waiting

\* Every attempt comes to an end, unless a stop leaves it waiting.
AttemptsEnd == waiting ~> (~waiting \/ stopped)
===============================================================================
