---------------------------- MODULE UdpPingProofs -----------------------------
(***************************************************************************)
(* For every timeout, period and lateness of the loop, and whatever the    *)
(* network does with the replies: an attempt is timed while it is waited   *)
(* for, and the UDP path is trusted for a bounded time only.               *)
(***************************************************************************)
EXTENDS UdpPing, TLAPS

\* The part of the types that the argument needs.
TimersOK ==
  /\ connected \in BOOLEAN /\ waiting \in BOOLEAN /\ stopped \in BOOLEAN
  /\ period \in Timer(Period) /\ reply \in Timer(Timeout)
  /\ silence \in Nat

\* Unless stopped, whoever waits or is connected has the periodic timer on.
PeriodOn == (waiting \/ connected) /\ ~stopped => period.armed

\* How silence is paid for.  While connected it only grows as one of the two
\* timers runs down: the reply timer if an attempt is under way, and else the
\* periodic one.  The periodic timer is the later one of the two during an
\* attempt unless a restart has just set both silence and it to zero.
SilencePaid ==
  connected /\ period.armed =>
    /\ reply.armed => silence + reply.left <= Period + MaxLate + Timeout
    /\ \/ reply.armed /\ reply.left < period.left
       \/ silence + period.left <= Period

PingInv == TimersOK /\ WaitingIsTimed /\ PeriodOn /\ SilencePaid

USE DEF Timer

\* A timer set to run in n seconds, one that is off, and one second later.
LEMMA TimerFields ==
  ASSUME NEW n \in Nat
  PROVE  /\ Armed(n).armed /\ Armed(n).left = n
         /\ ~Off.armed
         /\ Armed(n) \in Timer(n) /\ Off \in Timer(n)
BY PingAssumption DEF Armed, Off

\* Nothing waits and no timer runs after mumble_udp_ping_init_ex.
LEMMA PingInitInv == PingInit => PingInv
<1> SUFFICES ASSUME PingInit PROVE PingInv
  OBVIOUS
<1>1. TimersOK
  BY TimerFields, PingAssumption DEF PingInit, TimersOK
<1>2. ~period.armed /\ ~reply.armed /\ ~waiting /\ ~connected
  BY DEF PingInit, Off
<1> QED
  BY <1>1, <1>2 DEF PingInv, WaitingIsTimed, PeriodOn, SilencePaid

\* mumble_udp_ping_start
LEMMA StartInv == PingInv /\ Start => PingInv'
<1> SUFFICES ASSUME PingInv, Start PROVE PingInv'
  OBVIOUS
<1>1. /\ period' = Armed(0) /\ silence' = 0 /\ reply' = reply
      /\ connected' = connected /\ waiting' = waiting /\ stopped' = stopped
  BY DEF Start
<1>2. period'.armed /\ period'.left = 0 /\ period' \in Timer(Period)
  BY <1>1, PingAssumption DEF Armed
<1>3. TimersOK'
  BY <1>1, <1>2 DEF PingInv, TimersOK
<1>4. WaitingIsTimed'
  BY <1>1 DEF PingInv, WaitingIsTimed
<1>5. SilencePaid'
  BY <1>1, <1>2, PingAssumption DEF PingInv, TimersOK, SilencePaid
<1> QED
  BY <1>2, <1>3, <1>4, <1>5 DEF PingInv, PeriodOn

\* mumble_udp_ping_stop
LEMMA StopInv == PingInv /\ Stop => PingInv'
<1> SUFFICES ASSUME PingInv, Stop PROVE PingInv'
  OBVIOUS
<1>1. /\ period' = Off /\ reply' = Off /\ connected' = FALSE /\ stopped' = TRUE
      /\ waiting' = waiting /\ silence' = 0
  BY DEF Stop
<1>2. ~period'.armed /\ period' \in Timer(Period)
  BY <1>1, TimerFields, PingAssumption
<1>3. ~reply'.armed /\ reply' \in Timer(Timeout)
  BY <1>1, TimerFields, PingAssumption
<1>4. TimersOK'
  BY <1>1, <1>2, <1>3 DEF PingInv, TimersOK
<1> QED
  BY <1>1, <1>2, <1>3, <1>4 DEF PingInv, WaitingIsTimed, PeriodOn, SilencePaid

\* period_timer_cb: the periodic timer only runs when the reply timer does not
\* go first, so silence was paid for by the periodic timer.
LEMMA PeriodTimerInv == PingInv /\ PeriodTimerCb => PingInv'
<1> SUFFICES ASSUME PingInv, PeriodTimerCb PROVE PingInv'
  OBVIOUS
<1>1. /\ period' = Armed(Period) /\ reply' = Armed(Timeout)
      /\ waiting' = TRUE /\ stopped' = FALSE
      /\ connected' = connected /\ silence' = silence
  BY DEF PeriodTimerCb, Repeated, ReplyAfterTimeout
<1>2. /\ period'.armed /\ period'.left = Period /\ period' \in Timer(Period)
      /\ reply'.armed /\ reply'.left = Timeout /\ reply' \in Timer(Timeout)
  BY <1>1, PingAssumption DEF Armed
<1>3. TimersOK'
  BY <1>1, <1>2 DEF PingInv, TimersOK
<1>4. WaitingIsTimed' /\ PeriodOn'
  BY <1>1, <1>2 DEF WaitingIsTimed, PeriodOn
<1>5. period.armed /\ period.left <= 0 /\ ~ReplyRuns
  BY DEF PeriodTimerCb, PeriodRuns, Due
<1>6. /\ period.left \in -MaxLate .. Period /\ reply.left \in -MaxLate .. Timeout
      /\ silence \in Nat /\ Timeout \in Nat /\ Period \in Nat /\ MaxLate \in Nat
      /\ Timeout < Period
  BY PingAssumption DEF PingInv, TimersOK
<1>7. ~(reply.armed /\ reply.left < period.left)
  BY <1>5, <1>6 DEF ReplyRuns, Due
<1>8. connected => silence + period.left <= Period
  BY <1>5, <1>7 DEF PingInv, SilencePaid
<1>9. connected => silence + Timeout <= Period + MaxLate + Timeout
  BY <1>5, <1>6, <1>8
<1>10. SilencePaid'
  BY <1>1, <1>2, <1>6, <1>9 DEF SilencePaid
<1> QED
  BY <1>3, <1>4, <1>10 DEF PingInv

\* reply_timer_cb
LEMMA ReplyTimerInv == PingInv /\ ReplyTimerCb => PingInv'
<1> SUFFICES ASSUME PingInv, ReplyTimerCb PROVE PingInv'
  OBVIOUS
<1>1. /\ ~reply'.armed /\ reply' \in Timer(Timeout)
      /\ connected' = FALSE /\ waiting' = FALSE
      /\ period' = period /\ silence' = 0 /\ stopped' = stopped
  BY PingAssumption DEF ReplyTimerCb, Off
<1> QED
  BY <1>1 DEF PingInv, TimersOK, WaitingIsTimed, PeriodOn, SilencePaid

\* mumble_udp_ping_recv
LEMMA RecvInv == ASSUME PingInv, NEW r \in flying, Recv(r) PROVE PingInv'
<1>1. period' = period /\ stopped' = stopped
  BY DEF Recv
<1>2. CASE waiting /\ r.ts = timestamp
  <2>0. /\ connected' = TRUE /\ waiting' = FALSE /\ silence' = 0 /\ reply' = Off
    BY <1>2 DEF Recv, mumble_udp_ping_recv
  <2>1. /\ connected' = TRUE /\ waiting' = FALSE /\ silence' = 0
        /\ ~reply'.armed /\ reply' \in Timer(Timeout)
    BY <2>0, TimerFields, PingAssumption
  <2>2. TimersOK'
    BY <1>1, <2>1 DEF PingInv, TimersOK
  <2>3. WaitingIsTimed' /\ PeriodOn'
    BY <1>1, <1>2, <2>1 DEF PingInv, WaitingIsTimed, PeriodOn
  <2>4. period.left \in -MaxLate .. Period /\ Period \in Nat /\ MaxLate \in Nat
    BY PingAssumption DEF PingInv, TimersOK
  <2>5. SilencePaid'
    BY <1>1, <2>1, <2>4 DEF SilencePaid
  <2> QED
    BY <2>2, <2>3, <2>5 DEF PingInv
<1>3. CASE ~(waiting /\ r.ts = timestamp)
  <2>1. UNCHANGED <<connected, waiting, silence, reply>>
    BY <1>3 DEF Recv, mumble_udp_ping_recv
  <2> QED
    BY <1>1, <2>1 DEF PingInv, TimersOK, WaitingIsTimed, PeriodOn, SilencePaid
<1> QED
  BY <1>2, <1>3

\* One second: silence grows by at most what every armed timer loses.
LEMMA TickInv == PingInv /\ Tick => PingInv'
<1> SUFFICES ASSUME PingInv, Tick PROVE PingInv'
  OBVIOUS
<1>1. /\ connected' = connected /\ waiting' = waiting /\ stopped' = stopped
      /\ period' = Passed(period) /\ reply' = Passed(reply)
  BY DEF Tick
<1>2. /\ period \in Timer(Period) /\ reply \in Timer(Timeout) /\ silence \in Nat
      /\ Timeout \in Nat /\ Period \in Nat /\ MaxLate \in Nat
  BY PingAssumption DEF PingInv, TimersOK
<1>3. silence' \in Nat /\ silence' <= silence + 1
  BY <1>2, PingAssumption DEF Tick, SilenceCap, TrustBound
<1>4. /\ period' \in Timer(Period) /\ period'.armed = period.armed
      /\ period.armed => period'.left = period.left - 1
  BY <1>1, <1>2 DEF Tick, Passed, Late
<1>5. /\ reply' \in Timer(Timeout) /\ reply'.armed = reply.armed
      /\ reply.armed => reply'.left = reply.left - 1
  BY <1>1, <1>2 DEF Tick, Passed, Late
<1>6. TimersOK'
  BY <1>1, <1>3, <1>4, <1>5 DEF PingInv, TimersOK
<1>7. WaitingIsTimed' /\ PeriodOn'
  BY <1>1, <1>4, <1>5 DEF PingInv, WaitingIsTimed, PeriodOn
<1>8. period.left \in Int /\ reply.left \in Int
  BY <1>2
<1>9. SilencePaid'
  BY <1>1, <1>2, <1>3, <1>4, <1>5, <1>8 DEF PingInv, SilencePaid
<1> QED
  BY <1>6, <1>7, <1>9 DEF PingInv

\* Every step preserves the invariant.
LEMMA PingNextInv == PingInv /\ [PingNext]_pingVars => PingInv'
<1> SUFFICES ASSUME PingInv, [PingNext]_pingVars PROVE PingInv'
  OBVIOUS
<1>1. CASE Start
  BY <1>1, StartInv
<1>2. CASE Stop
  BY <1>2, StopInv
<1>3. CASE PeriodTimerCb
  BY <1>3, PeriodTimerInv
<1>4. CASE ReplyTimerCb
  BY <1>4, ReplyTimerInv
<1>5. CASE Tick
  BY <1>5, TickInv
<1>6. ASSUME NEW r \in flying, Recv(r) PROVE PingInv'
  BY <1>6, RecvInv
<1>7. ASSUME NEW r \in flying, Lose(r) PROVE PingInv'
  BY <1>7 DEF Lose, PingInv, TimersOK, WaitingIsTimed, PeriodOn, SilencePaid
<1>8. CASE UNCHANGED pingVars
  BY <1>8 DEF pingVars, PingInv, TimersOK, WaitingIsTimed, PeriodOn, SilencePaid
<1> QED
  BY <1>1, <1>2, <1>3, <1>4, <1>5, <1>6, <1>7, <1>8 DEF PingNext, Timers

\* The invariant holds for every timeout, period and lateness.
THEOREM PingCorrect == PingSpec => []PingInv
BY PingInitInv, PingNextInv, PTL DEF PingSpec

\* An attempt is waited for exactly while its reply timer runs, unless the
\* pinger was stopped.
THEOREM PingWaitingIsTimed == PingSpec => []WaitingIsTimed
<1>1. PingInv => WaitingIsTimed
  BY DEF PingInv
<1> QED
  BY <1>1, PingCorrect, PTL

\* However late the loop, and however the network loses, delays or repeats
\* replies, a dead path is trusted for Period + Timeout + 2 * MaxLate seconds
\* after the last confirmation or restart at most.
THEOREM PingTrustBounded == PingSpec => []StaleTrustBounded
<1>1. PingInv => StaleTrustBounded
  <2> SUFFICES ASSUME PingInv, connected, ~stopped
               PROVE  silence <= Period + Timeout + 2 * MaxLate
    BY DEF StaleTrustBounded, TrustBound
  <2>1. period.armed
    BY DEF PingInv, PeriodOn
  <2>2. /\ period.left \in -MaxLate .. Period /\ reply.left \in -MaxLate .. Timeout
        /\ silence \in Nat /\ Timeout \in Nat /\ Period \in Nat /\ MaxLate \in Nat
    BY PingAssumption DEF PingInv, TimersOK
  <2>3. CASE reply.armed
    BY <2>1, <2>2, <2>3 DEF PingInv, SilencePaid
  <2>4. CASE ~reply.armed
    BY <2>1, <2>2, <2>4 DEF PingInv, SilencePaid
  <2> QED
    BY <2>3, <2>4
<1> QED
  BY <1>1, PingCorrect, PTL
-------------------------------------------------------------------------------
\* Why an answered attempt is not given up: a reply to its packet carries the
\* second the attempt remembers, unless the clock moved on between the two
\* readings, so while the reply timer runs (and the attempt is waited for) the
\* reply is accepted, which turns the timer off.
FlyingOK == \A r \in flying : r \in [ts : Int, age : Int, latest : BOOLEAN]
LatestMatches == ~split => \A r \in flying : r.latest => r.ts = timestamp
AnsweredIsDone == answered /\ ~split => ~reply.armed

LossInv ==
  /\ FlyingOK /\ LatestMatches /\ AnsweredIsDone /\ TimeoutMeansLost
  /\ now \in Int /\ split \in BOOLEAN

\* No reply is under way in the beginning.
LEMMA LossInitInv == PingInit => LossInv
<1> SUFFICES ASSUME PingInit PROVE LossInv
  OBVIOUS
<1>1. flying = {} /\ ~answered /\ ~falselyLost /\ split \in BOOLEAN
  BY Zenon DEF PingInit
<1>2. now \in Int
  BY DEF PingInit
<1> QED
  BY <1>1, <1>2 DEF LossInv, FlyingOK, LatestMatches, AnsweredIsDone, TimeoutMeansLost

\* Replies to earlier attempts are no longer the latest; the new one carries
\* what the attempt remembers if the second did not change.
LEMMA LossPeriodInv == LossInv /\ PeriodTimerCb => LossInv'
<1> SUFFICES ASSUME LossInv, PeriodTimerCb PROVE LossInv'
  OBVIOUS
<1>1. PICK sent \in {now, After(now)} :
        /\ timestamp' = now
        /\ split' = (sent # now)
        /\ now' = sent
        /\ flying' = {[r EXCEPT !.latest = FALSE] : r \in flying}
                       \cup {[ts |-> sent, age |-> 0, latest |-> TRUE]}
  BY DEF PeriodTimerCb
<1>2. answered' = FALSE /\ falselyLost' = falselyLost
  BY DEF PeriodTimerCb
<1>3. now \in Int /\ After(now) \in Int
  BY PingAssumption DEF LossInv, After, Cycle
<1>4. ASSUME NEW q \in flying'
      PROVE  /\ q \in [ts : Int, age : Int, latest : BOOLEAN]
             /\ q.latest => q.ts = sent
  <2>1. CASE q = [ts |-> sent, age |-> 0, latest |-> TRUE]
    BY <1>3, <2>1
  <2>2. ASSUME NEW r \in flying, q = [r EXCEPT !.latest = FALSE]
        PROVE  q \in [ts : Int, age : Int, latest : BOOLEAN] /\ ~q.latest
    BY <2>2 DEF LossInv, FlyingOK
  <2> QED
    BY <1>1, <2>1, <2>2
<1>5. FlyingOK'
  BY <1>4 DEF FlyingOK
<1>6. LatestMatches'
  BY <1>1, <1>4 DEF LatestMatches
<1>7. AnsweredIsDone' /\ TimeoutMeansLost'
  BY <1>2 DEF LossInv, AnsweredIsDone, TimeoutMeansLost
<1> QED
  BY <1>1, <1>3, <1>5, <1>6, <1>7 DEF LossInv

\* mumble_udp_ping_recv: whoever is still timed is waited for, so the reply to
\* the latest packet is taken.
LEMMA LossRecvInv ==
  ASSUME PingInv, LossInv, NEW r \in flying, Recv(r)
  PROVE  LossInv'
<1>1. /\ now' = now /\ timestamp' = timestamp /\ split' = split
      /\ falselyLost' = falselyLost /\ flying' \subseteq flying
      /\ answered' = (answered \/ r.latest)
  BY DEF Recv
<1>2. FlyingOK' /\ LatestMatches' /\ TimeoutMeansLost'
  BY <1>1 DEF LossInv, FlyingOK, LatestMatches, TimeoutMeansLost
<1>3. CASE waiting /\ r.ts = timestamp
  <2>1. ~reply'.armed
    BY <1>3 DEF Recv, mumble_udp_ping_recv, Off
  <2> QED
    BY <1>1, <1>2, <2>1 DEF LossInv, AnsweredIsDone
<1>4. CASE ~(waiting /\ r.ts = timestamp)
  <2>1. reply' = reply
    BY <1>4 DEF Recv, mumble_udp_ping_recv
  <2>2. r.latest /\ ~split => ~waiting
    BY <1>4 DEF LossInv, LatestMatches
  <2>3. r.latest /\ ~split => ~reply.armed
    BY <2>2 DEF PingInv, WaitingIsTimed
  <2>4. AnsweredIsDone'
    BY <1>1, <2>1, <2>3 DEF LossInv, AnsweredIsDone
  <2> QED
    BY <1>1, <1>2, <2>4 DEF LossInv
<1> QED
  BY <1>3, <1>4

\* A second ages the replies and leaves the armed timers armed.
LEMMA LossTickInv == PingInv /\ LossInv /\ Tick => LossInv'
<1> SUFFICES ASSUME PingInv, LossInv, Tick PROVE LossInv'
  OBVIOUS
<1>1. /\ now' = After(now) /\ timestamp' = timestamp /\ split' = split
      /\ falselyLost' = falselyLost /\ answered' = answered
      /\ flying' = {[r EXCEPT !.age = @ + 1] : r \in {f \in flying : f.age < MaxAge}}
  BY DEF Tick
<1>2. now' \in Int
  BY <1>1, PingAssumption DEF LossInv, After, Cycle
<1>3. ASSUME NEW q \in flying'
      PROVE  /\ q \in [ts : Int, age : Int, latest : BOOLEAN]
             /\ ~split /\ q.latest => q.ts = timestamp
  <2>1. PICK r \in flying : q = [r EXCEPT !.age = @ + 1]
    BY <1>1
  <2>2. r \in [ts : Int, age : Int, latest : BOOLEAN]
    BY DEF LossInv, FlyingOK
  <2>3. q.ts = r.ts /\ q.latest = r.latest
        /\ q \in [ts : Int, age : Int, latest : BOOLEAN]
    BY <2>1, <2>2
  <2> QED
    BY <2>3 DEF LossInv, LatestMatches
<1>4. reply'.armed = reply.armed
  <2>1. reply \in Timer(Timeout) /\ reply' = Passed(reply)
    BY DEF Tick, PingInv, TimersOK
  <2> QED
    BY <2>1 DEF Passed
<1>5. FlyingOK' /\ LatestMatches'
  BY <1>1, <1>3 DEF FlyingOK, LatestMatches
<1>6. AnsweredIsDone' /\ TimeoutMeansLost'
  BY <1>1, <1>4 DEF LossInv, AnsweredIsDone, TimeoutMeansLost
<1> QED
  BY <1>1, <1>2, <1>5, <1>6 DEF LossInv

\* Every step keeps the reason, and the conclusion.
LEMMA LossNextInv == PingInv /\ LossInv /\ [PingNext]_pingVars => LossInv'
<1> SUFFICES ASSUME PingInv, LossInv, [PingNext]_pingVars PROVE LossInv'
  OBVIOUS
<1> USE DEF LossInv, FlyingOK, LatestMatches, AnsweredIsDone, TimeoutMeansLost
<1>1. CASE Start
  BY <1>1 DEF Start
<1>2. CASE Stop
  BY <1>2 DEF Stop, Off
<1>3. CASE PeriodTimerCb
  BY <1>3, LossPeriodInv
<1>4. CASE ReplyTimerCb
  <2>1. reply.armed /\ ~reply'.armed
    BY <1>4 DEF ReplyTimerCb, ReplyRuns, Due, Off
  <2> QED
    BY <1>4, <2>1 DEF ReplyTimerCb
<1>5. CASE Tick
  BY <1>5, LossTickInv
<1>6. ASSUME NEW r \in flying, Recv(r) PROVE LossInv'
  BY <1>6, LossRecvInv
<1>7. ASSUME NEW r \in flying, Lose(r) PROVE LossInv'
  BY <1>7 DEF Lose
<1>8. CASE UNCHANGED pingVars
  BY <1>8 DEF pingVars
<1> QED
  BY <1>1, <1>2, <1>3, <1>4, <1>5, <1>6, <1>7, <1>8 DEF PingNext, Timers

\* An attempt that was answered in time is never taken for lost, for every
\* timeout, period, lateness and delay, except when the second changed between
\* the two readings of the clock.
THEOREM PingTimeoutMeansLost == PingSpec => []TimeoutMeansLost
<1>1. LossInv => TimeoutMeansLost
  BY DEF LossInv
<1> QED
  BY <1>1, PingCorrect, LossInitInv, LossNextInv, PTL DEF PingSpec
===============================================================================
