------------------------------ MODULE HttpApiInv ------------------------------
(***************************************************************************)
(* The inductive invariant of HttpApi.  What the limiter promises rests on *)
(* the numbers that one lifetime of a counter has given out: each once,    *)
(* without gaps, and in a span of its own.                                 *)
(***************************************************************************)
EXTENDS HttpApi

W == AUTH_RATE_LIMIT_WINDOW_SECONDS
Counted(r) == calls[r].current > 0
SameCounter(r, s) == calls[r].key = calls[s].key /\ calls[r].life = calls[s].life

\* A number given out belongs to a lifetime that has begun, and is below what
\* the counter has reached if it is the present one.
CountsBelong == \A r \in Requests : Counted(r) =>
  LET c == calls[r] IN
  /\ c.key \in Keys /\ c.at <= now
  /\ c.life <= counters[c.key].life
  /\ c.life = counters[c.key].life => c.current <= counters[c.key].count

CountsDiffer == \A r, s \in Requests :
  Counted(r) /\ Counted(s) /\ SameCounter(r, s) /\ calls[r].current = calls[s].current => r = s

CountsFill ==
  /\ \A k \in Keys : \A i \in 1..counters[k].count :
       \E r \in Requests : calls[r].current = i /\ calls[r].key = k /\ calls[r].life = counters[k].life
  /\ \A r \in Requests : Counted(r) => \A i \in 1..calls[r].current :
       \E s \in Requests : calls[s].current = i /\ SameCounter(r, s)

\* A key that does not exist has no expiry.
FreshLacksExpiry == \A k \in Keys : counters[k].count = 0 => counters[k].expires = None

\* Whoever is about to set an expiry created the counter, which has none.
FirstSetsExpiry == \A r \in Requests : calls[r].pc = "counted" =>
  LET c == calls[r] IN
  /\ c.current = 1
  /\ c.life = counters[c.key].life /\ counters[c.key].expires = None

\* A lifetime lasts a window from its first number at least, and another one
\* begins later.
LifetimesLast == \A r \in Requests : Counted(r) =>
  LET c == calls[r] IN
  /\ c.current = 1 /\ c.life = counters[c.key].life /\ counters[c.key].expires # None
       => c.at + W <= counters[c.key].expires
  /\ c.life < counters[c.key].life => c.at < now /\ (c.current = 1 => c.at + W <= now)
LifetimesApart == \A r, s \in Requests :
  Counted(r) /\ Counted(s) /\ calls[r].key = calls[s].key /\ calls[r].life < calls[s].life
    => calls[r].at < calls[s].at /\ (calls[r].current = 1 => calls[r].at + W <= calls[s].at)

\* What is known of a request at each point.
Progressed == \A r \in Requests :
  LET c == calls[r] IN
  /\ c.pc \in {"idle", "arrived"} => c.current = 0 /\ ~c.admitted
  /\ c.pc \in {"arrived", "counted"} => c.route.limiter # "none" /\ ~c.admitted
  /\ c.pc \in {"arrived", "counted", "admitted"} => (c.body # "none" => c.route.body)
  /\ c.pc = "admitted" /\ c.route.limiter # "none" => c.admitted
  /\ c.pc # "answered" => c.status = 0
  /\ c.admitted => Counted(r) /\ c.current <= Limit
  /\ c.status = 429 /\ ~c.admitted => c.current > Limit

Cleanups == /\ phase \in {"closing", "stopped"} => "db_engine" \in cleaned
            /\ phase = "stopped" => "redis_client" \in cleaned

\* What the counters and the numbers given out have to do with each other.
Counting ==
  /\ CountsBelong /\ CountsDiffer /\ CountsFill /\ FreshLacksExpiry /\ FirstSetsExpiry
  /\ LifetimesLast /\ LifetimesApart /\ CounterLeftOnlyByFailure

\* (inductive invariant)
IInv ==
  /\ TypeOK /\ Counting /\ Progressed /\ Cleanups
  /\ DocumentedStatus /\ ForbiddenIsNotUnauthenticated
===============================================================================
