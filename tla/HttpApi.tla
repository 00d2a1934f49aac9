-------------------------------- MODULE HttpApi -------------------------------
(***************************************************************************)
(* A worker of the API from its start to its shutdown and the requests it  *)
(* serves: JSON, the rate limiter's calls to Redis, the access token, the  *)
(* payload, the service's result, the response.  Redis outlives the        *)
(* worker; each call to it may fail, before or after it took effect.       *)
(* `now' is Redis's clock, in some fraction of a window.                   *)
(***************************************************************************)
EXTENDS Endpoints

CONSTANTS
  Requests,           \* requests the worker receives
  Loads,              \* what the clients of a behaviour ask for: routes, bodies
  Clients, Phones,    \* addresses requests come from, phone numbers in bodies
  TokenRoles,         \* role claims that access tokens carry
  AUTH_RATE_LIMIT_PER_MINUTE, AUTH_RATE_LIMIT_WINDOW_SECONDS,
  MaxTime,            \* bound of the clock
  None

Bodies == {"none", "undecodable", "malformed", "not_object", "invalid", "valid"}
\* What the limiter counts: requests for a path from one client or phone number.
Paths == {route.at[2] : route \in {route \in v1_router : route.limiter # "none"}}
Keys == Paths \X (Clients \cup Phones)

ASSUME HttpAssumption ==
  /\ IsFiniteSet(Requests)
  /\ Loads \subseteq [Requests -> [routes: SUBSET v1_router, bodies: SUBSET Bodies]]
  /\ TokenRoles \subseteq SUBSET Roles
  /\ AUTH_RATE_LIMIT_PER_MINUTE \in Nat /\ AUTH_RATE_LIMIT_WINDOW_SECONDS \in Nat \ {0}
  /\ MaxTime \in Nat
  /\ None \notin Nat /\ None \notin v1_router /\ None \notin AccessToken \cup Keys

VARIABLES
  load,      \* one of Loads
  phase,     \* of the worker's lifespan
  cleaned,   \* what the shutdown has tried to close
  now,
  counters,  \* Redis: count and expiry of each key; life numbers its lifetimes
  calls      \* each request: input, progress, answer

vars == <<load, phase, cleaned, now, counters, calls>>

Time == 0..MaxTime
Tokens == [reads: Readings, roles: TokenRoles]

\* current is what INCR returned, or would have; life is that of its counter.
Call == [pc: {"idle", "arrived", "counted", "admitted", "answered", "lost"},
         route: v1_router \cup {None}, key: Keys \cup {None}, body: Bodies,
         token: Tokens \cup {None}, current: Nat, life: Nat, at: Time,
         admitted: BOOLEAN, status: Nat, challenge: BOOLEAN]
Unsent == [pc |-> "idle", route |-> None, key |-> None, body |-> "none", token |-> None,
           current |-> 0, life |-> 0, at |-> 0, admitted |-> FALSE,
           status |-> 0, challenge |-> FALSE]
Absent(life) == [count |-> 0, expires |-> None, life |-> life]

-----------------------------------------------------------------------------
(* Responses *)

Answered(c, status, challenge) ==
  [c EXCEPT !.pc = "answered", !.status = status, !.challenge = challenge]
\* business_, validation_, http_ and unexpected_exception_handler.
Raised(c, error) == Answered(c, error.status, error.challenge)

-----------------------------------------------------------------------------
(* Rate limiter *)

\* _resolve_identity: the phone number of the body, else the client.
_resolve_identity(route, client, phone) ==
  IF route.limiter = "phone" /\ phone # None THEN phone ELSE client

\* (slip: the limit itself is refused)
JudgedStrictly(c) ==
  IF c.current >= AUTH_RATE_LIMIT_PER_MINUTE THEN Raised(c, RateLimitExceededError)
  ELSE [c EXCEPT !.pc = "admitted", !.admitted = TRUE]
Judged(c) ==
  IF c.current > AUTH_RATE_LIMIT_PER_MINUTE THEN Raised(c, RateLimitExceededError)
  ELSE [c EXCEPT !.pc = "admitted", !.admitted = TRUE]

\* A request arrives.  FastAPI reads its body before any dependency: what it
\* cannot decode (no UTF-8, nested too deeply) and what is no JSON goes no
\* further, and what is JSON but no object ends _resolve_identity.
Receive(r) ==
  /\ phase = "serving" /\ calls[r].pc = "idle"
  /\ \E route \in load[r].routes, body \in load[r].bodies,
        client \in Clients, phone \in Phones \cup {None} :
       /\ body = "none" <=> ~route.body
       /\ phone # None => body \in {"invalid", "valid"} /\ route.limiter = "phone"
       /\ body = "valid" /\ route.limiter = "phone" => phone # None
       /\ LET c == [calls[r] EXCEPT !.route = route, !.body = body] IN
          calls' = [calls EXCEPT ![r] =
            IF body = "undecodable" THEN Raised(c, UndecodableBodyError)
            ELSE IF body = "malformed" THEN Raised(c, RequestValidationError)
            ELSE IF route.limiter = "none" THEN [c EXCEPT !.pc = "admitted"]
            ELSE IF route.limiter = "phone" /\ body = "not_object" THEN Raised(c, UnexpectedError)
            ELSE [c EXCEPT !.pc = "arrived",
                           !.key = <<route.at[2], _resolve_identity(route, client, phone)>>]]
  /\ UNCHANGED <<load, phase, cleaned, now, counters>>

\* (slip: a counter without an expiry starts anew)
IncrStale(r) ==
  LET c == calls[r]
      n == IF counters[c.key].expires = None THEN 1 ELSE counters[c.key].count + 1
      counted == [c EXCEPT !.current = n, !.life = counters[c.key].life, !.at = now] IN
  /\ c.pc = "arrived"
  /\ counters' = [counters EXCEPT ![c.key].count = n]
  /\ calls' = [calls EXCEPT ![r] = IF n = 1 THEN [counted EXCEPT !.pc = "counted"] ELSE Judged(counted)]
  /\ UNCHANGED <<load, phase, cleaned, now>>

\* (slip: EXPIRE is left to the second request)
IncrUnexpired(r) ==
  LET c == calls[r]
      n == counters[c.key].count + 1
      counted == [c EXCEPT !.current = n, !.life = counters[c.key].life, !.at = now] IN
  /\ c.pc = "arrived"
  /\ counters' = [counters EXCEPT ![c.key].count = n]
  /\ calls' = [calls EXCEPT ![r] = IF n = 2 THEN [counted EXCEPT !.pc = "counted"] ELSE Judged(counted)]
  /\ UNCHANGED <<load, phase, cleaned, now>>

\* INCR: done, or done with its answer lost.
Incr(r) ==
  LET c == calls[r]
      n == counters[c.key].count + 1
      counted == [c EXCEPT !.current = n, !.life = counters[c.key].life, !.at = now] IN
  /\ c.pc = "arrived"
  /\ counters' = [counters EXCEPT ![c.key].count = n]
  /\ \/ calls' = [calls EXCEPT ![r] =
          IF n = 1 THEN [counted EXCEPT !.pc = "counted"] ELSE Judged(counted)]
     \/ calls' = [calls EXCEPT ![r] = Raised(counted, UnexpectedError)]
  /\ UNCHANGED <<load, phase, cleaned, now>>

\* (slip: a window shorter than the configured one)
ExpireEarly(r) ==
  LET c == calls[r] IN
  /\ c.pc = "counted"
  /\ counters' = [counters EXCEPT ![c.key].expires = now + 1]
  /\ \/ calls' = [calls EXCEPT ![r] = Judged(c)]
     \/ calls' = [calls EXCEPT ![r] = Raised(c, UnexpectedError)]
  /\ UNCHANGED <<load, phase, cleaned, now>>

\* EXPIRE, by whoever counted 1.  It finds the key it created, which cannot have
\* gone without an expiry.
Expire(r) ==
  LET c == calls[r] IN
  /\ c.pc = "counted"
  /\ counters' = [counters EXCEPT ![c.key].expires = now + AUTH_RATE_LIMIT_WINDOW_SECONDS]
  /\ \/ calls' = [calls EXCEPT ![r] = Judged(c)]
     \/ calls' = [calls EXCEPT ![r] = Raised(c, UnexpectedError)]
  /\ UNCHANGED <<load, phase, cleaned, now>>

\* A call to Redis is not made: the connection is down.
RedisFails(r) ==
  /\ calls[r].pc \in {"arrived", "counted"}
  /\ calls' = [calls EXCEPT ![r] = Raised(@, UnexpectedError)]
  /\ UNCHANGED <<load, phase, cleaned, now, counters>>

\* Time passes, and the keys whose time has come are gone.
Tick ==
  /\ now < MaxTime
  /\ now' = now + 1
  /\ counters' = [k \in Keys |-> IF counters[k].expires \in 0..now' THEN Absent(counters[k].life + 1)
                                 ELSE counters[k]]
  /\ UNCHANGED <<load, phase, cleaned, calls>>

-----------------------------------------------------------------------------
(* The endpoint *)

\* What it answers or raises: its dependencies in their order, the path and the
\* payload, then the service.  Only what uses the database can fail unexpectedly.
Handle(r) ==
  LET c == calls[r]
      refused(token) == RequireRole(c.route, token) IN
  /\ c.pc = "admitted"
  /\ \E token \in Tokens, id_valid \in BOOLEAN :
       /\ c.route.auth = "none" => token.reads = "missing"
       /\ token.reads # "good" => token.roles = CHOOSE roles \in TokenRoles : TRUE
       /\ c.route.id \/ id_valid
       /\ LET d == [c EXCEPT !.token = token] IN
          IF refused(token) # {}
          THEN \E error \in refused(token) : calls' = [calls EXCEPT ![r] = Raised(d, error)]
          ELSE IF ~id_valid \/ c.body \in {"not_object", "invalid"}
          THEN calls' = [calls EXCEPT ![r] = Raised(d, RequestValidationError)]
          ELSE \/ \E status \in c.route.answers :
                    calls' = [calls EXCEPT ![r] = Answered(d, status, FALSE)]
               \/ \E error \in c.route.raises \cup (IF c.route.db THEN {UnexpectedError} ELSE {}) :
                    calls' = [calls EXCEPT ![r] = Raised(d, error)]
  /\ UNCHANGED <<load, phase, cleaned, now, counters>>

-----------------------------------------------------------------------------
(* Lifespan *)

\* validate_config, the state, the ping to Redis, verify_routes.
Start ==
  /\ phase = "starting"
  /\ \/ verify_routes(v1_router) /\ phase' = "serving"
     \/ phase' = "failed"
  /\ UNCHANGED <<load, cleaned, now, counters, calls>>

InFlight == {r \in Requests : calls[r].pc \in {"arrived", "counted", "admitted"}}

\* The server stops the lifespan once its requests are done.
Shutdown ==
  /\ phase = "serving" /\ InFlight = {}
  /\ phase' = "disposing"
  /\ UNCHANGED <<load, cleaned, now, counters, calls>>

\* (slip: what dispose raises leaves the finally clause)
DisposeUnguarded ==
  /\ phase = "disposing"
  /\ cleaned' = cleaned \cup {"db_engine"}
  /\ phase' \in {"closing", "stopped"}
  /\ UNCHANGED <<load, now, counters, calls>>
\* Whether it fails or not, the next cleanup follows.
Dispose ==
  /\ phase = "disposing"
  /\ cleaned' = cleaned \cup {"db_engine"}
  /\ phase' = "closing"
  /\ UNCHANGED <<load, now, counters, calls>>

Close ==
  /\ phase = "closing"
  /\ cleaned' = cleaned \cup {"redis_client"}
  /\ phase' = "stopped"
  /\ UNCHANGED <<load, now, counters, calls>>

\* The process dies, and what it was serving with it.
Crash ==
  /\ phase \in {"serving", "disposing", "closing"}
  /\ phase' = "crashed"
  /\ calls' = [r \in Requests |-> IF r \in InFlight THEN [calls[r] EXCEPT !.pc = "lost"] ELSE calls[r]]
  /\ UNCHANGED <<load, cleaned, now, counters>>

Restart ==
  /\ phase \in {"failed", "stopped", "crashed"}
  /\ phase' = "starting" /\ cleaned' = {}
  /\ UNCHANGED <<load, now, counters, calls>>

-----------------------------------------------------------------------------
Init ==
  /\ load \in Loads
  /\ phase = "starting" /\ cleaned = {} /\ now = 0
  /\ counters = [k \in Keys |-> Absent(0)]
  /\ calls = [r \in Requests |-> Unsent]

Progress(r) == Incr(r) \/ Expire(r) \/ RedisFails(r) \/ Handle(r)
Next == \/ \E r \in Requests : Receive(r) \/ Progress(r)
        \/ Tick \/ Start \/ Shutdown \/ Dispose \/ Close \/ Crash \/ Restart

Spec == Init /\ [][Next]_vars

-----------------------------------------------------------------------------
(* Properties *)

TypeOK ==
  /\ load \in Loads
  /\ phase \in {"starting", "serving", "disposing", "closing", "stopped", "failed", "crashed"}
  /\ cleaned \subseteq {"db_engine", "redis_client"}
  /\ now \in Time
  /\ counters \in [Keys -> [count: Nat, expires: Nat \cup {None}, life: Nat]]
  /\ calls \in [Requests -> Call]
  /\ \A r \in Requests :
       /\ calls[r].pc # "idle" => calls[r].route # None
       /\ calls[r].pc \in {"arrived", "counted"} => calls[r].key # None
  /\ InFlight # {} => phase = "serving"

Limit == AUTH_RATE_LIMIT_PER_MINUTE
CountedIn(k, life) == {r \in Requests : calls[r].current > 0 /\ calls[r].key = k /\ calls[r].life = life}
AdmittedIn(k, life) == {r \in CountedIn(k, life) : calls[r].admitted}

\* A counter has its expiry, or is about to get it, or the request that created
\* it was answered 500 or died: only then does its key stay refused for good
\* (rate_limit.py:28 would have every counter expire).
CounterLeftOnlyByFailure ==
  \A k \in Keys : counters[k].count > 0 /\ counters[k].expires = None =>
    \E r \in Requests :
      /\ calls[r].current = 1 /\ calls[r].key = k /\ calls[r].life = counters[k].life
      /\ calls[r].pc \in {"counted", "lost"} \/ calls[r].status = 500

\* No counter lets more than the limit pass before it expires, however the
\* requests interleave and whatever fails.
AdmittedWithinLimit ==
  \A r \in Requests : Cardinality(AdmittedIn(calls[r].key, calls[r].life)) <= Limit

\* A request is refused only if as many as the limit were counted before it.
RefusedOnlyOverLimit ==
  \A r \in Requests :
    (calls[r].status = 429 /\ ~calls[r].admitted) =>
      Cardinality({s \in CountedIn(calls[r].key, calls[r].life) : calls[s].current < calls[r].current}) >= Limit

\* In no span as long as a window does one key let through more than twice the
\* limit (a fixed window's boundary).
AtMostTwiceTheLimit ==
  \A r \in Requests :
    Cardinality({s \in Requests : /\ calls[s].admitted /\ calls[s].key = calls[r].key
                                  /\ calls[s].at \in calls[r].at..(calls[r].at + AUTH_RATE_LIMIT_WINDOW_SECONDS - 1)})
      <= 2 * Limit

\* The expiry a counter got stands until it is gone: late requests do not
\* prolong the window they are refused in.
WindowIsFixed ==
  [][\A k \in Keys : counters[k].expires # None /\ counters'[k].life = counters[k].life
                       => counters'[k].expires = counters[k].expires]_vars

\* A route answers with the statuses it documents, or 500, or 400 to a body
\* that cannot be decoded, which only verify-otp documents (http_exception_handler).
DocumentedStatus ==
  \A r \in Requests : calls[r].pc = "answered" =>
    \/ calls[r].status \in Documented(calls[r].route) \cup {500}
    \/ calls[r].status = 400 /\ calls[r].body = "undecodable"

\* 403 says that the token was good, 401 on a route for callers with a role that
\* it was not or that the account is gone, and asks for another (RequireRole).
ForbiddenIsNotUnauthenticated ==
  \A r \in Requests : calls[r].pc = "answered" =>
    /\ calls[r].status = 403 => calls[r].token.reads = "good"
    /\ calls[r].status = 401 /\ calls[r].route.auth # "none" =>
         /\ calls[r].challenge
         /\ calls[r].token.reads = "good" => AuthenticationRequiredError \in calls[r].route.raises

\* A shutdown closes Redis whether or not the database could be disposed of, and
\* ends with no request of its own in flight.
ShutdownIsComplete ==
  phase = "stopped" => cleaned = {"db_engine", "redis_client"} /\ InFlight = {}
===============================================================================
