---------------------------- MODULE HttpApiProofs ----------------------------
(***************************************************************************)
(* Proofs about HttpApi, for any number of requests, any loads, clients,   *)
(* limits and windows.  IInv is inductive; the bounds on what is admitted  *)
(* follow by counting: the numbers one lifetime of a counter gives out are *)
(* distinct and without gaps, and three lifetimes do not fit in a window.  *)
(***************************************************************************)
EXTENDS HttpApiInv, FiniteSetTheorems, TLAPS

-----------------------------------------------------------------------------
(* The routes as declared *)

\* What every route has in common: it documents what its dependencies and its
\* service raise.
Sound(route) ==
  /\ route.limiter \in {"none", "ip", "phone"} /\ route.auth \in {"none", "token", "role"}
  /\ route.answers \subseteq Nat \ {401, 403, 429} /\ route.answers \subseteq route.documented
  /\ route.limiter # "none" => 429 \in route.documented
  /\ route.auth # "none" => 401 \in route.documented
  /\ route.auth = "role" => 403 \in route.documented
  /\ route.id \in BOOLEAN /\ route.body \in BOOLEAN /\ route.db \in BOOLEAN
  /\ \A e \in route.raises :
       /\ e \in [status : {400, 401, 404, 429}, challenge : BOOLEAN] /\ e.status \in route.documented
       /\ e.status = 429 => route.limiter # "none"
       /\ e.status = 401 /\ route.auth # "none" => e = AuthenticationRequiredError

Declares(route, auth, limiter, answers, raises, documented) ==
  /\ route.auth = auth /\ route.limiter = limiter /\ route.answers = answers
  /\ route.raises = raises /\ route.documented = documented
  /\ route.id \in BOOLEAN /\ route.body \in BOOLEAN /\ route.db \in BOOLEAN

LEMMA RaisedFacts ==
  /\ AuthenticationRequiredError \in [status : {400, 401, 404, 429}, challenge : BOOLEAN]
  /\ AuthenticationRequiredError.status = 401
  /\ InvalidIdentityTokenError \in [status : {400, 401, 404, 429}, challenge : BOOLEAN]
  /\ InvalidIdentityTokenError.status = 401
  /\ InvalidRefreshTokenError \in [status : {400, 401, 404, 429}, challenge : BOOLEAN]
  /\ InvalidRefreshTokenError.status = 401
  /\ InvalidOtpError \in [status : {400, 401, 404, 429}, challenge : BOOLEAN]
  /\ InvalidOtpError.status = 400
  /\ OtpLockedError \in [status : {400, 401, 404, 429}, challenge : BOOLEAN]
  /\ OtpLockedError.status = 429
  /\ SessionNotFoundError \in [status : {400, 401, 404, 429}, challenge : BOOLEAN]
  /\ SessionNotFoundError.status = 404
  /\ SavedAddressNotFoundError \in [status : {400, 401, 404, 429}, challenge : BOOLEAN]
  /\ SavedAddressNotFoundError.status = 404
BY DEF Error, AuthenticationRequiredError, InvalidIdentityTokenError, InvalidRefreshTokenError, InvalidOtpError, OtpLockedError, SessionNotFoundError, SavedAddressNotFoundError

LEMMA RouteFacts == \A route \in v1_router : Sound(route)
<1>1. /\ Declares(get_health, "none", "none", {200}, {}, {200})
      /\ Declares(get_db_health, "none", "none", {200, 503}, {}, {200, 503})
  BY DEF Declares, get_health, get_db_health, Route
<1>2. Declares(get_me, "role", "none", {200}, {AuthenticationRequiredError}, {200, 401, 403})
  BY DEF Declares, get_me, Route, require_role, Raising
<1>3. /\ Declares(request_otp, "none", "phone", {200}, {}, {200, 429})
      /\ Declares(verify_otp, "none", "ip", {200}, {InvalidOtpError, OtpLockedError}, {200, 400, 429})
  BY DEF Declares, request_otp, verify_otp, Route, Taking, Limited, Raising
<1>4. /\ Declares(sign_in_with_google, "none", "ip", {200}, {InvalidIdentityTokenError}, {200, 401, 429})
      /\ Declares(sign_in_with_apple, "none", "ip", {200}, {InvalidIdentityTokenError}, {200, 401, 429})
      /\ Declares(refresh_token, "none", "ip", {200}, {InvalidRefreshTokenError}, {200, 401, 429})
  BY DEF Declares, sign_in_with_google, sign_in_with_apple, refresh_token, _sign_in_with_oauth,
         Route, Taking, Limited, Raising
<1>5. /\ Declares(list_sessions, "token", "none", {200}, {}, {200, 401})
      /\ Declares(revoke_session, "token", "none", {200}, {SessionNotFoundError}, {200, 401, 404})
      /\ Declares(logout_all_sessions, "token", "none", {200}, {}, {200, 401})
  BY DEF Declares, list_sessions, revoke_session, logout_all_sessions, Route, Taking, Authenticated, Raising
<1>6. /\ Declares(get_my_profile, "role", "none", {200}, {}, {200, 401, 403})
      /\ Declares(update_my_profile, "role", "none", {200}, {}, {200, 401, 403})
      /\ Declares(list_my_addresses, "role", "none", {200}, {}, {200, 401, 403})
      /\ Declares(create_my_address, "role", "none", {201}, {}, {201, 401, 403})
  BY DEF Declares, get_my_profile, update_my_profile, list_my_addresses, create_my_address,
         Customers, Route, Taking, require_role
<1>7. /\ Declares(update_my_address, "role", "none", {200}, {SavedAddressNotFoundError}, {200, 401, 403, 404})
      /\ Declares(delete_my_address, "role", "none", {200}, {SavedAddressNotFoundError}, {200, 401, 403, 404})
  BY DEF Declares, update_my_address, delete_my_address, Customers, Route, Taking, require_role, Raising
<1>8. Sound(get_health)
  BY <1>1, RaisedFacts DEF Declares, Sound
<1>9. Sound(get_db_health)
  BY <1>1, RaisedFacts DEF Declares, Sound
<1>10. Sound(get_me)
  BY <1>2, RaisedFacts DEF Declares, Sound
<1>11. Sound(request_otp)
  BY <1>3, RaisedFacts DEF Declares, Sound
<1>12. Sound(verify_otp)
  BY <1>3, RaisedFacts DEF Declares, Sound
<1>13. Sound(sign_in_with_google)
  BY <1>4, RaisedFacts DEF Declares, Sound
<1>14. Sound(sign_in_with_apple)
  BY <1>4, RaisedFacts DEF Declares, Sound
<1>15. Sound(refresh_token)
  BY <1>4, RaisedFacts DEF Declares, Sound
<1>16. Sound(list_sessions)
  BY <1>5, RaisedFacts DEF Declares, Sound
<1>17. Sound(revoke_session)
  BY <1>5, RaisedFacts DEF Declares, Sound
<1>18. Sound(logout_all_sessions)
  BY <1>5, RaisedFacts DEF Declares, Sound
<1>19. Sound(get_my_profile)
  BY <1>6, RaisedFacts DEF Declares, Sound
<1>20. Sound(update_my_profile)
  BY <1>6, RaisedFacts DEF Declares, Sound
<1>21. Sound(list_my_addresses)
  BY <1>6, RaisedFacts DEF Declares, Sound
<1>22. Sound(create_my_address)
  BY <1>6, RaisedFacts DEF Declares, Sound
<1>23. Sound(update_my_address)
  BY <1>7, RaisedFacts DEF Declares, Sound
<1>24. Sound(delete_my_address)
  BY <1>7, RaisedFacts DEF Declares, Sound
<1> QED BY <1>8, <1>9, <1>10, <1>11, <1>12, <1>13, <1>14, <1>15, <1>16, <1>17, <1>18, <1>19, <1>20, <1>21, <1>22, <1>23, <1>24 DEF v1_router

\* What a token is refused with.
LEMMA RefusedFacts ==
  ASSUME NEW route \in v1_router, NEW token \in Tokens, NEW e \in RequireRole(route, token)
  PROVE  /\ e \in [status : {401, 403}, challenge : BOOLEAN] /\ e.status \in route.documented
         /\ e.status = 403 => token.reads = "good"
         /\ e.status = 401 => e.challenge /\ token.reads # "good"
         /\ route.auth # "none"
<1>1. Sound(route) BY RouteFacts
<1>2. token.reads \in Readings BY DEF Tokens
<1>3. ASSUME NEW f \in get_current_user(token)
      PROVE  f = [status |-> 401, challenge |-> TRUE] /\ token.reads # "good"
  BY <1>2, <1>3 DEF get_current_user, get_token, decode_token, Readings, Error,
     AuthenticationRequiredError, ExpiredTokenError, InvalidTokenError
<1>4. route.auth # "none" BY DEF RequireRole
<1>5. CASE e \in get_current_user(token)
  <2>1. e = [status |-> 401, challenge |-> TRUE] /\ token.reads # "good" BY <1>3, <1>5
  <2> QED BY <2>1, <1>1, <1>4 DEF Sound
<1>6. CASE e \notin get_current_user(token)
  <2>1. get_current_user(token) = {} /\ route.auth = "role" /\ e = InsufficientRoleError
    BY <1>6, <1>4 DEF RequireRole
  <2>2. token.reads = "good"
    BY <2>1, <1>2 DEF get_current_user, get_token, decode_token, Readings
  <2> QED BY <2>1, <2>2, <1>1, <1>4 DEF Sound, InsufficientRoleError, Error
<1> QED BY <1>5, <1>6

-----------------------------------------------------------------------------
(* One call at a time *)

\* What the invariant says of one call.
Fine(c) ==
  /\ c \in Call
  /\ c.pc # "idle" => c.route # None
  /\ c.pc \in {"arrived", "counted"} => c.key # None
  /\ c.pc \in {"idle", "arrived"} => c.current = 0 /\ ~c.admitted
  /\ c.pc \in {"arrived", "counted"} => c.route.limiter # "none" /\ ~c.admitted
  /\ c.pc \in {"arrived", "counted", "admitted"} => (c.body # "none" => c.route.body)
  /\ c.pc = "admitted" /\ c.route.limiter # "none" => c.admitted
  /\ c.pc # "answered" => c.status = 0
  /\ c.admitted => c.current > 0 /\ c.current <= Limit
  /\ c.status = 429 /\ ~c.admitted => c.current > Limit
  /\ c.pc = "answered" =>
       /\ c.status \in Documented(c.route) \cup {500} \/ (c.status = 400 /\ c.body = "undecodable")
       /\ c.status = 403 => c.token.reads = "good"
       /\ c.status = 401 /\ c.route.auth # "none" =>
            /\ c.challenge
            /\ c.token.reads = "good" => AuthenticationRequiredError \in c.route.raises

Calls == calls \in [Requests -> Call] /\ \A r \in Requests : Fine(calls[r])
Rest == /\ load \in Loads
        /\ phase \in {"starting", "serving", "disposing", "closing", "stopped", "failed", "crashed"}
        /\ cleaned \subseteq {"db_engine", "redis_client"}
        /\ now \in Time
        /\ counters \in [Keys -> [count: Nat, expires: Nat \cup {None}, life: Nat]]
        /\ InFlight # {} => phase = "serving"

LEMMA InvParts == IInv <=> Calls /\ Rest /\ Counting /\ Cleanups
<1> USE DEF Calls, Fine, Rest
<1>1. IInv => Calls /\ Rest /\ Counting /\ Cleanups
  BY DEF IInv, TypeOK, Progressed, DocumentedStatus, ForbiddenIsNotUnauthenticated, Counted
<1>2. Calls /\ Rest => TypeOK
  BY DEF TypeOK
<1>3. Calls => Progressed /\ DocumentedStatus /\ ForbiddenIsNotUnauthenticated
  BY DEF Progressed, DocumentedStatus, ForbiddenIsNotUnauthenticated, Counted
<1> QED BY <1>1, <1>2, <1>3 DEF IInv

-----------------------------------------------------------------------------
(* Steps that count nothing *)

Left(c) == c.pc \in {"counted", "lost"} \/ c.status = 500
Kept(c, d) ==
  /\ d.current = c.current
  /\ c.current > 0 => d.key = c.key /\ d.life = c.life /\ d.at = c.at
  /\ d.pc = "counted" => c.pc = "counted"
  /\ Left(c) => Left(d)

LEMMA KeptCounting ==
  ASSUME Calls, Rest, Counting, counters' = counters, now' = now,
         \A r \in Requests : Kept(calls[r], calls'[r])
  PROVE  Counting'
<1> USE DEF Kept, Counting, Counted, SameCounter
<1>1. \A r \in Requests : calls[r].current \in Nat BY DEF Calls, Call
<1>2. CountsBelong' BY DEF CountsBelong
<1>3. CountsDiffer' BY DEF CountsDiffer
<1>4. CountsFill'
  <2>1. ASSUME NEW k \in Keys, NEW i \in 1..counters[k].count
        PROVE  \E r \in Requests : calls'[r].current = i /\ calls'[r].key = k /\ calls'[r].life = counters[k].life
    <3>1. PICK r \in Requests : calls[r].current = i /\ calls[r].key = k /\ calls[r].life = counters[k].life
      BY DEF CountsFill
    <3> QED BY <3>1
  <2>2. ASSUME NEW r \in Requests, calls'[r].current > 0, NEW i \in 1..calls'[r].current
        PROVE  \E s \in Requests : calls'[s].current = i /\ calls'[r].key = calls'[s].key /\ calls'[r].life = calls'[s].life
    <3>1. PICK s \in Requests : calls[s].current = i /\ SameCounter(r, s) BY <2>2 DEF CountsFill
    <3> QED BY <3>1, <2>2
  <2> QED BY <2>1, <2>2 DEF CountsFill
<1>5. FreshLacksExpiry' BY DEF FreshLacksExpiry
<1>6. FirstSetsExpiry' BY DEF FirstSetsExpiry
<1>7. LifetimesLast' BY DEF LifetimesLast
<1>8. LifetimesApart' BY DEF LifetimesApart
<1>9. CounterLeftOnlyByFailure'
  <2> SUFFICES ASSUME NEW k \in Keys, counters[k].count > 0, counters[k].expires = None
               PROVE  \E r \in Requests : /\ calls'[r].current = 1 /\ calls'[r].key = k
                                          /\ calls'[r].life = counters[k].life /\ Left(calls'[r])
    BY DEF CounterLeftOnlyByFailure, Left
  <2>1. PICK r \in Requests : /\ calls[r].current = 1 /\ calls[r].key = k
                              /\ calls[r].life = counters[k].life /\ Left(calls[r])
    BY DEF CounterLeftOnlyByFailure, Left
  <2> QED BY <2>1
<1> QED BY <1>2, <1>3, <1>4, <1>5, <1>6, <1>7, <1>8, <1>9

\* A step of one request that counts nothing.
LEMMA OneCall ==
  ASSUME Calls, Rest, Counting, Cleanups, counters' = counters, now' = now,
         UNCHANGED <<load, phase, cleaned>>, phase = "serving",
         NEW r \in Requests, NEW d, Fine(d), Kept(calls[r], d), calls' = [calls EXCEPT ![r] = d]
  PROVE  Calls' /\ Rest' /\ Counting' /\ Cleanups'
<1>1. calls' \in [Requests -> Call] /\ \A s \in Requests : calls'[s] = IF s = r THEN d ELSE calls[s]
  BY DEF Calls, Fine
<1>2. Calls'
  <2>1. \A s \in Requests : Fine(calls'[s]) BY <1>1 DEF Calls
  <2> QED BY <1>1, <2>1 DEF Calls, Fine
<1>3. \A s \in Requests : Kept(calls[s], calls'[s]) BY <1>1 DEF Kept
<1>4. Counting' BY <1>3, KeptCounting
<1> QED BY <1>2, <1>4 DEF Rest, Cleanups

LEMMA NoneFacts == None \notin Nat /\ None \notin v1_router /\ None \notin Tokens /\ None \notin Keys
BY HttpAssumption DEF Tokens, AccessToken

IsAnswer(d, c, status) ==
  /\ d \in Call /\ d.pc = "answered" /\ d.status = status
  /\ d.route = c.route /\ d.token = c.token /\ d.key = c.key /\ d.current = c.current
  /\ d.life = c.life /\ d.at = c.at /\ d.admitted = c.admitted /\ d.body = c.body
LEMMA AnsweredFacts ==
  ASSUME NEW c \in Call, NEW status \in Nat, NEW challenge \in BOOLEAN
  PROVE  /\ IsAnswer(Answered(c, status, challenge), c, status)
         /\ Answered(c, status, challenge).challenge = challenge
<1> DEFINE d == Answered(c, status, challenge)
<1>1. d = [c EXCEPT !.pc = "answered", !.status = status, !.challenge = challenge]
  BY DEF Answered
<1>2. d \in Call
  <2>1. "answered" \in {"idle", "arrived", "counted", "admitted", "answered", "lost"}
    OBVIOUS
  <2> QED BY <1>1, <2>1 DEF Call
<1>3. d.pc = "answered" /\ d.status = status BY <1>1 DEF Call
<1>4. d.challenge = challenge BY <1>1 DEF Call
<1>5. /\ d.route = c.route /\ d.token = c.token /\ d.key = c.key /\ d.current = c.current
      /\ d.life = c.life /\ d.at = c.at /\ d.body = c.body
  BY <1>1 DEF Call
<1>6. d.admitted = c.admitted BY <1>1 DEF Call
<1> HIDE DEF d
<1> QED BY <1>2, <1>3, <1>4, <1>5, <1>6, Zenon DEF d, IsAnswer

LEMMA RaisedAnswer ==
  ASSUME NEW c \in Call, NEW e \in [status : Nat, challenge : BOOLEAN]
  PROVE  IsAnswer(Raised(c, e), c, e.status) /\ Raised(c, e).challenge = e.challenge
<1>1. e.status \in Nat OBVIOUS
<1>2. e.challenge \in BOOLEAN OBVIOUS
<1> QED BY <1>1, <1>2, AnsweredFacts, Zenon DEF Raised

LEMMA RefusalFacts ==
  /\ RequestValidationError \in [status : Nat, challenge : BOOLEAN] /\ RequestValidationError.status = 422
  /\ UndecodableBodyError \in [status : Nat, challenge : BOOLEAN] /\ UndecodableBodyError.status = 400
  /\ UnexpectedError \in [status : Nat, challenge : BOOLEAN] /\ UnexpectedError.status = 500
  /\ RateLimitExceededError \in [status : Nat, challenge : BOOLEAN] /\ RateLimitExceededError.status = 429
BY DEF Error, RequestValidationError, UndecodableBodyError, UnexpectedError, RateLimitExceededError

LEMMA ReceiveInv == ASSUME IInv, NEW r \in Requests, Receive(r) PROVE IInv'
<1> USE NoneFacts
<1>0. Calls /\ Rest /\ Counting /\ Cleanups BY InvParts
<1>1. PICK route \in v1_router, body \in Bodies, client \in Clients, phone \in Phones \cup {None} :
       /\ body = "none" <=> ~route.body
       /\ LET c == [calls[r] EXCEPT !.route = route, !.body = body] IN
          calls' = [calls EXCEPT ![r] =
            IF body = "undecodable" THEN Raised(c, UndecodableBodyError)
            ELSE IF body = "malformed" THEN Raised(c, RequestValidationError)
            ELSE IF route.limiter = "none" THEN [c EXCEPT !.pc = "admitted"]
            ELSE IF route.limiter = "phone" /\ body = "not_object" THEN Raised(c, UnexpectedError)
            ELSE [c EXCEPT !.pc = "arrived",
                           !.key = <<route.at[2], _resolve_identity(route, client, phone)>>]]
  <2>1. load[r].routes \subseteq v1_router /\ load[r].bodies \subseteq Bodies
    BY <1>0, HttpAssumption DEF Rest
  <2>2. PICK route \in load[r].routes, body \in load[r].bodies, client \in Clients, phone \in Phones \cup {None} :
         /\ body = "none" <=> ~route.body
         /\ phone # None => body \in {"invalid", "valid"} /\ route.limiter = "phone"
         /\ body = "valid" /\ route.limiter = "phone" => phone # None
         /\ LET c == [calls[r] EXCEPT !.route = route, !.body = body] IN
            calls' = [calls EXCEPT ![r] =
              IF body = "undecodable" THEN Raised(c, UndecodableBodyError)
              ELSE IF body = "malformed" THEN Raised(c, RequestValidationError)
              ELSE IF route.limiter = "none" THEN [c EXCEPT !.pc = "admitted"]
              ELSE IF route.limiter = "phone" /\ body = "not_object" THEN Raised(c, UnexpectedError)
              ELSE [c EXCEPT !.pc = "arrived",
                             !.key = <<route.at[2], _resolve_identity(route, client, phone)>>]]
    BY Zenon DEF Receive
  <2> QED BY <2>1, <2>2, Zenon
<1> DEFINE c == [calls[r] EXCEPT !.route = route, !.body = body]
<1>2. /\ calls[r] \in Call /\ calls[r].pc = "idle" /\ calls[r].current = 0 /\ ~calls[r].admitted
      /\ calls[r].status = 0 /\ phase = "serving"
  BY <1>0 DEF Calls, Fine, Receive
<1>3. c \in Call /\ c.pc = "idle" /\ c.current = 0 /\ ~c.admitted /\ c.status = 0 /\ c.route = route /\ c.body = body
  BY <1>2 DEF Call
<1>4. Sound(route) BY RouteFacts
<1> HIDE DEF c
<1>5. ASSUME NEW d, calls' = [calls EXCEPT ![r] = d], Fine(d), d.current = 0, d.pc # "counted" PROVE IInv'
  <2>1. Kept(calls[r], d) BY <1>2, <1>5 DEF Kept, Left
  <2>2. counters' = counters /\ now' = now /\ UNCHANGED <<load, phase, cleaned>> BY DEF Receive
  <2>3. Calls' /\ Rest' /\ Counting' /\ Cleanups' BY <1>0, <1>2, <1>5, <2>1, <2>2, OneCall
  <2> QED BY <2>3, InvParts, PTL
<1>6. CASE body = "malformed"
  <2> DEFINE d == Raised(c, RequestValidationError)
  <2>1. /\ d \in Call /\ d.pc = "answered" /\ d.route = route /\ d.current = 0 /\ ~d.admitted /\ d.status = 422
    <3>1. c \in Call BY <1>3
    <3>2. IsAnswer(d, c, RequestValidationError.status) BY <3>1, RefusalFacts, RaisedAnswer, Zenon
    <3> HIDE DEF d
    <3> QED BY <3>2, <1>3, RefusalFacts DEF IsAnswer
  <2>2. 422 \in Documented(route) BY <1>1, <1>6, <1>4 DEF Documented, Sound
  <2>3. Fine(d) BY <2>1, <2>2 DEF Fine
  <2>4. d.current = 0 /\ d.pc # "counted" BY <2>1
  <2>5. calls' = [calls EXCEPT ![r] = d] BY <1>1, <1>6 DEF c
  <2> QED BY <1>5, <2>3, <2>4, <2>5
<1>10. CASE body = "undecodable"
  <2> DEFINE d == Raised(c, UndecodableBodyError)
  <2>1. /\ d \in Call /\ d.pc = "answered" /\ d.route = route /\ d.current = 0 /\ ~d.admitted /\ d.status = 400
        /\ d.body = body
    <3>1. c \in Call BY <1>3
    <3>2. IsAnswer(d, c, UndecodableBodyError.status) BY <3>1, RefusalFacts, RaisedAnswer, Zenon
    <3> HIDE DEF d
    <3> QED BY <3>2, <1>3, RefusalFacts DEF IsAnswer
  <2>2. Fine(d) BY <2>1, <1>10 DEF Fine
  <2>3. calls' = [calls EXCEPT ![r] = d] BY <1>1, <1>10 DEF c
  <2> HIDE DEF d
  <2> QED BY <1>5, <2>1, <2>2, <2>3
<1>7. CASE body \notin {"undecodable", "malformed"} /\ route.limiter = "none"
  <2> DEFINE d == [c EXCEPT !.pc = "admitted"]
  <2>1. d \in Call /\ d.pc = "admitted" /\ d.route = route /\ d.current = 0 /\ ~d.admitted /\ d.status = 0 /\ d.body = body
    BY <1>3 DEF Call
  <2>2. Fine(d) BY <2>1, <1>1, <1>7, <1>4 DEF Fine, Sound
  <2>3. calls' = [calls EXCEPT ![r] = d] BY <1>1, <1>7 DEF c
  <2> HIDE DEF d
  <2> QED BY <1>5, <2>1, <2>2, <2>3
<1>8. CASE body \notin {"undecodable", "malformed"} /\ route.limiter = "phone" /\ body = "not_object"
  <2> DEFINE d == Raised(c, UnexpectedError)
  <2>1. /\ d \in Call /\ d.pc = "answered" /\ d.route = route /\ d.current = 0 /\ ~d.admitted /\ d.status = 500
    <3>1. c \in Call BY <1>3
    <3>2. IsAnswer(d, c, UnexpectedError.status) BY <3>1, RefusalFacts, RaisedAnswer, Zenon
    <3> HIDE DEF d
    <3> QED BY <3>2, <1>3, RefusalFacts DEF IsAnswer
  <2>2. Fine(d) BY <2>1 DEF Fine
  <2>3. calls' = [calls EXCEPT ![r] = d] BY <1>1, <1>8 DEF c
  <2> HIDE DEF d
  <2> QED BY <1>5, <2>1, <2>2, <2>3
<1>9. CASE body \notin {"undecodable", "malformed"} /\ route.limiter # "none" /\ ~(route.limiter = "phone" /\ body = "not_object")
  <2> DEFINE k == <<route.at[2], _resolve_identity(route, client, phone)>>
             d == [c EXCEPT !.pc = "arrived", !.key = k]
  <2>1. k \in Keys
    <3>1. route.at[2] \in Paths BY <1>9 DEF Paths
    <3>2. _resolve_identity(route, client, phone) \in Clients \cup Phones BY DEF _resolve_identity
    <3> QED BY <3>1, <3>2 DEF Keys
  <2>2. k # None BY <2>1, NoneFacts
  <2>3. calls' = [calls EXCEPT ![r] = d] BY <1>1, <1>9 DEF c
  <2> HIDE DEF k
  <2>4. d \in Call /\ d.pc = "arrived" /\ d.key = k /\ d.route = route /\ d.current = 0 /\ ~d.admitted /\ d.status = 0 /\ d.body = body
    BY <1>3, <2>1 DEF Call
  <2>5. Fine(d) BY <2>2, <2>4, <1>1, <1>9, <1>4 DEF Fine, Sound
  <2> HIDE DEF d
  <2> QED BY <1>5, <2>3, <2>4, <2>5
<1> QED BY <1>4, <1>6, <1>7, <1>8, <1>9, <1>10 DEF Sound

-----------------------------------------------------------------------------
(* The limiter's steps *)

SameCount(d, c) == d.current = c.current /\ d.key = c.key /\ d.life = c.life /\ d.at = c.at

LEMMA FailedFine ==
  ASSUME NEW c \in Call, c.route # None, c.admitted => c.current > 0 /\ c.current <= Limit
  PROVE  LET d == Raised(c, UnexpectedError) IN
         Fine(d) /\ SameCount(d, c) /\ d.pc = "answered" /\ d.status = 500
<1> DEFINE d == Raised(c, UnexpectedError)
<1>1. IsAnswer(d, c, UnexpectedError.status) BY RefusalFacts, RaisedAnswer, Zenon
<1> HIDE DEF d
<1>2. IsAnswer(d, c, 500) BY <1>1, RefusalFacts
<1>3. Fine(d) BY <1>2 DEF IsAnswer, Fine
<1>4. SameCount(d, c) /\ d.pc = "answered" /\ d.status = 500 BY <1>2 DEF IsAnswer, SameCount
<1> QED BY <1>3, <1>4 DEF d

LEMMA JudgedFine ==
  ASSUME NEW c \in Call, c.route \in v1_router, c.route.limiter # "none", c.current > 0,
         ~c.admitted, c.status = 0, c.body # "none" => c.route.body
  PROVE  LET d == Judged(c) IN Fine(d) /\ SameCount(d, c) /\ d.pc \in {"answered", "admitted"}
<1> USE NoneFacts
<1> DEFINE d == Judged(c)
<1>1. CASE c.current > Limit
  <2>1. d = Raised(c, RateLimitExceededError) BY <1>1 DEF Judged, Limit
  <2>2. IsAnswer(d, c, RateLimitExceededError.status)
    <3>1. RateLimitExceededError \in [status: Nat, challenge: BOOLEAN] BY RefusalFacts
    <3>2. IsAnswer(Raised(c, RateLimitExceededError), c, RateLimitExceededError.status)
      BY <3>1, RaisedAnswer
    <3> QED BY <2>1, <3>2, Zenon
  <2> HIDE DEF d
  <2>3. IsAnswer(d, c, 429) BY <2>2, RefusalFacts
  <2>4. 429 \in Documented(c.route) BY RouteFacts DEF Sound, Documented
  <2>5. Fine(d) BY <1>1, <2>3, <2>4 DEF IsAnswer, Fine
  <2>6. SameCount(d, c) /\ d.pc \in {"answered", "admitted"} BY <2>3 DEF IsAnswer, SameCount
  <2> QED BY <2>5, <2>6 DEF d
<1>2. CASE ~(c.current > Limit)
  <2>1. d = [c EXCEPT !.pc = "admitted", !.admitted = TRUE] BY <1>2 DEF Judged, Limit
  <2>2. c.current <= Limit BY <1>2, HttpAssumption DEF Call, Limit
  <2> HIDE DEF d
  <2>3. d \in Call BY <2>1 DEF Call
  <2>4. d.pc = "admitted" /\ d.route = c.route /\ d.body = c.body /\ d.status = c.status BY <2>1 DEF Call
  <2>5. d.admitted = TRUE BY <2>1 DEF Call
  <2>6. SameCount(d, c) BY <2>1 DEF Call, SameCount
  <2>7. Fine(d) BY <2>2, <2>3, <2>4, <2>5, <2>6 DEF Fine, SameCount
  <2> QED BY <2>4, <2>6, <2>7 DEF d
<1> QED BY <1>1, <1>2

LEMMA RedisFailsInv == ASSUME IInv, NEW r \in Requests, RedisFails(r) PROVE IInv'
<1>1. Calls /\ Rest /\ Counting /\ Cleanups BY InvParts
<1>2. Fine(calls[r]) /\ calls[r] \in Call /\ calls[r].pc \in {"arrived", "counted"} /\ calls[r].status = 0
  BY <1>1 DEF Calls, Fine, RedisFails
<1>3. PICK d : d = Raised(calls[r], UnexpectedError) OBVIOUS
<1>4. Fine(d) /\ SameCount(d, calls[r]) /\ d.pc = "answered" /\ d.status = 500
  <2>1. calls[r].route # None BY <1>2 DEF Fine
  <2>2. calls[r].admitted => calls[r].current > 0 /\ calls[r].current <= Limit BY <1>2 DEF Fine
  <2> QED BY <1>2, <1>3, <2>1, <2>2, FailedFine
<1>5. calls' = [calls EXCEPT ![r] = d] /\ now' = now /\ counters' = counters /\ UNCHANGED <<load, phase, cleaned>>
  BY <1>3 DEF RedisFails
<1>6. phase = "serving"
  <2>1. r \in InFlight BY <1>2 DEF InFlight
  <2> QED BY <1>1, <2>1 DEF Rest
<1>7. Kept(calls[r], d) BY <1>2, <1>4 DEF Kept, SameCount, Left
<1>8. Calls' /\ Rest' /\ Counting' /\ Cleanups'
  <2>1. Fine(d) BY <1>4
  <2> QED BY <1>1, <1>5, <1>6, <1>7, <2>1, OneCall
<1> QED BY <1>8, InvParts, PTL

\* What a counting step leaves of a request: what to prove of Incr.
LEMMA CountedCall ==
  ASSUME IInv, NEW r \in Requests, Incr(r)
  PROVE  LET c == calls[r]
             n == counters[c.key].count + 1 IN
         /\ c.pc = "arrived" /\ c.key \in Keys /\ c.current = 0
         /\ counters' = [counters EXCEPT ![c.key].count = n]
         /\ \E d : /\ calls' = [calls EXCEPT ![r] = d] /\ Fine(d)
                   /\ d.key = c.key /\ d.current = n /\ d.life = counters[c.key].life /\ d.at = now
                   /\ d.pc = "counted" => n = 1
                   /\ n = 1 => Left(d)
<1> USE NoneFacts
<1> DEFINE c == calls[r]
           n == counters[c.key].count + 1
           k == [c EXCEPT !.current = n, !.life = counters[c.key].life, !.at = now]
<1>1. Calls /\ Rest /\ Counting BY InvParts
<1>2. /\ c.pc = "arrived" /\ c \in Call /\ Fine(c) /\ counters' = [counters EXCEPT ![c.key].count = n]
      /\ \/ calls' = [calls EXCEPT ![r] = IF n = 1 THEN [k EXCEPT !.pc = "counted"] ELSE Judged(k)]
         \/ calls' = [calls EXCEPT ![r] = Raised(k, UnexpectedError)]
  BY <1>1 DEF Calls, Incr
<1>3. c.key \in Keys /\ c.route \in v1_router BY <1>2 DEF Fine, Call
<1>4. counters[c.key] \in [count: Nat, expires: Nat \cup {None}, life: Nat] /\ now \in Nat /\ now \in Time
  BY <1>1, <1>3 DEF Rest, Time
<1>5. n \in Nat /\ n > 0 /\ counters[c.key].life \in Nat BY <1>4
<1> HIDE DEF n
<1>6. k \in Call BY <1>2, <1>4, <1>5 DEF Call
<1>7. k.current = n /\ k.life = counters[c.key].life /\ k.at = now /\ k.key = c.key
  BY <1>2 DEF Call
<1>8. k.route = c.route /\ k.body = c.body /\ k.pc = c.pc /\ k.status = c.status BY <1>2 DEF Call
<1>9. ~k.admitted BY <1>2 DEF Call, Fine
<1>10. c.route.limiter # "none" /\ (c.body # "none" => c.route.body) /\ c.current = 0 /\ c.status = 0 BY <1>2 DEF Fine
<1> HIDE DEF k
<1>11. ASSUME NEW d, calls' = [calls EXCEPT ![r] = d], Fine(d), SameCount(d, k), d.pc = "counted" => n = 1, n = 1 => Left(d)
       PROVE \E e : /\ calls' = [calls EXCEPT ![r] = e] /\ Fine(e)
                    /\ e.key = c.key /\ e.current = n /\ e.life = counters[c.key].life /\ e.at = now
                    /\ e.pc = "counted" => n = 1
                    /\ n = 1 => Left(e)
  BY <1>7, <1>11 DEF SameCount
<1>12. CASE calls' = [calls EXCEPT ![r] = Raised(k, UnexpectedError)]
  <2> DEFINE d == Raised(k, UnexpectedError)
  <2>1. Fine(d) /\ SameCount(d, k) /\ d.pc = "answered" /\ d.status = 500
    BY <1>3, <1>6, <1>8, <1>9, FailedFine
  <2> HIDE DEF d
  <2>2. n = 1 => Left(d) BY <2>1 DEF Left
  <2>3. calls' = [calls EXCEPT ![r] = d] BY <1>12 DEF d
  <2>4. d.pc = "counted" => n = 1 BY <2>1
  <2>5. \E e : /\ calls' = [calls EXCEPT ![r] = e] /\ Fine(e)
               /\ e.key = c.key /\ e.current = n /\ e.life = counters[c.key].life /\ e.at = now
               /\ e.pc = "counted" => n = 1
               /\ n = 1 => Left(e)
    BY <1>11, <2>1, <2>2, <2>3, <2>4
  <2> QED BY <2>5, <1>2, <1>3, <1>10 DEF n
<1>13. CASE n # 1 /\ calls' = [calls EXCEPT ![r] = Judged(k)]
  <2> DEFINE d == Judged(k)
  <2>1. Fine(d) /\ SameCount(d, k) /\ d.pc \in {"answered", "admitted"}
    BY <1>3, <1>5, <1>6, <1>7, <1>8, <1>9, <1>10, JudgedFine
  <2> HIDE DEF d
  <2>3. calls' = [calls EXCEPT ![r] = d] BY <1>13 DEF d
  <2>5. \E e : /\ calls' = [calls EXCEPT ![r] = e] /\ Fine(e)
               /\ e.key = c.key /\ e.current = n /\ e.life = counters[c.key].life /\ e.at = now
               /\ e.pc = "counted" => n = 1
               /\ n = 1 => Left(e)
    BY <1>11, <2>1, <1>13, <2>3
  <2> QED BY <2>5, <1>2, <1>3, <1>10 DEF n
<1>14. CASE n = 1 /\ calls' = [calls EXCEPT ![r] = [k EXCEPT !.pc = "counted"]]
  <2> DEFINE d == [k EXCEPT !.pc = "counted"]
  <2>1. d \in Call /\ d.pc = "counted" /\ d.route = k.route /\ d.body = k.body /\ d.status = k.status /\ d.key = k.key
    BY <1>6 DEF Call
  <2>2. ~d.admitted BY <1>6, <1>9 DEF Call
  <2>3. SameCount(d, k) BY <1>6 DEF Call, SameCount
  <2>4. calls' = [calls EXCEPT ![r] = d] BY <1>14
  <2> HIDE DEF d
  <2>5. Fine(d) BY <2>1, <2>2, <1>3, <1>7, <1>8, <1>10 DEF Fine
  <2>6. Left(d) BY <2>1 DEF Left
  <2>7. \E e : /\ calls' = [calls EXCEPT ![r] = e] /\ Fine(e)
               /\ e.key = c.key /\ e.current = n /\ e.life = counters[c.key].life /\ e.at = now
               /\ e.pc = "counted" => n = 1
               /\ n = 1 => Left(e)
    BY <1>11, <1>14, <2>3, <2>4, <2>5, <2>6
  <2> QED BY <2>7, <1>2, <1>3, <1>10 DEF n
<1> QED BY <1>2, <1>12, <1>13, <1>14

LEMMA IncrInv == ASSUME IInv, NEW r \in Requests, Incr(r) PROVE IInv'
<1> USE DEF Counted, SameCounter
<1>1. Calls /\ Rest /\ Counting /\ Cleanups BY InvParts
<1>2. PICK k \in Keys : \E n, L : k = calls[r].key /\ n = counters[k].count + 1 /\ L = counters[k].life
  BY CountedCall
<1>0. PICK n, L : k = calls[r].key /\ n = counters[k].count + 1 /\ L = counters[k].life
  BY <1>2
<1>3. calls[r].pc = "arrived" /\ calls[r].current = 0 /\ counters' = [counters EXCEPT ![k].count = n]
  BY <1>0, CountedCall
<1>4. PICK d : /\ calls' = [calls EXCEPT ![r] = d] /\ Fine(d)
               /\ d.key = k /\ d.current = n /\ d.life = L /\ d.at = now
               /\ d.pc = "counted" => n = 1
               /\ n = 1 => Left(d)
  BY <1>0, CountedCall
<1>5. counters[k] \in [count: Nat, expires: Nat \cup {None}, life: Nat] /\ now \in Nat
  BY <1>1 DEF Rest, Time
<1>6. n \in Nat /\ n > 0 /\ L \in Nat BY <1>0, <1>5
<1>7. UNCHANGED <<load, phase, cleaned, now>> BY DEF Incr
<1>8. phase = "serving"
  <2>1. r \in InFlight BY <1>3 DEF InFlight
  <2> QED BY <1>1, <2>1 DEF Rest
<1>9. /\ \A j \in Keys : counters'[j].expires = counters[j].expires /\ counters'[j].life = counters[j].life
      /\ \A j \in Keys : counters'[j].count = IF j = k THEN n ELSE counters[j].count
      /\ counters' \in [Keys -> [count: Nat, expires: Nat \cup {None}, life: Nat]]
  BY <1>1, <1>3, <1>5, <1>6 DEF Rest
<1>10. \A s \in Requests : calls'[s] = IF s = r THEN d ELSE calls[s]
  BY <1>1, <1>4 DEF Calls
<1>11. Calls'
  <2>1. \A s \in Requests : Fine(calls'[s]) BY <1>1, <1>4, <1>10 DEF Calls
  <2> QED BY <1>1, <1>4, <2>1 DEF Calls, Fine
<1>12. Rest' /\ Cleanups' BY <1>1, <1>7, <1>8, <1>9 DEF Rest, Cleanups
<1>13. /\ d.key = k /\ d.current = n /\ d.life = L /\ d.at = now /\ (d.pc = "counted" => n = 1)
  BY <1>4
<1>14. \A s \in Requests : calls[s].current \in Nat /\ calls[s].life \in Nat BY <1>1 DEF Calls, Call
<1>15. \A j \in Keys : counters[j].count \in Nat /\ counters[j].life \in Nat BY <1>1 DEF Rest
<1> HIDE DEF Counted, SameCounter
<1>16. CountsBelong'
  <2> SUFFICES ASSUME NEW s \in Requests, Counted(s)'
               PROVE /\ calls'[s].key \in Keys /\ calls'[s].at <= now'
                     /\ calls'[s].life <= counters'[calls'[s].key].life
                     /\ calls'[s].life = counters'[calls'[s].key].life
                          => calls'[s].current <= counters'[calls'[s].key].count
    BY DEF CountsBelong
  <2>1. CASE s = r BY <2>1, <1>0, <1>5, <1>6, <1>7, <1>9, <1>10, <1>13
  <2>2. CASE s # r
    <3>1. calls'[s] = calls[s] /\ Counted(s) BY <2>2, <1>10 DEF Counted
    <3>2. /\ calls[s].key \in Keys /\ calls[s].at <= now /\ calls[s].life <= counters[calls[s].key].life
          /\ calls[s].life = counters[calls[s].key].life => calls[s].current <= counters[calls[s].key].count
      BY <1>1, <3>1 DEF Counting, CountsBelong
    <3> QED BY <3>1, <3>2, <1>0, <1>5, <1>7, <1>9, <1>14
  <2> QED BY <2>1, <2>2
<1>17. ASSUME NEW s \in Requests, Counted(s), calls[s].key = k
       PROVE  calls[s].life <= L /\ (calls[s].life = L => calls[s].current < n)
  BY <1>1, <1>0, <1>5, <1>14, <1>17 DEF Counting, CountsBelong
<1>18. \A s \in Requests : s # r => calls'[s] = calls[s] /\ (Counted(s)' <=> Counted(s))
  BY <1>10 DEF Counted
<1>19. calls'[r] = d BY <1>10
<1>20. CountsDiffer'
  <2> SUFFICES ASSUME NEW s \in Requests, NEW t \in Requests, Counted(s)', Counted(t)', SameCounter(s, t)',
                      calls'[s].current = calls'[t].current, s # t
               PROVE FALSE
    BY DEF CountsDiffer
  <2>1. CASE s # r /\ t # r
    BY <2>1, <1>1, <1>18 DEF Counting, CountsDiffer, SameCounter
  <2>2. CASE s = r BY <2>2, <1>13, <1>14, <1>17, <1>18, <1>19 DEF SameCounter
  <2>3. CASE t = r BY <2>3, <1>13, <1>14, <1>17, <1>18, <1>19 DEF SameCounter
  <2> QED BY <2>1, <2>2, <2>3
<1>21. CountsFill'
  <2>1. ASSUME NEW j \in Keys, NEW i \in 1..counters'[j].count
        PROVE  \E s \in Requests : calls'[s].current = i /\ calls'[s].key = j /\ calls'[s].life = counters'[j].life
    <3>1. CASE j = k /\ i = n BY <3>1, <1>0, <1>9, <1>13, <1>19
    <3>2. CASE ~(j = k /\ i = n)
      <4>1. i \in 1..counters[j].count BY <3>2, <1>0, <1>9, <1>15
      <4>2. PICK s \in Requests : calls[s].current = i /\ calls[s].key = j /\ calls[s].life = counters[j].life
        BY <1>1, <4>1 DEF Counting, CountsFill
      <4>3. s # r BY <4>2, <1>3
      <4> QED BY <4>2, <4>3, <1>9, <1>18
    <3> QED BY <3>1, <3>2
  <2>2. ASSUME NEW s \in Requests, Counted(s)', NEW i \in 1..calls'[s].current
        PROVE  \E t \in Requests : calls'[t].current = i /\ SameCounter(s, t)'
    <3>1. CASE s = r
      <4>1. i \in 1..counters'[k].count BY <3>1, <1>9, <1>13, <1>19
      <4>2. PICK t \in Requests : calls'[t].current = i /\ calls'[t].key = k /\ calls'[t].life = counters'[k].life
        BY <2>1, <4>1
      <4> QED BY <4>2, <3>1, <1>0, <1>9, <1>13, <1>19 DEF SameCounter
    <3>2. CASE s # r
      <4>1. Counted(s) /\ i \in 1..calls[s].current /\ calls'[s] = calls[s] BY <3>2, <2>2, <1>18
      <4>2. PICK t \in Requests : calls[t].current = i /\ SameCounter(s, t)
        BY <1>1, <4>1 DEF Counting, CountsFill
      <4>3. t # r BY <4>2, <1>3
      <4> QED BY <4>1, <4>2, <4>3, <1>18 DEF SameCounter
    <3> QED BY <3>1, <3>2
  <2> QED BY <2>1, <2>2 DEF CountsFill
<1>22. FreshLacksExpiry' BY <1>1, <1>6, <1>9 DEF Counting, FreshLacksExpiry
<1>23. FirstSetsExpiry'
  <2> SUFFICES ASSUME NEW s \in Requests, calls'[s].pc = "counted"
               PROVE /\ calls'[s].current = 1
                     /\ calls'[s].life = counters'[calls'[s].key].life /\ counters'[calls'[s].key].expires = None
    BY DEF FirstSetsExpiry
  <2>1. CASE s = r
    <3>1. n = 1 BY <2>1, <1>13, <1>19
    <3>2. counters[k].expires = None BY <3>1, <1>1, <1>0, <1>5 DEF Counting, FreshLacksExpiry
    <3> QED BY <2>1, <3>1, <3>2, <1>0, <1>9, <1>13, <1>19
  <2>2. CASE s # r
    <3>1. /\ calls[s].current = 1 /\ calls[s].life = counters[calls[s].key].life
          /\ counters[calls[s].key].expires = None
      BY <2>2, <1>1, <1>18 DEF Counting, FirstSetsExpiry
    <3>2. calls[s].key \in Keys BY <3>1, <1>1 DEF Counting, CountsBelong, Counted
    <3> QED BY <2>2, <3>1, <3>2, <1>9, <1>18
  <2> QED BY <2>1, <2>2
<1>24. LifetimesLast'
  <2> SUFFICES ASSUME NEW s \in Requests, Counted(s)'
               PROVE /\ calls'[s].current = 1 /\ calls'[s].life = counters'[calls'[s].key].life
                          /\ counters'[calls'[s].key].expires # None
                       => calls'[s].at + W <= counters'[calls'[s].key].expires
                     /\ calls'[s].life < counters'[calls'[s].key].life
                       => calls'[s].at < now' /\ (calls'[s].current = 1 => calls'[s].at + W <= now')
    BY DEF LifetimesLast
  <2>1. CASE s = r
    <3>1. calls'[s].life = counters'[k].life /\ calls'[s].key = k /\ calls'[s].current = n
      BY <2>1, <1>0, <1>9, <1>13, <1>19
    <3>2. n = 1 => counters'[k].expires = None BY <1>1, <1>0, <1>5, <1>9 DEF Counting, FreshLacksExpiry
    <3> QED BY <3>1, <3>2, <1>9, <1>6, <1>0
  <2>2. CASE s # r
    <3>1. Counted(s) /\ calls'[s] = calls[s] BY <2>2, <1>18
    <3>2. calls[s].key \in Keys BY <3>1, <1>1 DEF Counting, CountsBelong
    <3> QED BY <3>1, <3>2, <1>1, <1>7, <1>9 DEF Counting, LifetimesLast
  <2> QED BY <2>1, <2>2
<1>25. LifetimesApart'
  <2> SUFFICES ASSUME NEW s \in Requests, NEW t \in Requests, Counted(s)', Counted(t)',
                      calls'[s].key = calls'[t].key, calls'[s].life < calls'[t].life
               PROVE calls'[s].at < calls'[t].at /\ (calls'[s].current = 1 => calls'[s].at + W <= calls'[t].at)
    BY DEF LifetimesApart
  <2>1. CASE s # r /\ t # r BY <2>1, <1>1, <1>18 DEF Counting, LifetimesApart
  <2>2. CASE s = r /\ t # r
    <3>1. Counted(t) /\ calls[t].key = k /\ L < calls[t].life BY <2>2, <1>13, <1>18, <1>19
    <3> QED BY <3>1, <1>6, <1>14, <1>17
  <2>3. CASE s # r /\ t = r
    <3>1. Counted(s) /\ calls[s].key = k /\ calls[s].life < L /\ calls'[s] = calls[s] /\ calls'[t].at = now
      BY <2>3, <1>13, <1>18, <1>19
    <3>2. calls[s].at < now /\ (calls[s].current = 1 => calls[s].at + W <= now)
      BY <3>1, <1>1, <1>0 DEF Counting, LifetimesLast
    <3> QED BY <3>1, <3>2
  <2>4. CASE s = r /\ t = r BY <2>4, <1>6, <1>13, <1>19
  <2> QED BY <2>1, <2>2, <2>3, <2>4
<1>26. CounterLeftOnlyByFailure'
  <2> SUFFICES ASSUME NEW j \in Keys, counters'[j].count > 0, counters'[j].expires = None
               PROVE  \E s \in Requests : /\ calls'[s].current = 1 /\ calls'[s].key = j
                                          /\ calls'[s].life = counters'[j].life /\ Left(calls'[s])
    BY DEF CounterLeftOnlyByFailure, Left
  <2>1. CASE j = k /\ n = 1
    <3>1. Left(d) BY <2>1, <1>4
    <3> QED BY <2>1, <3>1, <1>0, <1>9, <1>13, <1>19
  <2>2. CASE ~(j = k /\ n = 1)
    <3>1. counters[j].count > 0 BY <2>2, <1>0, <1>5, <1>9
    <3>2. PICK s \in Requests : /\ calls[s].current = 1 /\ calls[s].key = j
                                /\ calls[s].life = counters[j].life /\ Left(calls[s])
      BY <3>1, <1>1, <1>9 DEF Counting, CounterLeftOnlyByFailure, Left
    <3>3. s # r BY <3>2, <1>3
    <3>4. calls'[s] = calls[s] BY <3>3, <1>18
    <3> QED BY <3>2, <3>4, <1>9
  <2> QED BY <2>1, <2>2
<1>27. Counting' BY <1>16, <1>20, <1>21, <1>22, <1>23, <1>24, <1>25, <1>26 DEF Counting
<1> QED BY <1>11, <1>12, <1>27, InvParts, PTL

LEMMA ExpireInv == ASSUME IInv, NEW r \in Requests, Expire(r) PROVE IInv'
<1> USE NoneFacts
<1>1. Calls /\ Rest /\ Counting /\ Cleanups BY InvParts
<1>2. Fine(calls[r]) /\ calls[r] \in Call /\ calls[r].pc = "counted" BY <1>1 DEF Calls, Expire
<1>3. PICK k, L : k = calls[r].key /\ L = counters[k].life OBVIOUS
<1>4. calls[r].current = 1 /\ calls[r].life = L /\ counters[k].expires = None
  BY <1>1, <1>2, <1>3 DEF Counting, FirstSetsExpiry
<1>5. k \in Keys /\ calls[r].at <= now
  BY <1>1, <1>3, <1>4 DEF Counting, CountsBelong, Counted
<1>6. counters[k] \in [count: Nat, expires: Nat \cup {None}, life: Nat] /\ now \in Nat /\ W \in Nat
  BY <1>1, <1>5, HttpAssumption DEF Rest, Time, W
<1>7. counters' = [counters EXCEPT ![k].expires = now + W] BY <1>3 DEF Expire, W
<1>8. /\ \A j \in Keys : counters'[j].count = counters[j].count /\ counters'[j].life = counters[j].life
      /\ \A j \in Keys : counters'[j].expires = IF j = k THEN now + W ELSE counters[j].expires
      /\ counters' \in [Keys -> [count: Nat, expires: Nat \cup {None}, life: Nat]]
  <2>1. PICK x : x = [counters[k] EXCEPT !.expires = now + W] OBVIOUS
  <2>2. x \in [count: Nat, expires: Nat \cup {None}, life: Nat] BY <2>1, <1>6
  <2>3. x.count = counters[k].count /\ x.life = counters[k].life BY <2>1, <1>6
  <2>4. x.expires = now + W BY <2>1, <1>6
  <2>5. counters' = [counters EXCEPT ![k] = x] BY <2>1, <1>7, Zenon
  <2>6. \A j \in Keys : counters'[j] = IF j = k THEN x ELSE counters[j] BY <1>1, <2>5 DEF Rest
  <2>7. counters' \in [Keys -> [count: Nat, expires: Nat \cup {None}, life: Nat]]
    BY <1>1, <2>2, <2>5 DEF Rest
  <2>8. \A j \in Keys : counters'[j].count = counters[j].count /\ counters'[j].life = counters[j].life
    BY <2>3, <2>6
  <2>9. \A j \in Keys : counters'[j].expires = IF j = k THEN now + W ELSE counters[j].expires
    BY <2>4, <2>6
  <2> QED BY <2>7, <2>8, <2>9
<1>9. PICK d : /\ calls' = [calls EXCEPT ![r] = d] /\ Fine(d) /\ SameCount(d, calls[r])
               /\ d.pc \in {"answered", "admitted"}
  <2>1. PICK d : calls' = [calls EXCEPT ![r] = d] /\ (d = Judged(calls[r]) \/ d = Raised(calls[r], UnexpectedError))
    BY DEF Expire
  <2>2. ~calls[r].admitted /\ calls[r].route # None /\ calls[r].route \in v1_router BY <1>2 DEF Fine, Call
  <2>3. calls[r].status = 0 /\ calls[r].route.limiter # "none" /\ (calls[r].body # "none" => calls[r].route.body)
    BY <1>2 DEF Fine
  <2>4. CASE d = Judged(calls[r])
    <3>1. Fine(d) /\ SameCount(d, calls[r]) /\ d.pc \in {"answered", "admitted"}
      BY <2>2, <2>3, <2>4, <1>2, <1>4, JudgedFine
    <3> QED BY <2>1, <3>1
  <2>5. CASE d = Raised(calls[r], UnexpectedError)
    <3>1. Fine(d) /\ SameCount(d, calls[r]) /\ d.pc \in {"answered", "admitted"}
      BY <2>2, <2>5, <1>2, FailedFine
    <3> QED BY <2>1, <3>1
  <2> QED BY <2>1, <2>4, <2>5
<1>10. UNCHANGED <<load, phase, cleaned, now>> BY DEF Expire
<1>11. phase = "serving"
  <2>1. r \in InFlight BY <1>2 DEF InFlight
  <2> QED BY <1>1, <2>1 DEF Rest
<1>12. \A s \in Requests : calls'[s] = IF s = r THEN d ELSE calls[s] BY <1>1, <1>9 DEF Calls
<1>13. Calls'
  <2>1. \A s \in Requests : Fine(calls'[s]) BY <1>1, <1>9, <1>12 DEF Calls
  <2> QED BY <1>1, <1>9, <2>1 DEF Calls, Fine
<1>14. Rest' /\ Cleanups' BY <1>1, <1>10, <1>11, <1>8 DEF Rest, Cleanups
<1>15. \A s \in Requests : /\ calls'[s].current = calls[s].current /\ calls'[s].key = calls[s].key
                           /\ calls'[s].life = calls[s].life /\ calls'[s].at = calls[s].at
                           /\ calls'[s].pc = "counted" => s # r /\ calls[s].pc = "counted"
                           /\ s # r => calls'[s] = calls[s]
  <2>1. SameCount(d, calls[r]) /\ d.pc # "counted" BY <1>9
  <2> QED BY <1>12, <2>1 DEF SameCount
<1>16. \A s \in Requests : calls[s].current \in Nat BY <1>1 DEF Calls, Call
<1>17. CountsBelong' BY <1>1, <1>8, <1>10, <1>15 DEF Counting, CountsBelong, Counted
<1>18. CountsDiffer' BY <1>1, <1>15 DEF Counting, CountsDiffer, Counted, SameCounter
<1>19. CountsFill'
  <2>1. ASSUME NEW j \in Keys, NEW i \in 1..counters'[j].count
        PROVE  \E s \in Requests : calls'[s].current = i /\ calls'[s].key = j /\ calls'[s].life = counters'[j].life
    <3>1. i \in 1..counters[j].count BY <1>8
    <3>2. PICK s \in Requests : calls[s].current = i /\ calls[s].key = j /\ calls[s].life = counters[j].life
      BY <1>1, <3>1 DEF Counting, CountsFill
    <3> QED BY <3>2, <1>8, <1>15
  <2>2. ASSUME NEW s \in Requests, Counted(s)', NEW i \in 1..calls'[s].current
        PROVE  \E t \in Requests : calls'[t].current = i /\ SameCounter(s, t)'
    <3>1. Counted(s) /\ i \in 1..calls[s].current BY <2>2, <1>15 DEF Counted
    <3>2. PICK t \in Requests : calls[t].current = i /\ SameCounter(s, t)
      BY <1>1, <3>1 DEF Counting, CountsFill
    <3> QED BY <3>2, <1>15 DEF SameCounter
  <2> QED BY <2>1, <2>2 DEF CountsFill
<1>20. FreshLacksExpiry'
  <2>1. counters[k].count >= 1 BY <1>1, <1>3, <1>4 DEF Counting, CountsBelong, Counted
  <2>2. counters'[k].count # 0 BY <2>1, <1>5, <1>6, <1>8
  <2> QED BY <2>2, <1>1, <1>8 DEF Counting, FreshLacksExpiry
<1>21. FirstSetsExpiry'
  <2> SUFFICES ASSUME NEW s \in Requests, calls'[s].pc = "counted"
               PROVE /\ calls'[s].current = 1
                     /\ calls'[s].life = counters'[calls'[s].key].life /\ counters'[calls'[s].key].expires = None
    BY DEF FirstSetsExpiry
  <2>1. s # r /\ calls'[s] = calls[s] /\ calls[s].pc = "counted" BY <1>15
  <2>2. /\ calls[s].current = 1 /\ calls[s].life = counters[calls[s].key].life
        /\ counters[calls[s].key].expires = None
    BY <2>1, <1>1 DEF Counting, FirstSetsExpiry
  <2>3. calls[s].key \in Keys BY <2>2, <1>1 DEF Counting, CountsBelong, Counted
  <2>4. calls[s].key # k
    BY <2>1, <2>2, <1>1, <1>3, <1>4 DEF Counting, CountsDiffer, Counted, SameCounter
  <2> QED BY <2>1, <2>2, <2>3, <2>4, <1>8
<1>22. LifetimesLast'
  <2> SUFFICES ASSUME NEW s \in Requests, Counted(s)'
               PROVE /\ calls'[s].current = 1 /\ calls'[s].life = counters'[calls'[s].key].life
                          /\ counters'[calls'[s].key].expires # None
                       => calls'[s].at + W <= counters'[calls'[s].key].expires
                     /\ calls'[s].life < counters'[calls'[s].key].life
                       => calls'[s].at < now' /\ (calls'[s].current = 1 => calls'[s].at + W <= now')
    BY DEF LifetimesLast
  <2>1. Counted(s) BY <1>15 DEF Counted
  <2>2. calls[s].key \in Keys /\ calls[s].at <= now /\ calls[s].at \in Nat
    BY <2>1, <1>1 DEF Counting, CountsBelong, Calls, Call, Time
  <2>3. calls[s].at + W <= now + W BY <2>2, <1>6
  <2> QED BY <2>1, <2>2, <2>3, <1>1, <1>8, <1>10, <1>15 DEF Counting, LifetimesLast
<1>23. LifetimesApart' BY <1>1, <1>15 DEF Counting, LifetimesApart, Counted
<1>24. CounterLeftOnlyByFailure'
  <2> SUFFICES ASSUME NEW j \in Keys, counters'[j].count > 0, counters'[j].expires = None
               PROVE  \E s \in Requests : /\ calls'[s].current = 1 /\ calls'[s].key = j
                                          /\ calls'[s].life = counters'[j].life /\ Left(calls'[s])
    BY DEF CounterLeftOnlyByFailure, Left
  <2>1. j # k BY <1>6, <1>8
  <2>2. PICK s \in Requests : /\ calls[s].current = 1 /\ calls[s].key = j
                              /\ calls[s].life = counters[j].life /\ Left(calls[s])
    BY <2>1, <1>1, <1>8 DEF Counting, CounterLeftOnlyByFailure, Left
  <2>3. s # r BY <2>1, <2>2, <1>3
  <2> QED BY <2>2, <2>3, <1>8, <1>15
<1>25. Counting' BY <1>17, <1>18, <1>19, <1>20, <1>21, <1>22, <1>23, <1>24 DEF Counting
<1> QED BY <1>13, <1>14, <1>25, InvParts, PTL

LEMMA TickInv == ASSUME IInv, Tick PROVE IInv'
<1> USE NoneFacts
<1>1. Calls /\ Rest /\ Counting /\ Cleanups BY InvParts
<1>2. /\ now \in Nat /\ now' = now + 1 /\ now' \in Time
      /\ \A k \in Keys : counters[k] \in [count: Nat, expires: Nat \cup {None}, life: Nat]
  BY <1>1, HttpAssumption DEF Tick, Rest, Time
<1>3. UNCHANGED <<load, phase, cleaned, calls>> BY DEF Tick
<1> DEFINE Gone(k) == counters[k].expires \in 0..now'
<1>4. \A k \in Keys : counters'[k] = IF Gone(k) THEN Absent(counters[k].life + 1) ELSE counters[k]
  BY DEF Tick
<1>5. /\ counters' \in [Keys -> [count: Nat, expires: Nat \cup {None}, life: Nat]]
      /\ \A k \in Keys : Gone(k) => /\ counters'[k].count = 0 /\ counters'[k].expires = None
                                    /\ counters'[k].life = counters[k].life + 1
      /\ \A k \in Keys : ~Gone(k) => counters'[k] = counters[k]
      /\ \A k \in Keys : Gone(k) => counters[k].expires \in Nat /\ counters[k].expires <= now'
  <2>1. \A k \in Keys : Gone(k) => counters'[k] = [count |-> 0, expires |-> None, life |-> counters[k].life + 1]
    BY <1>4 DEF Absent
  <2>2. \A k \in Keys : counters[k].life + 1 \in Nat BY <1>2
  <2>3. \A k \in Keys : counters'[k] \in [count: Nat, expires: Nat \cup {None}, life: Nat]
    <3> TAKE k \in Keys
    <3>1. CASE Gone(k)
      <4>1. PICK l : l = counters[k].life + 1 OBVIOUS
      <4>2. l \in Nat BY <4>1, <2>2
      <4>3. [count |-> 0, expires |-> None, life |-> l] \in [count: Nat, expires: Nat \cup {None}, life: Nat]
        BY <4>2
      <4>4. counters'[k] = [count |-> 0, expires |-> None, life |-> l] BY <3>1, <4>1, <2>1
      <4> QED BY <4>3, <4>4, Zenon
    <3>2. CASE ~Gone(k) BY <3>2, <1>2, <1>4
    <3> QED BY <3>1, <3>2
  <2>4. counters' \in [Keys -> [count: Nat, expires: Nat \cup {None}, life: Nat]]
    BY <2>3 DEF Tick
  <2>5. \A k \in Keys : Gone(k) => counters[k].expires \in Nat /\ counters[k].expires <= now' BY <1>2
  <2> QED BY <1>4, <2>1, <2>4, <2>5
<1> HIDE DEF Gone
<1>6. Calls' BY <1>1, <1>3 DEF Calls
<1>7. Rest' /\ Cleanups' BY <1>1, <1>2, <1>3, <1>5 DEF Rest, Cleanups, InFlight
<1>8. \A s \in Requests : calls[s].current \in Nat /\ calls[s].life \in Nat /\ calls[s].at \in Nat
  BY <1>1 DEF Calls, Call, Time
<1>9. W \in Nat BY HttpAssumption DEF W
<1>10. ASSUME NEW s \in Requests, Counted(s)
       PROVE  /\ calls[s].key \in Keys /\ calls[s].at <= now /\ calls[s].life <= counters[calls[s].key].life
              /\ calls[s].life = counters[calls[s].key].life => calls[s].current <= counters[calls[s].key].count
  BY <1>1, <1>10 DEF Counting, CountsBelong
<1>11. \A s \in Requests : Counted(s)' <=> Counted(s) BY <1>3 DEF Counted
<1>12. CountsBelong'
  <2> SUFFICES ASSUME NEW s \in Requests, Counted(s)
               PROVE  /\ calls[s].key \in Keys /\ calls[s].at <= now'
                      /\ calls[s].life <= counters'[calls[s].key].life
                      /\ calls[s].life = counters'[calls[s].key].life
                           => calls[s].current <= counters'[calls[s].key].count
    BY <1>3, <1>11 DEF CountsBelong
  <2>1. CASE Gone(calls[s].key) BY <2>1, <1>2, <1>5, <1>8, <1>10
  <2>2. CASE ~Gone(calls[s].key) BY <2>2, <1>2, <1>5, <1>8, <1>10
  <2> QED BY <2>1, <2>2
<1>13. CountsDiffer' BY <1>1, <1>3 DEF Counting, CountsDiffer, Counted, SameCounter
<1>14. CountsFill'
  <2>1. ASSUME NEW j \in Keys, NEW i \in 1..counters'[j].count
        PROVE  \E s \in Requests : calls[s].current = i /\ calls[s].key = j /\ calls[s].life = counters'[j].life
    <3>1. ~Gone(j) BY <1>5
    <3> QED BY <3>1, <1>1, <1>5 DEF Counting, CountsFill
  <2>2. \A s \in Requests : Counted(s)' => \A i \in 1..calls'[s].current :
          \E t \in Requests : calls'[t].current = i /\ SameCounter(s, t)'
    BY <1>1, <1>3, <1>11 DEF Counting, CountsFill, SameCounter
  <2> QED BY <2>1, <2>2, <1>3 DEF CountsFill
<1>15. FreshLacksExpiry' BY <1>1, <1>5 DEF Counting, FreshLacksExpiry
<1>16. FirstSetsExpiry'
  <2> SUFFICES ASSUME NEW s \in Requests, calls[s].pc = "counted"
               PROVE  /\ calls[s].current = 1
                      /\ calls[s].life = counters'[calls[s].key].life /\ counters'[calls[s].key].expires = None
    BY <1>3 DEF FirstSetsExpiry
  <2>1. /\ calls[s].current = 1 /\ calls[s].life = counters[calls[s].key].life
        /\ counters[calls[s].key].expires = None
    BY <1>1 DEF Counting, FirstSetsExpiry
  <2>2. calls[s].key \in Keys BY <2>1, <1>10 DEF Counted
  <2>3. ~Gone(calls[s].key) BY <2>1, <2>2, <1>5
  <2> QED BY <2>1, <2>2, <2>3, <1>5
<1>17. LifetimesLast'
  <2> SUFFICES ASSUME NEW s \in Requests, Counted(s)
               PROVE /\ calls[s].current = 1 /\ calls[s].life = counters'[calls[s].key].life
                          /\ counters'[calls[s].key].expires # None
                       => calls[s].at + W <= counters'[calls[s].key].expires
                     /\ calls[s].life < counters'[calls[s].key].life
                       => calls[s].at < now' /\ (calls[s].current = 1 => calls[s].at + W <= now')
    BY <1>3, <1>11 DEF LifetimesLast
  <2>1. /\ calls[s].current = 1 /\ calls[s].life = counters[calls[s].key].life
             /\ counters[calls[s].key].expires # None
          => calls[s].at + W <= counters[calls[s].key].expires
        /\ calls[s].life < counters[calls[s].key].life
          => calls[s].at < now /\ (calls[s].current = 1 => calls[s].at + W <= now)
    BY <1>1 DEF Counting, LifetimesLast
  <2>2. calls[s].at < now' BY <1>2, <1>8, <1>10
  <2>3. CASE Gone(calls[s].key)
    <3>1. counters'[calls[s].key].expires = None BY <2>3, <1>5, <1>10
    <3>2. counters[calls[s].key].expires # None /\ counters[calls[s].key].expires \in Nat /\ counters[calls[s].key].expires <= now'
      BY <2>3, <1>5, <1>10
    <3>3. calls[s].current = 1 => calls[s].at + W <= now'
      BY <2>1, <3>2, <1>2, <1>8, <1>9, <1>10
    <3> QED BY <2>2, <3>1, <3>3
  <2>4. CASE ~Gone(calls[s].key)
    <3>1. counters'[calls[s].key] = counters[calls[s].key] BY <2>4, <1>5, <1>10
    <3> QED BY <2>1, <2>2, <3>1, <1>2, <1>8, <1>9
  <2> QED BY <2>3, <2>4
<1>18. LifetimesApart' BY <1>1, <1>3 DEF Counting, LifetimesApart, Counted
<1>19. CounterLeftOnlyByFailure'
  <2> SUFFICES ASSUME NEW j \in Keys, counters'[j].count > 0, counters'[j].expires = None
               PROVE  \E s \in Requests : /\ calls[s].current = 1 /\ calls[s].key = j
                                          /\ calls[s].life = counters'[j].life /\ Left(calls[s])
    BY <1>3 DEF CounterLeftOnlyByFailure, Left
  <2>1. ~Gone(j) BY <1>5
  <2> QED BY <2>1, <1>1, <1>5 DEF Counting, CounterLeftOnlyByFailure, Left
<1>20. Counting' BY <1>12, <1>13, <1>14, <1>15, <1>16, <1>17, <1>18, <1>19 DEF Counting
<1> QED BY <1>6, <1>7, <1>20, InvParts, PTL

-----------------------------------------------------------------------------
(* The endpoint and the lifespan *)

LEMMA HandleInv == ASSUME IInv, NEW r \in Requests, Handle(r) PROVE IInv'
<1> USE NoneFacts
<1>1. Calls /\ Rest /\ Counting /\ Cleanups BY InvParts
<1>2. PICK c : c = calls[r] OBVIOUS
<1>3. Fine(c) /\ c \in Call /\ c.pc = "admitted" BY <1>1, <1>2 DEF Calls, Handle
<1>4. c.route \in v1_router /\ c.status = 0 /\ (c.body # "none" => c.route.body)
  BY <1>3 DEF Fine, Call
<1>5. /\ c.admitted => c.current > 0 /\ c.current <= Limit
      /\ c.route.limiter # "none" => c.admitted
  BY <1>3 DEF Fine
<1>6. Sound(c.route) BY <1>4, RouteFacts
<1>7. phase = "serving" /\ UNCHANGED <<load, phase, cleaned, now, counters>>
  <2>1. r \in InFlight BY <1>2, <1>3 DEF InFlight
  <2>2. phase = "serving" BY <1>1, <2>1 DEF Rest
  <2> QED BY <2>2 DEF Handle
<1>8. ASSUME NEW d, calls' = [calls EXCEPT ![r] = d], Fine(d), SameCount(d, c), d.pc = "answered"
      PROVE  IInv'
  <2>1. Kept(calls[r], d) BY <1>2, <1>3, <1>4, <1>8 DEF Kept, SameCount, Left
  <2>2. counters' = counters /\ now' = now /\ UNCHANGED <<load, phase, cleaned>> BY <1>7
  <2>3. phase = "serving" /\ Fine(d) /\ calls' = [calls EXCEPT ![r] = d] BY <1>7, <1>8
  <2>4. Calls' /\ Rest' /\ Counting' /\ Cleanups' BY <1>1, <2>1, <2>2, <2>3, OneCall
  <2> QED BY <2>4, InvParts, PTL
<1>9. PICK token \in Tokens, id_valid \in BOOLEAN :
        /\ c.route.auth = "none" => token.reads = "missing"
        /\ c.route.id \/ id_valid
        /\ LET e == [c EXCEPT !.token = token] IN
           IF RequireRole(c.route, token) # {}
           THEN \E error \in RequireRole(c.route, token) : calls' = [calls EXCEPT ![r] = Raised(e, error)]
           ELSE IF ~id_valid \/ c.body \in {"not_object", "invalid"}
           THEN calls' = [calls EXCEPT ![r] = Raised(e, RequestValidationError)]
           ELSE \/ \E status \in c.route.answers :
                     calls' = [calls EXCEPT ![r] = Answered(e, status, FALSE)]
                \/ \E error \in c.route.raises \cup (IF c.route.db THEN {UnexpectedError} ELSE {}) :
                     calls' = [calls EXCEPT ![r] = Raised(e, error)]
  BY <1>2, Zenon DEF Handle
<1>10. PICK e : e = [c EXCEPT !.token = token] OBVIOUS
<1>11. e \in Call BY <1>3, <1>10 DEF Call
<1>12. /\ e.route = c.route /\ e.status = 0 /\ e.token = token
       /\ SameCount(e, c)
  BY <1>3, <1>4, <1>10 DEF Call, SameCount
<1>13. e.admitted = c.admitted BY <1>3, <1>10 DEF Call
\* An answer of the endpoint, with what must be true of its status.
<1>14. ASSUME NEW d, calls' = [calls EXCEPT ![r] = d], NEW status \in Nat, IsAnswer(d, e, status),
              status \in Documented(c.route) \cup {500},
              status = 403 => token.reads = "good",
              status = 401 /\ c.route.auth # "none" =>
                d.challenge /\ (token.reads = "good" => AuthenticationRequiredError \in c.route.raises),
              status = 429 => c.admitted
       PROVE  IInv'
  <2>1. /\ d \in Call /\ d.pc = "answered" /\ d.status = status /\ d.route = c.route /\ d.token = token
        /\ SameCount(d, c)
    BY <1>12, <1>14 DEF IsAnswer, SameCount
  <2>2. d.admitted = c.admitted BY <1>13, <1>14 DEF IsAnswer
  <2>3. Fine(d) BY <1>4, <1>5, <1>14, <2>1, <2>2 DEF Fine, SameCount
  <2>4. SameCount(d, c) /\ d.pc = "answered" BY <2>1
  <2> QED BY <1>8, <1>14, <2>3, <2>4
<1> DEFINE Suits(error) ==
       /\ error.status \in Documented(c.route) \cup {500}
       /\ error.status = 403 => token.reads = "good"
       /\ error.status = 401 /\ c.route.auth # "none" =>
            error.challenge /\ (token.reads = "good" => AuthenticationRequiredError \in c.route.raises)
       /\ error.status = 429 => c.admitted
<1>15. ASSUME NEW error \in [status : Nat, challenge : BOOLEAN], calls' = [calls EXCEPT ![r] = Raised(e, error)],
              Suits(error)
       PROVE  IInv'
  <2>1. PICK d : d = Raised(e, error) OBVIOUS
  <2>2. IsAnswer(Raised(e, error), e, error.status) /\ Raised(e, error).challenge = error.challenge
    BY <1>11, RaisedAnswer, Zenon
  <2>3. IsAnswer(d, e, error.status) /\ d.challenge = error.challenge BY <2>1, <2>2, Zenon
  <2>4. PICK status \in Nat : status = error.status OBVIOUS
  <2>5. status = 401 /\ c.route.auth # "none" =>
          d.challenge /\ (token.reads = "good" => AuthenticationRequiredError \in c.route.raises)
    BY <1>15, <2>3, <2>4
  <2>6. IsAnswer(d, e, status) BY <2>3, <2>4
  <2>7. status \in Documented(c.route) \cup {500} /\ (status = 403 => token.reads = "good") /\ (status = 429 => c.admitted)
    BY <1>15, <2>4
  <2>8. calls' = [calls EXCEPT ![r] = d] BY <1>15, <2>1
  <2> QED BY <1>14, <2>5, <2>6, <2>7, <2>8
<1> HIDE DEF Suits
<1>16. ASSUME NEW error \in RequireRole(c.route, token), calls' = [calls EXCEPT ![r] = Raised(e, error)]
       PROVE  IInv'
  <2>1. /\ error \in [status : {401, 403}, challenge : BOOLEAN] /\ error.status \in c.route.documented
        /\ error.status = 403 => token.reads = "good"
        /\ error.status = 401 => error.challenge /\ token.reads # "good"
    BY <1>4, RefusedFacts
  <2>2. error \in [status : Nat, challenge : BOOLEAN] BY <2>1
  <2>3. error.status \in {401, 403} BY <2>1
  <2>4. error.status \in Documented(c.route) \cup {500} BY <2>1 DEF Documented
  <2>5. error.status = 401 => error.challenge /\ token.reads # "good" BY <2>1
  <2>6. error.status = 403 => token.reads = "good" BY <2>1
  <2>7. Suits(error) BY <2>3, <2>4, <2>5, <2>6 DEF Suits
  <2> QED BY <1>15, <1>16, <2>2, <2>7, Zenon
<1>17. ASSUME ~id_valid \/ c.body \in {"not_object", "invalid"}, calls' = [calls EXCEPT ![r] = Raised(e, RequestValidationError)]
       PROVE  IInv'
  <2>1. c.route.id \/ c.route.body BY <1>4, <1>9, <1>17
  <2>2. 422 \in Documented(c.route) BY <2>1, <1>6 DEF Documented
  <2>3. RequestValidationError \in [status : Nat, challenge : BOOLEAN] /\ RequestValidationError.status = 422
    BY RefusalFacts
  <2>4. Suits(RequestValidationError) BY <2>2, <2>3 DEF Suits
  <2> QED BY <1>15, <1>17, <2>3, <2>4, Zenon
<1>18. ASSUME NEW status \in c.route.answers, calls' = [calls EXCEPT ![r] = Answered(e, status, FALSE)]
       PROVE  IInv'
  <2>1. status \in Nat /\ status \notin {401, 403, 429} /\ status \in Documented(c.route)
    BY <1>6 DEF Sound, Documented
  <2>2. FALSE \in BOOLEAN OBVIOUS
  <2>3. IsAnswer(Answered(e, status, FALSE), e, status) BY <1>11, <2>1, <2>2, AnsweredFacts, Zenon
  <2>4. PICK d : d = Answered(e, status, FALSE) OBVIOUS
  <2>5. IsAnswer(d, e, status) /\ calls' = [calls EXCEPT ![r] = d] BY <2>3, <2>4, <1>18, Zenon
  <2> QED BY <1>14, <2>1, <2>5
<1>19. ASSUME NEW error \in c.route.raises, calls' = [calls EXCEPT ![r] = Raised(e, error)]
       PROVE  IInv'
  <2>1. error \in [status : {400, 401, 404, 429}, challenge : BOOLEAN] /\ error.status \in c.route.documented
    BY <1>6 DEF Sound
  <2>2. error.status = 429 => c.admitted BY <1>5, <1>6 DEF Sound
  <2>3. error.status = 401 /\ c.route.auth # "none" => error = AuthenticationRequiredError
    BY <1>6 DEF Sound
  <2>4. AuthenticationRequiredError.challenge BY DEF AuthenticationRequiredError, Error
  <2>5. error \in [status : Nat, challenge : BOOLEAN] BY <2>1
  <2>6. error.status # 403 BY <2>1
  <2>7. error.status \in Documented(c.route) BY <2>1 DEF Documented
  <2>8. Suits(error) BY <2>2, <2>3, <2>4, <2>6, <2>7 DEF Suits
  <2> QED BY <1>15, <1>19, <2>5, <2>8, Zenon
<1>20. ASSUME calls' = [calls EXCEPT ![r] = Raised(e, UnexpectedError)]
       PROVE  IInv'
  <2>1. UnexpectedError \in [status : Nat, challenge : BOOLEAN] /\ UnexpectedError.status = 500
    BY RefusalFacts
  <2>2. Suits(UnexpectedError) BY <2>1 DEF Suits
  <2> QED BY <1>15, <1>20, <2>1, <2>2, Zenon
<1>21. \/ \E error \in RequireRole(c.route, token) : calls' = [calls EXCEPT ![r] = Raised(e, error)]
       \/ (~id_valid \/ c.body \in {"not_object", "invalid"}) /\ calls' = [calls EXCEPT ![r] = Raised(e, RequestValidationError)]
       \/ \E status \in c.route.answers : calls' = [calls EXCEPT ![r] = Answered(e, status, FALSE)]
       \/ \E error \in c.route.raises : calls' = [calls EXCEPT ![r] = Raised(e, error)]
       \/ calls' = [calls EXCEPT ![r] = Raised(e, UnexpectedError)]
  BY <1>9, <1>10, Zenon
<1> QED BY <1>16, <1>17, <1>18, <1>19, <1>20, <1>21, Zenon

LEMMA CrashInv == ASSUME IInv, Crash PROVE IInv'
<1>1. Calls /\ Rest /\ Counting /\ Cleanups BY InvParts
<1>2. \A s \in Requests : calls'[s] = IF s \in InFlight THEN [calls[s] EXCEPT !.pc = "lost"] ELSE calls[s]
  BY DEF Crash
<1>3. UNCHANGED <<load, cleaned, now, counters>> /\ phase' = "crashed" BY DEF Crash
<1>4. ASSUME NEW s \in Requests PROVE Fine(calls'[s]) /\ Kept(calls[s], calls'[s]) /\ ~(calls'[s].pc \in {"arrived", "counted", "admitted"})
  <2>1. Fine(calls[s]) BY <1>1 DEF Calls
  <2>2. CASE s \notin InFlight
    <3>1. calls'[s] = calls[s] /\ ~(calls[s].pc \in {"arrived", "counted", "admitted"}) BY <1>2, <2>2 DEF InFlight
    <3>2. Kept(calls[s], calls'[s]) BY <3>1 DEF Kept
    <3> QED BY <2>1, <3>1, <3>2
  <2>3. CASE s \in InFlight
    <3>1. PICK c, d : c = calls[s] /\ d = [c EXCEPT !.pc = "lost"] OBVIOUS
    <3>2. c \in Call /\ Fine(c) /\ c.pc \in {"arrived", "counted", "admitted"} BY <2>1, <2>3, <3>1 DEF InFlight, Fine
    <3>3. d \in Call BY <3>1, <3>2 DEF Call
    <3>4. d.pc = "lost" /\ d.route = c.route /\ d.status = c.status /\ SameCount(d, c)
      BY <3>1, <3>2 DEF Call, SameCount
    <3>5. d.admitted = c.admitted BY <3>1, <3>2 DEF Call
    <3>6. Fine(d) BY <3>2, <3>3, <3>4, <3>5 DEF Fine, SameCount
    <3>7. Kept(c, d) BY <3>4 DEF Kept, SameCount, Left
    <3>8. calls'[s] = d BY <1>2, <2>3, <3>1
    <3>9. ~(d.pc \in {"arrived", "counted", "admitted"}) BY <3>4
    <3> QED BY <3>1, <3>6, <3>7, <3>8, <3>9
  <2> QED BY <2>2, <2>3
<1>5. Calls'
  <2>1. DOMAIN calls' = Requests /\ calls' = [s \in Requests |-> calls'[s]] BY DEF Crash
  <2>2. \A s \in Requests : calls'[s] \in Call BY <1>4 DEF Fine
  <2>3. calls' \in [Requests -> Call] BY <2>1, <2>2
  <2> QED BY <2>3, <1>4 DEF Calls, Fine
<1>6. \A s \in Requests : Kept(calls[s], calls'[s]) BY <1>4
<1>7. Counting' BY <1>1, <1>3, <1>6, KeptCounting
<1>8. Rest' /\ Cleanups' BY <1>1, <1>3, <1>4 DEF Rest, Cleanups, InFlight
<1> QED BY <1>5, <1>7, <1>8, InvParts, PTL

LEMMA LifespanInv ==
  ASSUME IInv, Start \/ Shutdown \/ Dispose \/ Close \/ Restart \/ UNCHANGED vars PROVE IInv'
<1>1. Calls /\ Rest /\ Counting /\ Cleanups BY InvParts
<1>2. UNCHANGED <<load, now, counters, calls>>
  BY DEF Start, Shutdown, Dispose, Close, Restart, vars
<1>3. Calls' BY <1>1, <1>2 DEF Calls
<1>4. \A s \in Requests : Kept(calls[s], calls'[s]) BY <1>2 DEF Kept
<1>5. Counting' BY <1>1, <1>2, <1>4, KeptCounting
<1>6. InFlight' = InFlight BY <1>2 DEF InFlight
<1>7. Rest' /\ Cleanups'
  <2>1. CASE UNCHANGED vars BY <2>1, <1>1, <1>6 DEF Rest, Cleanups, vars
  <2>2. CASE Start BY <2>2, <1>1, <1>6 DEF Rest, Cleanups, Start
  <2>3. CASE Shutdown BY <2>3, <1>1, <1>6 DEF Rest, Cleanups, Shutdown
  <2>4. CASE Dispose BY <2>4, <1>1, <1>6 DEF Rest, Cleanups, Dispose
  <2>5. CASE Close BY <2>5, <1>1, <1>6 DEF Rest, Cleanups, Close
  <2>6. CASE Restart BY <2>6, <1>1, <1>6 DEF Rest, Cleanups, Restart
  <2> QED BY <2>1, <2>2, <2>3, <2>4, <2>5, <2>6
<1> QED BY <1>3, <1>5, <1>7, InvParts, PTL

LEMMA InitInv == ASSUME Init PROVE IInv
<1> USE NoneFacts
<1>1. \A r \in Requests : calls[r] = Unsent BY DEF Init
<1>2. Unsent \in Call
  <2>1. 0 \in Time /\ "none" \in Bodies BY HttpAssumption DEF Time, Bodies
  <2> QED BY <2>1 DEF Unsent, Call
<1>3. Unsent.pc = "idle" /\ Unsent.current = 0 /\ Unsent.status = 0 BY DEF Unsent
<1>4. Unsent.admitted = FALSE BY DEF Unsent
<1>5. Fine(Unsent) BY <1>2, <1>3, <1>4 DEF Fine
<1>6. Calls BY <1>1, <1>2, <1>5 DEF Calls, Init
<1>7. \A k \in Keys : counters[k].count = 0 /\ counters[k].expires = None /\ counters[k].life = 0
  BY DEF Init, Absent
<1>8. counters \in [Keys -> [count: Nat, expires: Nat \cup {None}, life: Nat]] BY DEF Init, Absent
<1>9. InFlight = {} BY <1>1, <1>3 DEF InFlight
<1>10. 0 \in Time BY HttpAssumption DEF Time
<1>11. Rest /\ Cleanups BY <1>8, <1>9, <1>10 DEF Rest, Cleanups, Init
<1>12. \A r \in Requests : ~Counted(r) /\ calls[r].pc = "idle" BY <1>1, <1>3 DEF Counted
<1>13. Counting
  <2>1. CountsBelong /\ CountsDiffer /\ LifetimesLast /\ LifetimesApart /\ FirstSetsExpiry
    BY <1>12 DEF CountsBelong, CountsDiffer, LifetimesLast, LifetimesApart, FirstSetsExpiry
  <2>2. CountsFill /\ FreshLacksExpiry /\ CounterLeftOnlyByFailure
    BY <1>7, <1>12 DEF CountsFill, FreshLacksExpiry, CounterLeftOnlyByFailure
  <2> QED BY <2>1, <2>2 DEF Counting
<1> QED BY <1>6, <1>11, <1>13, InvParts

LEMMA StepInv == IInv /\ [Next]_vars => IInv'
<1> SUFFICES ASSUME IInv, [Next]_vars PROVE IInv' OBVIOUS
<1>1. ASSUME NEW r \in Requests, Receive(r) PROVE IInv' BY <1>1, ReceiveInv
<1>2. ASSUME NEW r \in Requests, Progress(r) PROVE IInv'
  BY <1>2, IncrInv, ExpireInv, RedisFailsInv, HandleInv DEF Progress
<1>3. CASE Tick BY <1>3, TickInv
<1>4. CASE Crash BY <1>4, CrashInv
<1>5. CASE Start \/ Shutdown \/ Dispose \/ Close \/ Restart \/ UNCHANGED vars BY <1>5, LifespanInv
<1> QED BY <1>1, <1>2, <1>3, <1>4, <1>5 DEF Next

-----------------------------------------------------------------------------
(* Counting *)

\* The numbers of those that one lifetime of a counter let through are distinct
\* and at most the limit.
LEMMA AdmittedBound ==
  ASSUME IInv, NEW k, NEW life
  PROVE  IsFiniteSet(AdmittedIn(k, life)) /\ Cardinality(AdmittedIn(k, life)) <= Limit
<1> DEFINE S == AdmittedIn(k, life)
           f == [s \in S |-> calls[s].current]
<1>1. Calls /\ Counting BY InvParts
<1>2. S \subseteq Requests /\ \A s \in S : Counted(s) /\ calls[s].key = k /\ calls[s].life = life /\ calls[s].admitted
  BY DEF AdmittedIn, CountedIn, Counted
<1> HIDE DEF S
<1>3. Limit \in Nat BY HttpAssumption DEF Limit
<1>4. \A s \in S : calls[s].current \in 1..Limit
  <2> TAKE s \in S
  <2>1. calls[s].current \in Nat /\ calls[s].current > 0 /\ calls[s].current <= Limit
    BY <1>1, <1>2 DEF Calls, Call, Fine, Counted
  <2> QED BY <2>1, <1>3
<1>5. f \in Injection(S, 1..Limit)
  <2>1. f \in [S -> 1..Limit] BY <1>4
  <2>2. ASSUME NEW s \in S, NEW t \in S, calls[s].current = calls[t].current PROVE s = t
    BY <1>1, <1>2, <2>2 DEF Counting, CountsDiffer, SameCounter
  <2>3. \A s, t \in S : f[s] = f[t] => s = t BY <2>2
  <2> QED BY <2>1, <2>3 DEF Injection, IsInjective
<1>6. IsFiniteSet(1..Limit) /\ Cardinality(1..Limit) = Limit BY <1>3, FS_Interval
<1>7. IsFiniteSet(S) /\ Cardinality(S) <= Cardinality(1..Limit) BY <1>5, <1>6, FS_Injection
<1> QED BY <1>6, <1>7 DEF S

LEMMA AdmittedInv == IInv => AdmittedWithinLimit
BY AdmittedBound DEF AdmittedWithinLimit

\* Whoever is refused has a number above the limit, and all numbers up to it
\* were given to others before.
LEMMA RefusedInv == IInv => RefusedOnlyOverLimit
<1> SUFFICES ASSUME IInv, NEW r \in Requests, calls[r].status = 429, ~calls[r].admitted
             PROVE  Cardinality({s \in CountedIn(calls[r].key, calls[r].life) : calls[s].current < calls[r].current}) >= Limit
  BY DEF RefusedOnlyOverLimit
<1> DEFINE S == {s \in CountedIn(calls[r].key, calls[r].life) : calls[s].current < calls[r].current}
           Numbered(s, i) == calls[s].current = i /\ SameCounter(r, s)
           f == [i \in 1..Limit |-> CHOOSE s \in Requests : Numbered(s, i)]
<1>1. Calls /\ Counting BY InvParts
<1>2. Limit \in Nat /\ calls[r].current \in Nat /\ calls[r].current > Limit
  BY <1>1, HttpAssumption DEF Calls, Call, Fine, Limit
<1>3. \A i \in 1..Limit : \E s \in Requests : Numbered(s, i)
  BY <1>1, <1>2 DEF Counting, CountsFill, Counted
<1> HIDE DEF Numbered
<1>4. \A i \in 1..Limit : f[i] \in Requests /\ Numbered(f[i], i) BY <1>3
<1> HIDE DEF f
<1>5. \A i \in 1..Limit : f[i] \in S
  <2> TAKE i \in 1..Limit
  <2>1. f[i] \in Requests /\ calls[f[i]].current = i /\ SameCounter(r, f[i]) BY <1>4 DEF Numbered
  <2>2. i > 0 /\ i < calls[r].current BY <1>2
  <2> QED BY <2>1, <2>2 DEF CountedIn, SameCounter
<1>6. \A i, j \in 1..Limit : f[i] = f[j] => i = j BY <1>4 DEF Numbered
<1>7. f \in Injection(1..Limit, S)
  <2>1. f \in [1..Limit -> S] BY <1>5 DEF f
  <2> QED BY <2>1, <1>6 DEF Injection, IsInjective
<1>8. IsFiniteSet(S)
  <2>1. S \subseteq Requests BY DEF CountedIn
  <2> QED BY <2>1, HttpAssumption, FS_Subset
<1>9. Cardinality(1..Limit) = Limit BY <1>2, FS_Interval
<1> HIDE DEF S
<1>10. Cardinality(1..Limit) <= Cardinality(S) BY <1>7, <1>8, FS_Injection
<1>11. Cardinality(S) \in Nat BY <1>8, FS_CardinalityType
<1>12. Cardinality(S) >= Limit BY <1>2, <1>9, <1>10, <1>11
<1> QED BY <1>12 DEF S

\* Between two numbers of different lifetimes of a counter, a third lifetime
\* takes a window.
LEMMA ThreeLifetimes ==
  ASSUME IInv, NEW a \in Requests, NEW b \in Requests, NEW c \in Requests,
         Counted(a), Counted(b), Counted(c), calls[a].key = calls[b].key, calls[b].key = calls[c].key,
         calls[a].life < calls[b].life, calls[b].life < calls[c].life
  PROVE  calls[a].at + W < calls[c].at
<1>1. Calls /\ Counting BY InvParts
<1>2. \A s \in Requests : calls[s].at \in Nat /\ calls[s].current \in Nat BY <1>1 DEF Calls, Call, Time
<1>3. PICK t \in Requests : calls[t].current = 1 /\ SameCounter(b, t)
  <2>1. 1 \in 1..calls[b].current BY <1>2 DEF Counted
  <2> QED BY <1>1, <2>1 DEF Counting, CountsFill
<1>4. Counted(t) /\ calls[t].key = calls[b].key /\ calls[t].life = calls[b].life
  BY <1>3 DEF Counted, SameCounter
<1>5. calls[a].at < calls[t].at BY <1>1, <1>4 DEF Counting, LifetimesApart
<1>6. calls[t].at + W <= calls[c].at BY <1>1, <1>3, <1>4 DEF Counting, LifetimesApart
<1>7. W \in Nat BY HttpAssumption DEF W
<1> QED BY <1>2, <1>5, <1>6, <1>7

\* So the numbers of a span come from two lifetimes at most.
LEMMA TwiceInv == IInv => AtMostTwiceTheLimit
<1> SUFFICES ASSUME IInv, NEW r \in Requests
             PROVE  Cardinality({s \in Requests : /\ calls[s].admitted /\ calls[s].key = calls[r].key
                      /\ calls[s].at \in calls[r].at..(calls[r].at + AUTH_RATE_LIMIT_WINDOW_SECONDS - 1)}) <= 2 * Limit
  BY DEF AtMostTwiceTheLimit
<1> DEFINE S == {s \in Requests : /\ calls[s].admitted /\ calls[s].key = calls[r].key
                      /\ calls[s].at \in calls[r].at..(calls[r].at + AUTH_RATE_LIMIT_WINDOW_SECONDS - 1)}
           A(life) == AdmittedIn(calls[r].key, life)
<1>1. Calls /\ Counting BY InvParts
<1>2. \A s \in Requests : calls[s].at \in Nat /\ calls[s].life \in Nat BY <1>1 DEF Calls, Call, Time
<1>3. W \in Nat /\ W = AUTH_RATE_LIMIT_WINDOW_SECONDS /\ Limit \in Nat BY HttpAssumption DEF W, Limit
<1>4. ASSUME NEW s \in S
      PROVE  /\ s \in Requests /\ Counted(s) /\ calls[s].key = calls[r].key /\ s \in A(calls[s].life)
             /\ calls[r].at <= calls[s].at /\ calls[s].at < calls[r].at + W
  <2>1. s \in Requests /\ calls[s].admitted /\ calls[s].key = calls[r].key
        /\ calls[s].at \in calls[r].at..(calls[r].at + W - 1)
    BY <1>3
  <2>2. Counted(s) BY <2>1, <1>1 DEF Calls, Fine, Counted
  <2>3. s \in A(calls[s].life) BY <2>1, <2>2 DEF AdmittedIn, CountedIn, Counted
  <2>4. calls[r].at <= calls[s].at /\ calls[s].at < calls[r].at + W BY <2>1, <1>2, <1>3
  <2> QED BY <2>1, <2>2, <2>3, <2>4
<1> HIDE DEF S, A
<1>5. ASSUME NEW a \in S, NEW b \in S, NEW c \in S, calls[a].life < calls[b].life, calls[b].life < calls[c].life
      PROVE  FALSE
  <2>1. calls[a].at + W < calls[c].at BY <1>4, <1>5, ThreeLifetimes
  <2>2. calls[r].at <= calls[a].at /\ calls[c].at < calls[r].at + W BY <1>4
  <2>3. a \in Requests /\ c \in Requests BY <1>4
  <2> QED BY <2>1, <2>2, <2>3, <1>2, <1>3
<1>6. PICK L, M : \A s \in S : calls[s].life = L \/ calls[s].life = M
  <2>1. CASE \A s, t \in S : calls[s].life = calls[t].life BY <2>1
  <2>2. CASE ~(\A s, t \in S : calls[s].life = calls[t].life)
    <3>1. PICK s \in S, t \in S : calls[s].life # calls[t].life BY <2>2
    <3>2. ASSUME NEW u \in S, calls[u].life # calls[s].life, calls[u].life # calls[t].life PROVE FALSE
      <4>1. calls[s].life \in Nat /\ calls[t].life \in Nat /\ calls[u].life \in Nat BY <1>2, <1>4
      <4> QED BY <3>1, <3>2, <4>1, <1>5
    <3> QED BY <3>2
  <2> QED BY <2>1, <2>2
<1>7. S \subseteq A(L) \cup A(M) BY <1>4, <1>6
<1>8. /\ IsFiniteSet(A(L)) /\ Cardinality(A(L)) <= Limit
      /\ IsFiniteSet(A(M)) /\ Cardinality(A(M)) <= Limit
  BY AdmittedBound DEF A
<1>9. /\ IsFiniteSet(A(L) \cup A(M))
      /\ Cardinality(A(L) \cup A(M)) = Cardinality(A(L)) + Cardinality(A(M)) - Cardinality(A(L) \cap A(M))
  BY <1>8, FS_Union
<1>10. Cardinality(A(L) \cap A(M)) \in Nat
  <2>1. IsFiniteSet(A(L) \cap A(M)) BY <1>8, FS_Intersection
  <2> QED BY <2>1, FS_CardinalityType
<1>11. Cardinality(A(L)) \in Nat /\ Cardinality(A(M)) \in Nat BY <1>8, FS_CardinalityType
<1>12. IsFiniteSet(S) /\ Cardinality(S) <= Cardinality(A(L) \cup A(M)) BY <1>7, <1>9, FS_Subset
<1>13. Cardinality(S) \in Nat BY <1>12, FS_CardinalityType
<1>14. Cardinality(S) <= 2 * Limit BY <1>3, <1>8, <1>9, <1>10, <1>11, <1>12, <1>13
<1> QED BY <1>14 DEF S

-----------------------------------------------------------------------------
(* Theorems *)

\* The invariant holds: what the counters have given out and what each request
\* was answered stay consistent, whatever interleaves, fails or dies.
THEOREM InvariantHolds == Spec => []IInv
<1>1. Init => IInv BY InitInv
<1>2. IInv /\ [Next]_vars => IInv' BY StepInv
<1> QED BY <1>1, <1>2, PTL DEF Spec

\* Every variable keeps its type (TypeOK).
THEOREM TypeCorrect == Spec => []TypeOK
<1>1. IInv => TypeOK BY DEF IInv
<1> QED BY <1>1, InvariantHolds, PTL

\* No counter lets more than the limit pass before it expires (rate_limit).
THEOREM AdmissionBounded == Spec => []AdmittedWithinLimit
BY AdmittedInv, InvariantHolds, PTL

\* 429 of the limiter means that as many as the limit were counted before.
THEOREM RefusalJustified == Spec => []RefusedOnlyOverLimit
BY RefusedInv, InvariantHolds, PTL

\* In no span of a window's length does one key let through more than twice the
\* limit.
THEOREM BurstBounded == Spec => []AtMostTwiceTheLimit
BY TwiceInv, InvariantHolds, PTL

\* A counter without an expiry is one whose creator has yet to set it, failed or
\* died.
THEOREM ExpiryLostOnlyByFailure == Spec => []CounterLeftOnlyByFailure
<1>1. IInv => CounterLeftOnlyByFailure BY DEF IInv, Counting
<1> QED BY <1>1, InvariantHolds, PTL

\* Every answer has a status the route documents, or 500, or is the 400 to a body
\* that cannot be decoded.
THEOREM AnswersDocumented == Spec => []DocumentedStatus
<1>1. IInv => DocumentedStatus BY DEF IInv
<1> QED BY <1>1, InvariantHolds, PTL

\* 403 goes to callers who are known, 401 to those who are not.
THEOREM RefusalsDistinct == Spec => []ForbiddenIsNotUnauthenticated
<1>1. IInv => ForbiddenIsNotUnauthenticated BY DEF IInv
<1> QED BY <1>1, InvariantHolds, PTL

\* A shutdown that ends has tried both cleanups and leaves no request behind.
THEOREM ShutdownCompletes == Spec => []ShutdownIsComplete
<1>1. IInv => ShutdownIsComplete
  <2> SUFFICES ASSUME IInv, phase = "stopped" PROVE cleaned = {"db_engine", "redis_client"} /\ InFlight = {}
    BY DEF ShutdownIsComplete
  <2>1. cleaned \subseteq {"db_engine", "redis_client"} /\ (InFlight # {} => phase = "serving")
    BY DEF IInv, TypeOK
  <2>2. "db_engine" \in cleaned /\ "redis_client" \in cleaned BY DEF IInv, Cleanups
  <2> QED BY <2>1, <2>2
<1> QED BY <1>1, InvariantHolds, PTL

\* A counter that has its expiry keeps it: requests refused in a window do not
\* prolong it.
THEOREM WindowFixed == Spec => WindowIsFixed
<1>1. IInv /\ [Next]_vars =>
        [\A k \in Keys : counters[k].expires # None /\ counters'[k].life = counters[k].life
                           => counters'[k].expires = counters[k].expires]_vars
  <2> SUFFICES ASSUME IInv, Next, NEW k \in Keys, counters[k].expires # None, counters'[k].life = counters[k].life
               PROVE  counters'[k].expires = counters[k].expires
    OBVIOUS
  <2>1. Calls /\ Rest /\ Counting BY InvParts
  <2>2. counters[k] \in [count: Nat, expires: Nat \cup {None}, life: Nat] BY <2>1 DEF Rest
  <2>3. ASSUME NEW r \in Requests, Incr(r) PROVE counters'[k].expires = counters[k].expires
    <3>1. PICK j, n : counters' = [counters EXCEPT ![j].count = n] BY <2>3 DEF Incr
    <3>2. PICK x : x = [counters[j] EXCEPT !.count = n] OBVIOUS
    <3>3. counters' = [counters EXCEPT ![j] = x] BY <3>1, <3>2, Zenon
    <3>4. CASE j = k
      <4>1. counters'[k] = x /\ x.expires = counters[k].expires BY <2>1, <2>2, <3>2, <3>3, <3>4 DEF Rest
      <4> QED BY <4>1
    <3>5. CASE j # k BY <2>1, <3>3, <3>5 DEF Rest
    <3> QED BY <3>4, <3>5
  <2>4. ASSUME NEW r \in Requests, Expire(r) PROVE counters'[k].expires = counters[k].expires
    <3>1. PICK j, n : counters' = [counters EXCEPT ![j].expires = n] /\ j = calls[r].key BY <2>4 DEF Expire
    <3>2. counters[j].expires = None BY <2>1, <2>4, <3>1 DEF Counting, FirstSetsExpiry, Expire
    <3>3. PICK x : x = [counters[j] EXCEPT !.expires = n] OBVIOUS
    <3>4. counters' = [counters EXCEPT ![j] = x] BY <3>1, <3>3, Zenon
    <3>5. j # k BY <3>2
    <3> QED BY <2>1, <3>4, <3>5 DEF Rest
  <2>5. ASSUME Tick PROVE counters'[k].expires = counters[k].expires
    <3>1. counters'[k] = IF counters[k].expires \in 0..now' THEN Absent(counters[k].life + 1) ELSE counters[k]
      BY <2>5 DEF Tick
    <3>2. Absent(counters[k].life + 1).life # counters[k].life BY <2>2 DEF Absent
    <3> QED BY <3>1, <3>2
  <2>6. CASE counters' = counters BY <2>6
  <2> QED
    <3>1. ASSUME NEW r \in Requests, Receive(r) \/ RedisFails(r) \/ Handle(r) PROVE counters' = counters
      BY <3>1 DEF Receive, RedisFails, Handle
    <3>2. ASSUME Start \/ Shutdown \/ Dispose \/ Close \/ Crash \/ Restart PROVE counters' = counters
      BY <3>2 DEF Start, Shutdown, Dispose, Close, Crash, Restart
    <3> QED BY <2>3, <2>4, <2>5, <2>6, <3>1, <3>2 DEF Next, Progress
<1> QED BY <1>1, InvariantHolds, PTL DEF Spec, WindowIsFixed
===============================================================================
