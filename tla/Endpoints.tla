------------------------------- MODULE Endpoints ------------------------------
(***************************************************************************)
(* What the API declares: its routes with their guards, the statuses each  *)
(* documents and what its service may raise; the exceptions with their     *)
(* statuses; what makes an access token good.                              *)
(***************************************************************************)
EXTENDS Naturals, FiniteSets

ROLE_CUSTOMER == "customer"
ROLE_PROVIDER == "provider"
ROLE_ADMIN == "admin"
Roles == {ROLE_CUSTOMER, ROLE_PROVIDER, ROLE_ADMIN}

-----------------------------------------------------------------------------
(* Exceptions: status, and whether a WWW-Authenticate challenge goes along *)

Error(status, challenge) == [status |-> status, challenge |-> challenge]

InvalidTokenError == Error(401, TRUE)
ExpiredTokenError == Error(401, TRUE)
AuthenticationRequiredError == Error(401, TRUE)
InvalidRefreshTokenError == Error(401, TRUE)
InvalidIdentityTokenError == Error(401, FALSE)
InsufficientRoleError == Error(403, FALSE)
InvalidOtpError == Error(400, FALSE)
OtpLockedError == Error(429, FALSE)
RateLimitExceededError == Error(429, FALSE)
SavedAddressNotFoundError == Error(404, FALSE)
\* (slip: someone else's session is forbidden, not missing)
SessionForbiddenError == Error(403, FALSE)
SessionNotFoundError == Error(404, FALSE)
RequestValidationError == Error(422, FALSE)
\* FastAPI's HTTPException for a body it cannot decode.
UndecodableBodyError == Error(400, FALSE)
UnexpectedError == Error(500, FALSE)

-----------------------------------------------------------------------------
(* Routes: where, who may call it, what it takes, answers and raises *)

Route(method, path, answers, documented) ==
  [at |-> <<method, path>>, auth |-> "none", allowed |-> {}, limiter |-> "none",
   id |-> FALSE, body |-> FALSE, db |-> TRUE,
   answers |-> answers, raises |-> {}, documented |-> answers \cup documented]

\* current_user: Depends(get_current_user), or require_role(*allowed_roles).
Authenticated(route) == [route EXCEPT !.auth = "token"]
require_role(allowed_roles, route) == [route EXCEPT !.auth = "role", !.allowed = allowed_roles]
Limited(key_by, route) == [route EXCEPT !.limiter = key_by]
Taking(id, body, route) == [route EXCEPT !.id = id, !.body = body]
Raising(errors, route) == [route EXCEPT !.raises = errors]

get_health == [Route("GET", "/health", {200}, {}) EXCEPT !.db = FALSE]
get_db_health == [Route("GET", "/health/db", {200, 503}, {}) EXCEPT !.db = FALSE]

get_me == Raising({AuthenticationRequiredError},
            require_role(Roles, Route("GET", "/auth/me", {200}, {401, 403})))
request_otp == Limited("phone", Taking(FALSE, TRUE,
            Route("POST", "/auth/request-otp", {200}, {429})))
verify_otp == Raising({InvalidOtpError, OtpLockedError}, Limited("ip", Taking(FALSE, TRUE,
            Route("POST", "/auth/verify-otp", {200}, {400, 429}))))
_sign_in_with_oauth(path) == Raising({InvalidIdentityTokenError}, Limited("ip", Taking(FALSE, TRUE,
            Route("POST", path, {200}, {401, 429}))))
sign_in_with_google == _sign_in_with_oauth("/auth/google")
sign_in_with_apple == _sign_in_with_oauth("/auth/apple")
refresh_token == Raising({InvalidRefreshTokenError}, Limited("ip", Taking(FALSE, TRUE,
            Route("POST", "/auth/refresh", {200}, {401, 429}))))
list_sessions == Authenticated(Route("GET", "/auth/sessions", {200}, {401}))
revoke_session == Raising({SessionNotFoundError}, Authenticated(Taking(TRUE, FALSE,
            Route("DELETE", "/auth/sessions/{session_id}", {200}, {401, 404}))))
logout_all_sessions == Authenticated(Taking(FALSE, TRUE,
            Route("POST", "/auth/sessions/logout-all", {200}, {401})))

Customers(method, path, answers, documented) ==
  require_role({ROLE_CUSTOMER}, Route(method, path, answers, {401, 403} \cup documented))
get_my_profile == Customers("GET", "/customers/me", {200}, {})
update_my_profile == Taking(FALSE, TRUE, Customers("PATCH", "/customers/me", {200}, {}))
list_my_addresses == Customers("GET", "/customers/me/addresses", {200}, {})
create_my_address == Taking(FALSE, TRUE, Customers("POST", "/customers/me/addresses", {201}, {}))
update_my_address == Raising({SavedAddressNotFoundError}, Taking(TRUE, TRUE,
            Customers("PATCH", "/customers/me/addresses/{address_id}", {200}, {404})))
delete_my_address == Raising({SavedAddressNotFoundError}, Taking(TRUE, FALSE,
            Customers("DELETE", "/customers/me/addresses/{address_id}", {200}, {404})))

v1_router ==
  {get_health, get_db_health, get_me, request_otp, verify_otp, sign_in_with_google,
   sign_in_with_apple, refresh_token, list_sessions, revoke_session, logout_all_sessions,
   get_my_profile, update_my_profile, list_my_addresses, create_my_address,
   update_my_address, delete_my_address}

\* 422 is what FastAPI documents for whatever takes input.
Documented(route) == route.documented \cup (IF route.id \/ route.body THEN {422} ELSE {})

\* There are routes, and no two have the same method and path.
verify_routes(routes) ==
  routes # {} /\ Cardinality({route.at : route \in routes}) = Cardinality(routes)

-----------------------------------------------------------------------------
(* Access tokens: how they read, and the roles they claim *)

Readings == {"missing", "unreadable", "expired", "claims_missing", "ids_malformed", "good"}
AccessToken == [reads: Readings, roles: SUBSET Roles]

get_token(token) == IF token.reads = "missing" THEN {AuthenticationRequiredError} ELSE {}
decode_token(token) == CASE token.reads = "expired"    -> {ExpiredTokenError}
                         [] token.reads = "unreadable" -> {InvalidTokenError}
                         [] OTHER                      -> {}
\* What get_current_user and what it depends on raise: at most one error.
get_current_user(token) ==
  get_token(token) \cup decode_token(token) \cup
  (IF token.reads \in {"claims_missing", "ids_malformed"} THEN {InvalidTokenError} ELSE {})

\* (slip: the role is looked at without the token)
RequireRoleFirst(route, token) ==
  IF route.auth = "role" /\ token.roles \cap route.allowed = {} THEN {InsufficientRoleError}
  ELSE IF route.auth = "none" THEN {} ELSE get_current_user(token)
\* RequireRole.__call__ depends on get_current_user.
RequireRole(route, token) ==
  IF route.auth = "none" THEN {}
  ELSE IF get_current_user(token) # {} THEN get_current_user(token)
  ELSE IF route.auth = "role" /\ token.roles \cap route.allowed = {} THEN {InsufficientRoleError}
  ELSE {}
===============================================================================
