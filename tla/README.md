# Verification of the AI Business Directory backend and mobile client

TLA+ modules, TLC configurations and TLAPS proofs about the program in `src/`:
a FastAPI backend (`src/backend/app`) over PostgreSQL and Redis, and a Flutter
client (`src/mobile/lib`). Identity (sign-in, sessions, refresh tokens), the
customer profile with its saved addresses, the rate limiter, the cache of
provider keys, the migrations, and the client that keeps a session alive are
the parts that hold state and can go wrong in ways a unit test does not reach;
the rest of the repository is documents, generated platform code and layout.

`PROJECT.json` lists the components, the runs, the mutants that show that every
property can fail, the source lines behind every definition, the hazards and
the theorems. Definitions whose comment begins with "(slip: ...)" are plausible
mistakes in the definition after them; no specification uses them, they are
there to show that a property would notice.

## 1. Inventory

| Component | State it keeps | Operations | Talks to |
| --- | --- | --- | --- |
| Session lifecycle (`identity/services/session_service.py`, session and refresh token repositories) | `identity.sessions`, `identity.refresh_tokens` (revoked_at, expires_at, replaced_by_token_id) | `start_session`, `refresh` (rotation, reuse cascade), `list_sessions`, `revoke_session`, `revoke_all_sessions` | audit log, sign-in, endpoints |
| Endpoints (`identity/api.py`, `customer/api.py`, `api/dependencies.py`, `database/session.py`) | one database session per request | every HTTP operation: rate limit, authenticate, call a service, commit | all services |
| Audit log (`modules/audit`) | `audit.audit_logs`, append only | `record_*`, inside the caller's transaction | sign-in, sessions |
| One-time passwords (`otp_service.py`) | `identity.otp_verifications` (attempt_count, expires_at, verified_at) | `request_otp`, `verify_otp` | SMS sender |
| Sign-in (`auth_service.py`) | `users`, `user_roles`, `devices` | OTP and OAuth find-or-create | OTP, sessions, customer, audit |
| Identity tokens (`oauth_service.py`, `id_token_verifier.py`) | key cache by `kid`, a lock | `verify` | the providers' JWKS endpoints |
| Rate limiting (`core/rate_limit.py`) | one Redis counter per path and client or phone number | the check before a request | Redis |
| Customer profile (`customer_service.py`) | `customer_profiles`, `customer_preferences` | provision at sign-up, get-or-create, update | sign-in |
| Saved addresses (`saved_address_service.py`) | `saved_addresses` (is_default, is_active) | list, create, update, soft delete | customer profile |
| Lifespan, health (`core/lifespan.py`, `api/v1/endpoints/health.py`) | pools in `app.state` | start-up, shutdown, readiness | PostgreSQL, Redis |
| Errors and middleware (`core/exceptions/`, request logging middleware) | none | exception to response | endpoints |
| Token and hash primitives (`core/security.py`) | none | sign and decode access tokens, hash codes and refresh tokens | endpoints, OTP, sessions |
| Migrations (`backend/alembic`, models and mixins) | the catalog, `alembic_version` | seven revisions, up and down | PostgreSQL |
| Role seeding | `roles` | insert what is missing, by hand | sign-in |
| Mobile session client (`auth_interceptor.dart`, `auth_session_controller.dart`, `secure_token_storage.dart`, splash and home screens) | the token pair in memory and in secure storage | attach, refresh and retry on 401, restore at start, log out | session endpoints |
| Mobile controllers (OTP entry, phone entry, OAuth, profile, addresses) | form state, timers | submit, resend, load, save | repositories |
| Configuration and logging; agent skill scripts (`.agents/skills`) | none | declarations; a design search tool kept beside the program | none |

Everything the backend does runs in one transaction per HTTP request.
`get_db` opens the session, the endpoint commits after the service returned,
and any exception leaves the `async with` and rolls back. The engine is created
without an isolation level, so PostgreSQL runs at READ COMMITTED: each
statement sees what was committed when the statement began. Between two awaited
statements any other request may run, on this worker or another one. This is
where the hard behaviours come from:

* a row is read, tested in Python and then updated by primary key, without a
  lock and without asking again (token rotation, the attempt counter, the use
  of a code, the update of an address);
* a bulk `UPDATE` picks its rows once and waits for locks row by row; rows
  committed meanwhile are not picked;
* an exception raised on purpose rolls back work that was done on purpose (the
  reuse cascade);
* unique indexes make one of two concurrent creations wait and fail late;
* requests that lock several rows can wait for each other;
* the limiter makes two calls to Redis, each of which may fail before or after
  it took effect;
* coroutines of a worker share a key cache that a fetch replaces as a whole;
* on the client, several requests share one refresh token that is good once.

For each component, what makes it correct:

* sessions: revoked credentials are of no use, a revocation that reports
  success missed nothing, the rotation chain is intact, the audit log agrees
  with the rows;
* OTP: a code is used up exactly when a sign-in with it succeeded, and a used
  code is refused;
* sign-in: one account per phone number or provider subject, complete with
  role, profile and registration entry, one row per device, no deadlock;
* key cache: only genuine tokens pass, and a genuine one is refused only when
  the keys could not be had;
* rate limit: what a counter and what a span of time admit, and that a key is
  blocked for good only by a failure;
* endpoints: a route answers what it documents; 401 and 403 are told apart;
* lifespan: one cleanup that fails does not stop the next;
* addresses: at most one active default, only the owner writes, deleted is
  deleted;
* profile: one per account, with one row of preferences in the right language;
* migrations: the catalog is that of its version, the last version is what the
  models declare, and a command happens as a whole;
* client: memory and storage agree, a session is dropped only when it is dead,
  a logout stays a logout.

## 2. Modules

| Modules | What they cover |
| --- | --- |
| `SessionTokens`, `SessionContract`, `SessionTokensInv`, `SessionTokensProofs`, `MCSessionTokens` | session lifecycle, its endpoints, its audit rows; the abstract specification they implement (section 3) |
| `SignIn`, `SignInContract`, `SignInInv`, `SignInProofs`, `MCSignIn` | OTP, find-or-create of account and device, registration and login rows; every sign-in that succeeds is a `login` of `SessionTokens` (section 4) |
| `ClientSession`, `ClientSessionInv`, `ClientSessionProofs`, `MCClientSession` | the mobile client against a server with rotating tokens, lost answers and restarts (section 5) |
| `AcceptLanguage`, `AcceptLanguageProofs`, `Customer`, `CustomerInv`, `CustomerProofs`, `MCCustomer` | the profile's get-or-create, the addresses and their single default, the language of a new customer (section 6) |
| `KeyCache`, `KeyCacheProofs`, `MCKeyCache` | the provider key cache under concurrent verifications and key rotation (section 7) |
| `Endpoints`, `HttpApi`, `HttpApiInv`, `HttpApiProofs`, `MCHttpApi` | what the 17 routes declare; a worker with its limiter, authentication, answers and lifespan (section 8) |
| `Metadata`, `Migrations`, `MigrationsInv`, `MigrationsProofs`, `MCMigrations` | the models' tables; the revisions and the commands that run them (section 9) |

`…Inv` holds an inductive invariant, `…Proofs` the theorems, `MC…` the constants
of the runs. The components meet as they do in the program, at committed rows
and at answers: `SignIn` ends where `SessionTokens` begins (`login`),
`SessionContract` is what `ClientSession` assumes of the server (tokens rotate,
and two overlapping rotations of one both succeed), `HttpApi` stands in front of
all of them and takes their results as any of those that `Endpoints` lists, and
`Customer` starts from the accounts a registration has left.

Types and inductive invariants hold by proof for every value of the constants,
so the runs spend no property on them.

Every safety property of a passing run is stated by a theorem; what is left to
the model checker is liveness. What could be proved next: that `Customer`
implements an abstract specification of what a customer's requests promise, as
`SessionTokens` and `SignIn` implement theirs.

## 3. Sessions and refresh tokens (`SessionTokens`)

### How the model corresponds to the code

| Model | Code |
| --- | --- |
| `status[x]` for a session or token key | the committed row: not inserted, `revoked_at IS NULL`, or revoked |
| `chain[t]`, `replacedBy[t]`, `expired` | `session_id`, `replaced_by_token_id`, `expires_at` in the past |
| `auditLog` | the rows `record_logout` and `record_session_revocation` add |
| `pc[r]` | the statement a request awaits next, or its outcome |
| `caller[r]` | the session in the `jti` of the access token the request came with; authentication decodes it and looks nothing up |
| `held[r]`, `todo[r]` | rows the transaction has updated and keeps locked; rows its running `UPDATE` has picked but not reached |
| `fresh[r]` | the primary key of the row it inserts, invisible to others until the commit |
| `before[r]` | history only: what was committed when the request arrived |

A request is `Begin…` (arrival and authentication), a few statements, and
`Commit` or `Finish`. `LockRow` is one row of an `UPDATE`: it waits while
another request holds the row and then tests the `WHERE` clause again
(`StillMatches`), as PostgreSQL does at READ COMMITTED. `ScanSessions` and
`ScanTokens` are the moments a bulk update picks its rows. `RaiseReuse` is the
exception at the end of the reuse cascade: it rolls the cascade back, because
`refresh_token` in `api.py` commits only after `refresh` has returned. `Abort`
(any failure) and `DeadlockVictim` leave the request at any point.

Folded into their neighbours: inserts (nobody sees them or waits for them
before the commit), reads that decide nothing (user, role names, audit fields),
and the keys of the rows, which are drawn on arrival. Rows locked by the
database in `FOR KEY SHARE` mode for foreign keys conflict with no update of
this code. Not modelled here: the pool of 15 connections, the device and login
rows of a sign-in (`SignIn`), the 15 minutes an access token stays
good after its session was revoked (`caller` may be any session that ever
existed, which admits more).

### What the rest of the system may rely on (`SessionContract`)

`SessionContract` is the component seen from outside: sessions and tokens are
absent, live or revoked, and there are three steps, `Open` (a sign-in), `Rotate`
and `End` (a revocation of one session or of any number of the actor's own, with
its record). It has no statements, locks or rollbacks. `Contract` in
`SessionTokensInv` instantiates it with the committed rows (`status`, `chain`,
the audit rows without their request), and `KeepsContract == Contract!Spec` is
checked as a property: every commit is one step of the contract, everything else
a stutter. The contract allows a revoked token to be rotated again, because two
overlapping rotations of one token do that (see below).

### What is checked

| Run | Instance | Question |
| --- | --- | --- |
| `sessions` | 2 accounts with 1 session each, 3 tokens, 4 requests of any kind, tokens may expire | `AuditExact`: nobody ends another account's session, and log and rows agree; `RevokedIsUseless`; `ChainSound`; `KeepsContract` |
| `sessions_answered` | 2 sessions of 1 account, 2 tokens; 2 sign-ins, a logout-all, and a logout-all, revocation or refresh | `RevocationComplete` when several rows are updated while others change them; `EveryRequestEnds`, also when rows are locked in opposite orders |
| `sessions_reuse_cascade` | 1 session, 3 requests | the docstring's promise about a reused token is violated |

Bounds: `Requests`, `Sessions` and `Tokens` are the only sources of
unboundedness, and `Calls` says which endpoints each request may call. Two
overlapping requests make every race; a third is what observes it afterwards; a
sign-in must come first. Two sessions are what a lock cycle and an ownership
mistake need, three tokens allow a rotation of a rotated token. Requests and
tokens are symmetric in the safety runs. Requests stop when all have been
served, so the configurations say `CHECK_DEADLOCK FALSE`; that no request is
stuck before is `EveryRequestEnds`.

Fairness (`FairSpec`): while some request can take its next statement, one
does, and PostgreSQL's deadlock detector (`deadlock_timeout`) eventually ends a
member of a cycle of waits. Nothing is assumed of an individual request, nor
that any request avoids an abort.

### What the violation shows

`ReuseRevokesSession`: presenting a rotated token a second time is answered with
401, and the session, with the newer token, stays live. `refresh` revokes both
and then raises, so nothing is committed.

A second weakness is in the model and has no run of its own, because no document
of the repository rules it out: two refreshes of the same token that overlap
both read it unrevoked and both rotate it, so two live tokens come out of one,
and the first replacement is no longer linked from the chain. What holds in
spite of both is what the passing runs check.

### What is proved

`SessionTokensProofs` proves for every set of accounts, sessions, tokens and
requests, with no assumption beyond the two of the module (`OwnerAssumption`:
every session has an account as owner; `IdAssumption`: keys of sessions and
tokens differ and NULL is neither):

| Theorem | Statement |
| --- | --- |
| `TypeCorrect` | `Spec => []TypeOK` |
| `BaseInvariant` | `Spec => []` of the inductive core |
| `CommittedStaysFinal` | `Spec => CommittedIsFinal` |
| `ChainStaysSound` | `Spec => []ChainSound` |
| `AuditStaysExact` | `Spec => []AuditExact` |
| `RevokedStaysUseless` | `Spec => []RevokedIsUseless` |
| `RevocationIsComplete` | `Spec => []RevocationComplete` |
| `InvariantHolds` | `Spec => []IInv` |
| `ImplementsContract` | `Spec => KeepsContract` |

None of the properties is inductive. `SessionTokensInv` states what is missing:

* `KeysAreFresh`, `TokensHaveSessions`, `CallerKnown`: what a request will
  insert is in nobody's way, a committed token has a committed session, and
  callers name committed sessions;
* `RowsOf`, `Idle`, `Phase`, `Shape`: which rows a request may hold or want at
  each statement, so that `Commit` can only revoke what the statement is about;
* `HistoryKept`: what was committed when a request arrived is still there,
  revoked if it was revoked;
* `Usable`: a refresh that got past its tests had a token that was not revoked
  on arrival;
* `Covered` (`SessionsCovered`, `TokensCovered`): the heart of
  `RevocationComplete`. Once a revocation has scanned, every row that was live
  on its arrival and is in its scope is revoked already, held by it, or still
  to be locked. A rotation that commits in between can take a row out of the
  third set only by revoking it, and `StillMatches` then drops it rightly.

The proofs go by actions: `BaseInvariant` first, with `TypeOK`, then each
property relative to it. The refinement needs one lemma per kind of commit:
`Phase` says whose rows a committing request has written, and from that which
step of the contract it is. Temporal steps are propositional.

Model-checked only: `EveryRequestEnds` (liveness under fairness), and the
violation.

## 4. Signing in (`SignIn`)

### How the model corresponds to the code

| Model | Code |
| --- | --- |
| `codes`, `phone`, `attempts`, `expired` | committed `otp_verifications`: inserted or not, `verified_at`, phone number, `attempt_count`, `expires_at` in the past; a row's number is its place in `created_at` order |
| `accounts` | a committed first sign-in: `users`, `user_roles`, `customer_profiles`, `customer_preferences` and the registration audit row |
| `devices` | committed `devices` |
| `logins` | a committed sign-in: `sessions`, the first `refresh_tokens` row and the login audit row |
| `pc[r]` | the statement a request awaits next, or its outcome |
| `kind[r]`, `who[r]`, `email[r]`, `guess[r]`, `on[r]` | the endpoint, the phone number or subject, the provider's e-mail its identity token names (or none), the submitted code, the device |
| `row[r]`, `seen[r]`, `account[r]`, `device[r]` | what the ORM has in memory: the OTP row and the `attempt_count` it was read with, the user and the device |
| `before[r]` | history only: codes used and identities known when the request arrived |

A request inserts at most one row into each table, so a row is named by the
request that inserted it. `request_otp` flushes its row and then awaits the SMS
provider, so between `BeginRequestOtp` and `CommitRequestOtp` (`"sending"`) the
user may already submit a code that no committed row has. `verify_otp` reads the
newest active row (`ReadCode`) and then either writes `attempt_count` and
commits at once (`CountMiss`, which ends `"wrong"` or, at the cap, `"locked"`) or sets `verified_at` (`UseCode`), which is
committed with the sign-in. `AuthService` goes on with `FindAccount`, then
`InsertAccount` and `EnterEmail` or `TouchAccount`, `FindDevice`, perhaps `TouchDevice`, and
`CommitSignIn`. The two OAuth endpoints join at `FindAccount`.

Locks are not stored: which rows a request has locked follows from its `pc`
(`HoldsCode`, `HoldsIdentity`, `HoldsEmail`, `HoldsDevice`). An insert into
`users` waits for an uncommitted insert with the same unique key and fails if it
was committed (`"conflict"`); the first statement after it that reads must not
see the row, which `AccountsOf` over committed rows says. A first sign-in with a
provider makes two such entries, one after the other: its subject
(`InsertAccount`) and, when its token names an e-mail, that e-mail under the
provider (`EnterEmail`, `uq_users_email_provider`). Another subject of the
provider with the same e-mail therefore waits as well, and is then refused, each
time it tries: the service looks accounts up by subject only and does not catch
the IntegrityError.

Abstracted: phone numbers are model values, so are e-mails with their provider
(`EmailsOf` says which ones the tokens of a subject may name), the customer role is the seeded one (an account registered before
`seed_roles` ran has none, although `identity/api.py:131` says that every
account has one), the rate limits in front of the endpoints only remove
behaviours, identity tokens are verified before a request arrives.
`scalar_one_or_none` in `find_or_create` would raise on two device rows;
`OneDeviceRow` says that there never are two.

### What the rest of the system may rely on (`SignInContract`)

From outside there are two steps. `Send` makes a code usable. `SignIn` takes the
account of its identity, or creates it if there is none, takes or creates the
device of that account, opens the session and uses the code up, all at once. It
has no statements, locks, conflicts or misses. `Contract` in `SignIn`
instantiates it with the committed rows of the same names, and
`KeepsContract == Contract!Spec` says that every commit is one such step and
everything else a stutter; the attempt counter is not seen. The contract lets a
used code sign in again, because two overlapping requests with one code do that.

### What is checked

| Run | Instance | Question |
| --- | --- | --- |
| `sign_in` | 1 phone, 2 subjects of one provider with the same e-mail, 2 devices, 2 codes, 4 requests, one for a code and 3 interchangeable ones of any kind, an attempt cap of 2 | `OneAccount`, `OneDeviceRow`, `LoginsMatch`, `CodesSpentBySignIn`, `UsedCodeRefused`, `SomeoneCanGo`, `KeepsContract` |
| `sign_in_replay` | 1 code, a request for it and 2 that sign in with it | the docstring's promise about a used code is violated |

Two overlapping first sign-ins make every race for account and device, a third
sign-in observes the rows they leave, and the fourth request asks for the code.
The cap is 2 instead of `OTP_MAX_ATTEMPTS` (5), so that four requests reach it. A
phone number and a subject are different identities whose sign-ins share nothing
but devices; a second phone number would only add codes that are never compared.
A second subject with the e-mail of the first makes the two meet at the index of
e-mails; a subject whose token names none is the first half of the same path.
Requests stop when all have been served (`CHECK_DEADLOCK FALSE`); that none is
stuck before is `SomeoneCanGo`.

### What the violation shows

`CodeUsedOnce`: two requests with the right code that both read it before either
commits both sign in; the second waits for the row and overwrites `verified_at`.

The attempt counter has the same shape and is modelled, without a run of its
own: two wrong codes whose requests overlap both read the same `attempt_count`
and write the same sum, so more codes are compared than the cap allows when they
are sent at once. One after the other, the cap holds.

### What is proved

`SignInProofs` proves, for any phones, subjects, devices, requests, number of
codes and attempt cap, from `BoundAssumption` (the bounds are numbers, the cap
is not 0), `NameAssumption` (phones and subjects differ, NULL is none of the
names) and `EmailsAssumption` (which e-mails the tokens of a subject may name):

| Theorem | Statement |
| --- | --- |
| `InvariantHolds` | `Spec => []IInv` |
| `TypeCorrect` | `Spec => []TypeOK` |
| `AccountsStayUnique` | `Spec => []OneAccount` |
| `DevicesStayUnique` | `Spec => []OneDeviceRow` |
| `LoginsStayMatched` | `Spec => []LoginsMatch` |
| `CodesAreSpentBySignIn` | `Spec => []CodesSpentBySignIn` |
| `UsedCodesStayRefused` | `Spec => []UsedCodeRefused` |
| `NobodyDeadlocks` | `Spec => []SomeoneCanGo` |
| `ImplementsContract` | `Spec => KeepsContract` |

The argument (`SignInInv`): what a request works on is either committed and the
right row, or its own new row of which nobody has committed a rival (`Works`).
That survives the commits of others because at most one request is past the lock
of an account (`OneHolder`), and two requests past the locks of different
accounts look for devices of different accounts. `DevicesStayUnique` is the
result that needs all of it: no constraint of the table protects it, only that
`last_login_at` is written, or the account inserted, before the device is
looked up. `Kind`, `CodeOf`, `CodesAreNew` and `HistoryKept` say what belongs to
which endpoint, that a code was sent and submitted, and that history is kept.
`NobodyDeadlocks` needs no induction: locks are taken in the order code, account,
e-mail, device, so each statement waits only for requests that are further on,
and the furthest one may go. `ImplementsContract` has one
lemma for each half of a commit: by `Works` the account and the device a sign-in
writes are found or its own (`CommitRegisters`, `CommitCreates`), by `CodeOf` the
code is one sent to its phone (`CommitUses`); no other statement shows.

Model-checked only: the violation.

## 5. The client's session (`ClientSession`)

### How the model corresponds to the code

| Model | Code |
| --- | --- |
| a task `q` | one asynchronous call chain of the client: a start of the app (`_resolveDestination`), a sign-in, a logout (`_onLogOut`), or a request of any screen with what the interceptor makes of it |
| `pc[q]`, `kind[q]` | what the task awaits, or how it ended; what it is |
| a pair named `q` | the `AuthToken` issued to task `q` |
| `sent[q]`, `presented[q]` | the access token its request carried, the refresh token it sent to `/auth/refresh` |
| `memory`, `storage` | `authSessionProvider`, the value under `auth_session_v1` |
| `pending` | writes and deletes handed to the secure storage and not carried out |
| `screen`, `mounted` | splash, a sign-in screen, or anything behind it; the tasks whose screen is still showing |
| `live`, `session`, `over` | the server's rows: tokens not revoked, the session of a pair, revoked sessions |
| `lapsed` | pairs whose access token has expired |
| `lost`, `crossed`, `failed`, `out` | history only, for the properties |

The client has one isolate, so what a task does between two awaits is one step;
`setSession` and `clear` change the memory and begin the write in one step
(`Keep`), and go on when the storage has carried it out (`Stored`). The storage
carries writes out in the order they were begun, which is the promise of the
platform channel. `Fails` is a lost answer, or one that is neither a success nor
a 401: before a refresh the caller gets it, from the refresh on the
`on DioException` and `catch (_)` clauses turn any failure into a `clear`, also
one of the retried request. `Kill` loses the memory and the writes under way,
and the server may still carry out the refreshes that were on their way.

The server's side is what `SessionTokens` shows of it, with the same race: a
refresh is decided when the token is looked up (`Accept`) and rotates it later
(`Rotate`), so two can both succeed.

Left out: the language screen of the first start; a sign-in answered 401 while a
session is in memory, which the interceptor would try to refresh first; a 200
without data, which the backend does not send; storage that throws; a refresh
that was on its way when the app was killed is carried out then or never.

### What is checked

| Run | Instance | Question |
| --- | --- | --- |
| `client` | a start of the app, a sign-in, and two more tasks, one of any kind and one of any but a sign-in; lost answers, kills, sessions ended elsewhere | `InSync`, `Fresh`, `SignedOutForCause`, `LoggedOutStays`, `EveryTaskEnds` |
| `client_parallel` | two requests after a sign-in, no faults | the comment's promise about an expired access token is violated |

A start and a sign-in must come first; two tasks after them make every race of
two requests, of a request and a logout, of two sign-ins, and a request and a
restart after a kill. A third would only overlap another pair of the same kinds.
Tasks end when they have run (`CHECK_DEADLOCK FALSE`); that none is stuck before
is `EveryTaskEnds`.

Fairness (`FairSpec`): a task that can go on does, because the event loop runs it
or the HTTP client's timeouts (15 seconds to connect and to receive) turn a
missing answer into a failure; the storage carries out what it was given. That
last part is an assumption about the plugin: a write that threw would leave
`onError` without a call of its handler (`auth_interceptor.dart:76`), which
`EveryTaskEnds` does not cover.
Nothing is assumed of the user, of expiry, or of kills.

### What the violation shows

`KeepsSession`: two requests of one screen find the access token expired. The
first is refreshed; the second presents the token the first has just spent, is
refused, and clears the session that the first one renewed. (On the server the
reused token would end the session too, were the cascade not rolled back.)
`SignedOutForCause` is what remains true: without an overlap, a failure, a lost
answer or an end on the server nobody is signed out.

A logout has a race of the same kind: a refresh in flight when the user logs out
is answered after the logout's `clear`, and `setSession` brings the session
back. `LoggedOutStays` says that this overlap is the only way.

### What is proved

`ClientSessionProofs` proves, for any tasks of any kinds and any faults, from
`NoneAssumption` (the absent pair is not a pair):

| Theorem | Statement |
| --- | --- |
| `InvariantHolds` | `Spec => []IInv` |
| `TypeCorrect` | `Spec => []TypeOK` |
| `MemoryAndStorageAgree` | `Spec => []InSync` |
| `KeptPairsAreFresh` | `Spec => []Fresh` |
| `SignedOutOnlyForCause` | `Spec => []SignedOutForCause` |
| `LogoutIsFinal` | `Spec => []LoggedOutStays` |

The argument (`ClientSessionInv`): every pending write belongs to one waiting
task (`WritesMatch`), and a pair is nowhere in the client before its task has
kept it (`PairsAreNew`), so no step can spend it earlier. `AllFresh` says
freshness of every place a pair is on its way to: a pair that was spent is
allowed in memory, in storage or at position `i` of the writes only if its
replacement has arrived and is not kept yet, or is written at a position after
`i`. `Stored` moves both by one place, which is where the order of the writes is
needed. `Synced` says that the last pending write is what memory holds. `Alone`
says that a task no other overlaps presents a pair that is good or lost, which
is what `SignedOutForCause` rests on.

`LogoutIsFinal` adds two parts that the others do not need: `LogoutsLeave` (only
a logout goes on to the last clear) and `LoggedOut` (after it, unless tasks
crossed, memory and storage are empty and no task under way could fill them).

Model-checked only: `EveryTaskEnds` (liveness under fairness) and the violation.

## 6. The customer's profile and addresses (`Customer`, `AcceptLanguage`)

### How the model corresponds to the code

| Model | Code |
| --- | --- |
| `profiles`, `preferences`, `addresses` | the committed rows of the three tables: keys, owner, language, `is_default`, `is_active` |
| `req[r].pc` | the SQL statement a request awaits next, or `"done"` |
| `req[r].seen` | the address as `get_active_by_id` read it |
| `req[r].todo` | rows the running bulk `UPDATE` has found and not reached |
| `req[r].made`, `req[r].new` | what the transaction has written and not committed: profile, addresses |
| `WaitsFor(r)` | whose row lock, or uncommitted index entry, the next statement waits for |
| `ensure_owner_or_not_found` | the function of that name, with the `is_active` of the query before it |
| `resolve_default_language` | `_resolve_default_language`: entries weighted, sorted stably, the first supported one |

Every request begins with `get_by_user_id` and, if nothing was found,
`provision_default_profile`: the insert waits for an uncommitted profile of the
same account and fails on `uq_customer_profiles_user_id` if that is committed.
`POST` and `PATCH .../addresses` with `is_default = true` run
`unset_other_defaults`, whose rows are locked one after the other (`UnsetRow`,
with the `WHERE` clause tested again), then insert or update their own row, then
enter the partial unique index `uq_saved_addresses_customer_default`
(`EnterIndex`), where they wait for uncommitted entries and fail on committed
ones. An `UPDATE` writes only the attributes that differ from what was read
(`Writes`, `Written`), which is what the ORM does and is where a stale read
shows. `DeadlockVictim` ends a request on a cycle of waits, `Crash` one at any
point.

Left out: the values of the other columns (`rest` says whether some of them
change or are set to a forbidden null); the refresh of server defaults after a
flush, which reads the request's own row; the backfill of preferences that are
missing beside a profile, since every state the program reaches has both or
neither; the weight `nan` of an `Accept-Language` entry, which Python's `float`
takes and which has no place in an order. Rows of a bulk `UPDATE` are taken in
any order, which admits at least what the planner chooses.

### What is checked

| Run | Instance | Question |
| --- | --- | --- |
| `customer` | 2 accounts with or without a profile, 2 requests with any of 12 inputs, 2 addresses in any initial state | `OneDefault`, `OneProfile`, `LanguageAsAsked`, `OwnAddresses`, `DeletedStays`, `EveryRequestEnds` |
| `customer_default` | the same | the definition of done of CUS-002 about the default is violated |

The hazards are races of two transactions: two first calls, two defaults, a
default against a deletion, an update against one; each is an overlapping pair
of the 12 inputs, and what they leave is observed in the rows. Two addresses
are what a lock cycle needs (each request writes one and unsets the other), and
the initial states are all those with at most one default per customer. The
theorems cover more requests.

Fairness: a worker goes on with its request (`WF` of its steps; a request that
waits is not enabled) and PostgreSQL looks for deadlocks. `EveryRequestEnds`
fails without the second.

### What the violation shows

`SettingLeavesOneDefault`: a request reads an address that is the default;
before it writes, another one moves the default elsewhere and commits. The
first unsets that one (`unset_other_defaults`) and then sets
`is_default = True` on the object it read as `True`, which the ORM does not
write, so the customer is left without a default although the request succeeded
and the address is there. `Prompt_S03_CUS-002.md:64` says that setting a default
"always and only leaves exactly one default per customer".

Also visible in the model and against no document: of two requests that insert
the first default at the same time one fails on the index with a 500, and so
does one of two first calls of an account. The comment at
`customer/models.py:124` calls the index a backstop of the transactional
unset-then-set; under concurrency it is the only guarantee, as the mutant of
`OneDefault`, which removes it, shows.

### What is proved

`CustomerProofs` proves, for any accounts, requests, addresses and inputs, from
`CustomerAssumption` (inputs are well-formed, names differ) and
`NoRowAssumption`:

| Theorem | Statement |
| --- | --- |
| `InvariantHolds` | `Spec => []IInv` |
| `TypeCorrect` | `Spec => []TypeOK` |
| `AtMostOneDefault` | `Spec => []OneDefault` |
| `ProfileOnce` | `Spec => []OneProfile` |
| `AddressesAreTheirOwners` | `Spec => OwnAddresses` |
| `DeletedForGood` | `Spec => DeletedStays` |
| `NewCustomerLanguage` | `Spec => LanguageAsAsked` |

`OneDefault` alone is not inductive: a commit publishes what was decided
earlier. `CustomerInv` says what a transaction may count on until then:
`Local` (what follows from its own progress), `Grounded` (what it knows of
committed rows, such as that the row it writes still has its owner, and is
active if it writes it active), `Alone` (an entry it got in the index has no
other beside it but in rows it has written itself), `Apart` (two transactions
never write the same row, make the same profile, or hold entries of one
customer), `NewUsers` and `PreferencesOfProfiles`. `Alone` and `Apart` are where
the locks and the index come in.

`AcceptLanguageProofs` proves `ResolvesAsAsked`: for every finite header, the
language `resolve_default_language` returns is the best supported one in the
sense of `Best`, which mentions no sorting. The rank of an entry is the number
of entries before it, so the argument is that ranks are a bijection; it needs
that counting and nothing else, and `NewCustomerLanguage` cites it.

Model-checked only: `EveryRequestEnds` and the violation.

## 7. Provider keys (`KeyCache`)

### How the model corresponds to the code

| Model | Code |
| --- | --- |
| `cache.keys` | `_keys_by_kid`; `cache.epoch` is history: which publication it came from |
| `holder` | `_refresh_lock` |
| `calls[v]` | one `verify_identity`: token, whether it waits for the lock or fetches, the answer in flight, the outcome |
| `epoch`, `KeySets` | the provider's key set, which it changes (`Rotate`) |
| `verify` | `JwksIdTokenVerifier.verify` up to the lock, or to its end when the key is cached |
| `Acquire`, `Serve`, `Receive` | `_refresh_keys`: the lock and the request; the moment the provider answers it; the answer's arrival with all that follows up to the next await |
| `Verdict` | signature, issuer, expiry, audience (`_audience_is_accepted`), subject |

Who waited for the lock fetches again although the one before has just replaced
the cache: that is what the code does. An answer is the key set of the moment,
an error status or a timeout, JSON without keys (which empties the cache), or
keys that cannot be stored. A signature is taken as made by a key or not.

### What is checked

| Run | Instance | Question |
| --- | --- | --- |
| `key_cache` | 2 verifications, key sets `k1`, then `k1` and `k2`, then `k2`; 6 tokens (good ones, another audience, another key under the id, an unknown id, none) | `AcceptedIsGenuine`, `CacheNeverGoesBack`, `GenuineIsAccepted`, `EveryVerificationEnds` |

Two verifications make every race of a fetch with a fetch and of a fetch with a
cached answer; three key sets let a key appear and disappear while one of them
waits. Fairness: the lock is handed to those who wait, and a fetch ends because
the HTTP client gives it a timeout. `EveryVerificationEnds` is about the lock,
which every way out of a fetch must release.

### What is proved

`KeyCacheProofs` proves, for any verifications, tokens and history of key sets,
from `KeyCacheAssumption` and `NoneAssumption`: `InvariantHolds`, `TypeCorrect`,
`OneFetchAtATime` (one fetch in flight, one for a verification: the "at most one
refetch" of `Checkpoint_S02_AUTH-002.md`), `AcceptedTokensAreGenuine`
(`AcceptedIsGenuine`), `CacheMovesForward` (`CacheNeverGoesBack`) and
`GenuineTokensAreAccepted` (`GenuineIsAccepted`).
The invariant is that an answer in flight is no older than the cache it will
replace, nor than the verification that asked for it. The first part rests on
the lock: without it a slow answer would put an older key set over a newer one,
which is the mutant of `CacheNeverGoesBack`. The second gives
`GenuineIsAccepted`.

A key that the provider has withdrawn stays good for the tokens it signed as
long as the worker has no reason to fetch again; `AcceptedIsGenuine` asks for a
key published at some time, which is all the cache promises.

Model-checked only: `EveryVerificationEnds`.

## 8. The HTTP surface (`Endpoints`, `HttpApi`)

### How the model corresponds to the code

| Model | Code |
| --- | --- |
| `Route` records, `v1_router` | the 17 decorated endpoints: guard, limiter, parameters, documented statuses; `raises` is what the service behind it can raise |
| `Error(status, challenge)` | the exception classes with their status, and whether `WWW-Authenticate` goes along |
| `get_current_user`, `RequireRole` | the dependencies of that name and `decode_token` |
| `counters[k]` | the Redis key of a path and a client or phone number: count, expiry; `life` is history: which lifetime of the key |
| `calls[r]` | a request: where it is, its input, what `INCR` returned to it and when, whether the limiter let it pass, its answer |
| `now`, `Tick` | Redis's clock and the expiry of keys |
| `Answered`, `Raised` | the exception handlers of `core/exceptions/handlers.py` |
| `Receive`, `Incr`, `Expire`, `RedisFails`, `Handle` | body parsing, 400 for one that cannot be decoded, and `_resolve_identity`; the two calls of the limiter, each done, done with its answer lost, or not made; dependencies, payload and service result |
| `Start`, `Shutdown`, `Dispose`, `Close`, `Crash`, `Restart` | `lifespan`: checks, the `finally` with its two cleanups, and what ends a process |

Redis outlives the worker. What a service does is not seen here: a call answers
any status or raises any error its route lists, and whatever uses the database
may also fail unexpectedly.

### What is checked

| Run | Instance | Question |
| --- | --- | --- |
| `http_api` | one request for any route with any body and token; or three requests on one counter of limit 1, window 3, clock up to 4 | `CounterLeftOnlyByFailure`, `AdmittedWithinLimit`, `RefusedOnlyOverLimit`, `AtMostTwiceTheLimit`, `DocumentedStatus`, `ForbiddenIsNotUnauthenticated`, `ShutdownIsComplete` |

Both loads are initial states of one run (`Loads`). The limit of the program is
larger than 1 and its window 60 seconds; three requests on a limit of 1 are what
an overrun of a counter and a third admission around a boundary take, and the
clock reaches past one expiry. The theorems hold for any limit, window and
number of requests. There is no liveness property here: a request may wait for
a database this module does not model.

`CounterLeftOnlyByFailure` is the weaker truth behind the comment at
`rate_limit.py:28`: if the call after the first `INCR` fails or the worker dies
before it, the counter never expires and its key stays refused.
`AtMostTwiceTheLimit` is the exact bound of a fixed window around its boundary.
`DocumentedStatus` allows 500 on every route, and 400 in answer to a JSON body
FastAPI cannot decode (not UTF-8, or nested too deep): that answer goes out
through `http_exception_handler` before any code of the route runs, and only
`verify-otp` documents a 400. A 500 from the outermost handler
also lacks the `X-Correlation-ID` that `Walkthrough_S01_BF-014.md:43` describes;
headers other than the challenge are not modelled.

### What is proved

`HttpApiProofs` proves, from `HttpAssumption` (finitely many requests, inputs of
the right kind, a window that is not 0), `InvariantHolds`, `TypeCorrect`, and

| Theorem | Statement |
| --- | --- |
| `AdmissionBounded` | `Spec => []AdmittedWithinLimit` |
| `RefusalJustified` | `Spec => []RefusedOnlyOverLimit` |
| `BurstBounded` | `Spec => []AtMostTwiceTheLimit` |
| `ExpiryLostOnlyByFailure` | `Spec => []CounterLeftOnlyByFailure` |
| `AnswersDocumented` | `Spec => []DocumentedStatus` |
| `RefusalsDistinct` | `Spec => []ForbiddenIsNotUnauthenticated` |
| `ShutdownCompletes` | `Spec => []ShutdownIsComplete` |
| `WindowFixed` | `Spec => WindowIsFixed`: late requests do not prolong the window |

The argument (`HttpApiInv`): the numbers one lifetime of a counter gives out are
distinct and without gaps (`CountsDiffer`, `CountsFill`), so those admitted map
one to one into `1..Limit`, and a refused one has `Limit` others below it. A
lifetime with an expiry lasts a window from its first number
(`LifetimesLast`, `LifetimesApart`), so a span of one window meets at most two
lifetimes of a key; that gives twice the limit.

## 9. Migrations (`Metadata`, `Migrations`)

### How the model corresponds to the code

| Model | Code |
| --- | --- |
| `Metadata` | the ORM models with `CommonColumnsMixin`: columns (required or not), references, unique constraints, enum types, indexes with their conditions |
| `Tables`, `IndexesOf`, `Enums` | the same as the revisions create them, translated from the revisions and not from the models |
| `…Up`, `…Down`, `Upgrades`, `Downgrades` | `upgrade` and `downgrade` of the seven revisions as sequences of statements |
| `objects`, `heads`, `accounts` | the committed catalog, the rows of `alembic_version` (`version` is the highest), the rows of `identity.users` by the columns its indexes read; an account may have no email |
| `run[m]` | a command: where it started and where it goes, the revision it has reached (`rev`), how many statements of the next script it has executed (`at`), what it has created, dropped and locked |
| `Possible`, `Creates`, `Drops`, `Touches` | what PostgreSQL demands of a statement, what goes with a dropped object, what is locked until the end |
| `Register` | a first sign-in, while the tables are there and no command holds them |

`env.py` opens one transaction for the whole command, and `transaction_per_migration`
is not set, so `Commit` publishes all the revisions of a command. `Fail` is a
statement PostgreSQL refuses; `Crash` may come at any point; both leave nothing.
A script ends with `Stamp`: Alembic inserts the first row of `alembic_version`,
updates the row of the revision the script left from, or deletes the last one.
`Seen(m)` are the rows the command's transaction sees, `Stamped` those it has
changed and keeps locked. An update or a delete must find its row (`RowFound`)
and waits for whoever has changed it, an insert or an update must not meet a row
with the same key; an insert from base asks for no other row. So a command from
base to the empty first revision that waits for one that goes on to a later
revision inserts its row after the other has committed, and the table has two
rows. The catalog is right all the same, but from then on Alembic refuses to
upgrade ("overlaps with other requested revisions") until somebody deletes a row.
`Start` has that as its guard and makes no exception for downgrades: what a
downgrade from two rows does is left out, a bound of the model. The table itself
is taken as there from the beginning.
Left out also: column types, lengths and server defaults, and the offline mode, which
only prints.

### What is checked

| Run | Instance | Question |
| --- | --- | --- |
| `migrations` | 2 commands to any of the revisions 0, 1, 2, 7 in any direction, 3 accounts: one email under two providers, and one of a phone number | `CatalogMatchesVersion`, `HeadMatchesModels`, `OnlyDuplicatesStopACommand`, `CommandIsAtomic`, `EveryCommandEnds` |

The goals pass every revision in both directions, stop on both sides of the
empty first revision and of the first one that makes tables, where stamps can
overlap, and allow a command within another's range. Two accounts violate a
restored unique index; the third has neither email nor subject, which no unique
index compares. With two rows in the version table nothing is started any more
(see `Start`), and once the registrations are done nothing else happens either,
so the configuration says `CHECK_DEADLOCK FALSE`; that no command is stuck on its way is
`EveryCommandEnds`.

Fairness: strong fairness of a command's next statement, because PostgreSQL
queues the waiters of a lock and a command cannot be overtaken for ever, and
weak fairness of the deadlock detector. The detector is needed: one command that
has created the schema `audit` and goes on to a table that refers to `users`,
and one that has changed `users` and goes on to that schema, wait for each
other. A cycle of waits needs two commands: one that worked over a second
connection would wait for itself, which no detector sees, and that is the mutant
of `EveryCommandEnds`.

### What is proved (`MigrationsProofs`)

| Theorem | States |
| --- | --- |
| `InvariantHolds`, `TypeCorrect` | `Inv` of `MigrationsInv`; `TypeOK` |
| `CatalogStaysTrue` | `CatalogMatchesVersion`: the committed catalog is the one of its version |
| `CommandsAreAtomic` | `CommandIsAtomic` |
| `HeadIsTheModels` | `HeadMatchesModels`: thirteen tables of the revisions against those of the models |
| `OnlyDuplicatesStop` | `OnlyDuplicatesStopACommand` |

They hold for any set of commands, accounts and goals. The one assumption,
`AccountsAssumption`, says that an account names its provider, a column that is
not null; subject, email and phone number may be missing.

`CatalogMatchesVersion` says nothing of a command under way. What a command has
done depends on its script, so `Inv` says where it is (`Underway`) and that the
catalog it sees, started from that of its first revision, is the catalog of the
revision it has reached, less what the statements behind it drop, plus what they
create (`OnTrack`). `Built(v)` states the catalog of a version in closed form,
by the revision each table came with, and not as the outcome of the scripts. One
lemma for each script (`…Leads`) shows that the whole of it takes `Built` of one
side to `Built` of the other and drops nothing it has created: every upgrade but
that of the email index only creates, every downgrade but that one only drops.
That is where a downgrade that forgets an index would be caught.

The view of a command is of use only while the version is still the one it
started from. A command that has stamped a revision holds the rows at both ends
of its way (`Stamped`, `LocksExclude`), so nobody else can stamp the same
history, and the version is still the one it found (`KnowsVersion`). The
exception is the first revision: an insert from base finds no row to wait for,
and a delete of the row of revision 1 does not look at the others. A command
that has stamped between base and revision 1 while the database is further is
`Astray`. It has changed nothing, since the first revision is empty, and gets no
further than the table `users`, which is there already (`UsersOnce`: nobody
creates it twice). What it leaves is a row of revision 1 beside that of the
version, and never another one (`OneStray`). `CommandIsAtomic` is therefore about
rows: a commit replaces the row of the revision the command found by that of the
one it was given, and when the version moves, it moves that way.

That no other statement fails (`OnlyDuplicatesStop`) needs one lemma more for
each script (`…Fits`): at every position the schema, the enum types and the
referenced tables are there, the name is free, what is dropped has no referrer
left. Two unique indexes of `users` are built when it may have rows, both over the email:
`uq_users_email_provider`, for which the index it replaces has kept the emails
apart (`RowsSatisfyIndexes`), and `uq_users_email`, which duplicates refuse.

`HeadMatchesModels` compares constants once the catalog is known to be that of
the last revision; it is proved table by table (`ColumnsAgree`, `IndexesAgree`).
`EveryCommandEnds` is liveness and model-checked only.

## 10. What is not modelled

* The mobile form controllers (code entry with its countdown, phone entry,
  profile, addresses): state of one screen each, loaded anew when it opens.
* `core/security.py` beyond the errors of `decode_token`: signatures and hashes
  are library calls; a token is its database row, a signature is made by a key
  or not.
* Role seeding: one idempotent pass, run by hand; its result is taken as given.
* Field patterns of the schemas, wording of errors, log lines, the correlation
  id, configuration.
* Screens and widgets, generated platform code, the agent skill scripts.
* Within the modelled components: the pool of database connections, storage
  that throws on the client, values of columns no decision reads.

See `components` in `PROJECT.json` for each with its reason. Liveness is
model-checked and not proved, and so are the violations.
