-------------------------------- MODULE SignIn --------------------------------
(***************************************************************************)
(* Signing in: OtpService, AuthService and the repositories they use, with *)
(* the endpoints request-otp, verify-otp, google and apple.                *)
(*                                                                         *)
(* As in SessionTokens, a request is one PostgreSQL transaction at READ    *)
(* COMMITTED and a step is one awaited statement.  Each request inserts at *)
(* most one row into each table, so a row is named by the request that     *)
(* inserted it.  One account row stands for what a first sign-in inserts   *)
(* together: users, user_roles (the seeded customer role),                 *)
(* customer_profiles, customer_preferences and the registration audit row. *)
(* One login row stands for sessions, the first refresh_tokens row and the *)
(* login audit row; what becomes of those is SessionTokens.                *)
(***************************************************************************)
EXTENDS Naturals, FiniteSets

CONSTANTS
  Phones,       \* phone numbers with their country code
  Subjects,     \* (auth_provider, external_auth_subject) pairs
  Emails,       \* (auth_provider, email) pairs
  EmailsOf,     \* what the tokens of each subject may name, None for no e-mail
  Devices,      \* (platform, device_name) pairs
  Requests,     \* HTTP requests, each served once
  Calls,        \* the endpoints each request may call: the bound of a check
  MaxCodes,     \* OTP rows ever inserted: another bound
  MaxAttempts,  \* OTP_MAX_ATTEMPTS
  None          \* SQL NULL, no row

ASSUME BoundAssumption == MaxCodes \in Nat /\ MaxAttempts \in Nat \ {0}

ASSUME NameAssumption == Phones \cap Subjects = {} /\ None \notin Phones \cup Emails \cup Requests \cup Nat

ASSUME EmailsAssumption == EmailsOf \in [Subjects -> SUBSET (Emails \cup {None})]

VARIABLES
  codes,       \* committed otp_verifications: not inserted, active or verified
  phone,       \* their phone number
  attempts,    \* their attempt_count
  expired,     \* those whose expires_at has passed
  created,     \* OTP rows inserted so far; a later row has a later created_at
  accounts,    \* committed users
  devices,     \* committed devices
  logins,      \* committed logins
  pc,          \* next statement of a request, or how it ended
  kind,        \* the endpoint the request called
  who,         \* the phone number or subject it is about
  email,       \* the e-mail its identity token names, None without one
  guess,       \* the code submitted: the row it is the code of, 0 for none
  row,         \* the OTP row it works on
  seen,        \* the attempt_count it read
  account,     \* the users row it works on
  device,      \* the devices row it works on
  on,          \* the device it was sent from
  before       \* history only: used codes and known identities on arrival

dbVars  == <<codes, phone, attempts, accounts, devices, logins>>
argVars == <<kind, who, email, guess, on, before>>
rowVars == <<row, seen, account, device>>
vars    == <<codes, phone, attempts, expired, created, accounts, devices, logins,
             pc, kind, who, email, guess, row, seen, account, device, on, before>>

-----------------------------------------------------------------------------
(* Types *)

Codes      == 1 .. MaxCodes
Identities == Phones \cup Subjects

Account == [id : Requests, identity : Identities, email : Emails \cup {None}]
Device  == [id : Requests, account : Requests, on : Devices]
Login   == [id : Requests, account : Requests, device : Requests, code : Codes \cup {None}]

Running  == {"sending", "read", "miss", "use", "find", "insert", "email", "touch", "device", "seen", "finish"}
Outcomes == {"ok", "refused", "locked", "wrong", "conflict", "aborted"}

TypeOK ==
  /\ codes \in [Codes -> {"absent", "active", "verified"}]
  /\ phone \in [Codes -> Phones \cup {None}]
  /\ attempts \in [Codes -> 0 .. MaxAttempts]
  /\ expired \subseteq Codes
  /\ created \in 0 .. MaxCodes
  /\ accounts \subseteq Account
  /\ devices \subseteq Device
  /\ logins \subseteq Login
  /\ pc \in [Requests -> {"idle"} \cup Running \cup Outcomes]
  /\ kind \in [Requests -> {"none", "requestOtp", "otp", "oauth"}]
  /\ who \in [Requests -> Identities \cup {None}]
  /\ email \in [Requests -> Emails \cup {None}]
  /\ guess \in [Requests -> 0 .. MaxCodes]
  /\ row \in [Requests -> Codes \cup {None}]
  /\ seen \in [Requests -> 0 .. MaxAttempts]
  /\ account \in [Requests -> Requests \cup {None}]
  /\ device \in [Requests -> Requests \cup {None}]
  /\ on \in [Requests -> Devices \cup {None}]
  /\ before \in [Requests -> [used : SUBSET Codes, known : SUBSET Identities]]

-----------------------------------------------------------------------------
(* Row locks: each statement that updates or inserts a row keeps it locked *)
(* until its request ends.                                                 *)

Signing(r) == pc[r] \in {"find", "insert", "email", "touch", "device", "seen", "finish"}

\* (slip: the database session of a failed request is never closed)
HoldsIdentityLeaked(r, i) == pc[r] \in {"email", "device", "seen", "finish", "conflict"} /\ who[r] = i

HoldsCode(r, n)     == Signing(r) /\ kind[r] = "otp" /\ row[r] = n
HoldsIdentity(r, i) == pc[r] \in {"email", "device", "seen", "finish"} /\ who[r] = i
HoldsEmail(r, e)    == pc[r] \in {"device", "seen", "finish"} /\ account[r] = r /\ email[r] = e
HoldsDevice(r, d)   == pc[r] = "finish" /\ device[r] = d

\* The statement request r is at waits for a row that request q has locked.
\* An insert into users makes its entries in the unique indexes one after the
\* other, and waits at each for whoever has the same entry uncommitted.
WaitsFor(r, q) == q # r /\
  \/ pc[r] \in {"miss", "use"} /\ HoldsCode(q, row[r])
  \/ pc[r] \in {"insert", "touch"} /\ HoldsIdentity(q, who[r])
  \/ pc[r] = "email" /\ HoldsEmail(q, email[r])
  \/ pc[r] = "seen" /\ HoldsDevice(q, device[r])

MayGo(r) == \A q \in Requests : ~WaitsFor(r, q)

-----------------------------------------------------------------------------
(* Helpers *)

Used  == {n \in Codes : codes[n] = "verified"}
Known == {a.identity : a \in accounts}

\* (slip: the query does not ask for verified_at IS NULL)
ActiveOrUsed(p) == {n \in Codes : codes[n] # "absent" /\ phone[n] = p /\ n \notin expired}

\* get_active_for_phone: unverified and unexpired rows, the newest of which
\* is the one that counts.
Active(p) == {n \in Codes : codes[n] = "active" /\ phone[n] = p /\ n \notin expired}
Newest(p) == {n \in Active(p) : \A m \in Active(p) : m <= n}

\* get_by_phone, get_by_provider_and_subject.
AccountsOf(i) == {a \in accounts : a.identity = i}

\* The entries uq_users_email_provider has for an e-mail.
OwnersOf(e) == {a \in accounts : a.email = e}

\* (slip: the lookup forgets user_id)
DevicesOfAnyone(a, d) == {x \in devices : x.on = d}

\* The lookup of find_or_create.
DevicesOf(a, d) == {x \in devices : x.account = a /\ x.on = d}

Advance(r, next) ==
  /\ pc' = [pc EXCEPT ![r] = next]
  /\ UNCHANGED <<dbVars, expired, created, argVars>>

\* Leaving without a commit: the transaction is rolled back.
Finish(r, outcome) ==
  /\ pc' = [pc EXCEPT ![r] = outcome]
  /\ UNCHANGED <<dbVars, expired, created, argVars, rowVars>>

Arrive(r, k, i, g, d, first) ==
  /\ pc[r] = "idle"
  /\ k \in Calls[r]
  /\ pc' = [pc EXCEPT ![r] = first]
  /\ kind' = [kind EXCEPT ![r] = k]
  /\ who' = [who EXCEPT ![r] = i]
  /\ guess' = [guess EXCEPT ![r] = g]
  /\ on' = [on EXCEPT ![r] = d]
  /\ before' = [before EXCEPT ![r] = [used |-> Used, known |-> Known]]
  /\ UNCHANGED <<dbVars, expired, seen, account, device>>

-----------------------------------------------------------------------------
(* Arrival *)

\* request_otp inserts the row, and then awaits the SMS provider: from here
\* on the user may know the code, which the database does not know yet.
BeginRequestOtp(r) == \E p \in Phones :
  /\ created < MaxCodes
  /\ created' = created + 1
  /\ row' = [row EXCEPT ![r] = created']
  /\ UNCHANGED email
  /\ Arrive(r, "requestOtp", p, 0, None, "sending")

\* verify_otp is sent a code that some row had, or one that none has.
BeginVerifyOtp(r) == \E p \in Phones, g \in 0 .. created, d \in Devices :
  /\ Arrive(r, "otp", p, g, d, "read")
  /\ UNCHANGED <<created, row, email>>

\* The identity token has been verified; it need not name an e-mail.
BeginOAuth(r) == \E i \in Subjects, d \in Devices :
  /\ Arrive(r, "oauth", i, 0, d, "find")
  /\ \E e \in EmailsOf[i] : email' = [email EXCEPT ![r] = e]
  /\ UNCHANGED <<created, row>>

Begin(r) == BeginRequestOtp(r) \/ BeginVerifyOtp(r) \/ BeginOAuth(r)

-----------------------------------------------------------------------------
(* OtpService.verify_otp *)

\* The active row, its attempt_count, and the comparison with its hash.
ReadCode(r) ==
  /\ pc[r] = "read"
  /\ \/ /\ Active(who[r]) = {}
        /\ Finish(r, "refused")
     \/ \E n \in Newest(who[r]) :
        /\ attempts[n] >= MaxAttempts
        /\ Finish(r, "locked")
     \/ \E n \in Newest(who[r]) :
        /\ attempts[n] < MaxAttempts
        /\ row' = [row EXCEPT ![r] = n]
        /\ seen' = [seen EXCEPT ![r] = attempts[n]]
        /\ Advance(r, IF guess[r] = n THEN "use" ELSE "miss")
        /\ UNCHANGED <<account, device>>

\* A wrong code: the count read before, plus one, is written and committed
\* at once, and the request is refused, as locked when that was the last try.
CountMiss(r) ==
  /\ pc[r] = "miss"
  /\ MayGo(r)
  /\ attempts' = [attempts EXCEPT ![row[r]] = seen[r] + 1]
  /\ pc' = [pc EXCEPT ![r] = IF attempts'[row[r]] >= MaxAttempts THEN "locked" ELSE "wrong"]
  /\ UNCHANGED <<codes, phone, expired, created, accounts, devices, logins, argVars, rowVars>>

\* (slip: the service commits the use of the code, as it commits a miss)
UseCodeAtOnce(r) ==
  /\ pc[r] = "use"
  /\ MayGo(r)
  /\ codes' = [codes EXCEPT ![row[r]] = "verified"]
  /\ pc' = [pc EXCEPT ![r] = "find"]
  /\ UNCHANGED <<phone, attempts, expired, created, accounts, devices, logins, argVars, rowVars>>

\* The right code: verified_at is set, to be committed with the sign-in.
UseCode(r) ==
  /\ pc[r] = "use"
  /\ MayGo(r)
  /\ Advance(r, "find")
  /\ UNCHANGED rowVars

-----------------------------------------------------------------------------
(* AuthService *)

FindAccount(r) ==
  /\ pc[r] = "find"
  /\ \/ /\ AccountsOf(who[r]) = {}
        /\ Advance(r, "insert")
        /\ UNCHANGED rowVars
     \/ \E a \in AccountsOf(who[r]) :
        /\ account' = [account EXCEPT ![r] = a.id]
        /\ Advance(r, "touch")
        /\ UNCHANGED <<row, seen, device>>

\* (slip: users without its unique indexes)
InsertAccountUnchecked(r) ==
  /\ pc[r] = "insert"
  /\ account' = [account EXCEPT ![r] = r]
  /\ Advance(r, "device")
  /\ UNCHANGED <<row, seen, device>>

\* The unique index on the phone number or the subject makes the insert wait
\* for another one in progress, and fail if that one was committed.  The entry
\* for the e-mail, of an index created later, comes after it.
InsertAccount(r) ==
  /\ pc[r] = "insert"
  /\ MayGo(r)
  /\ \/ /\ AccountsOf(who[r]) = {}
        /\ account' = [account EXCEPT ![r] = r]
        /\ Advance(r, IF email[r] = None THEN "device" ELSE "email")
        /\ UNCHANGED <<row, seen, device>>
     \/ /\ AccountsOf(who[r]) # {}
        /\ Finish(r, "conflict")

\* uq_users_email_provider: another subject's account with this e-mail, of the
\* same provider, makes the insert wait or fail just as well.
EnterEmail(r) ==
  /\ pc[r] = "email"
  /\ MayGo(r)
  /\ \/ /\ OwnersOf(email[r]) = {}
        /\ Advance(r, "device")
        /\ UNCHANGED rowVars
     \/ /\ OwnersOf(email[r]) # {}
        /\ Finish(r, "conflict")

\* (slip: last_login_at is not written, so nothing is locked)
TouchAccountUnlocked(r) ==
  /\ pc[r] = "touch"
  /\ Advance(r, "device")
  /\ UNCHANGED rowVars

\* last_login_at of a known account.
TouchAccount(r) ==
  /\ pc[r] = "touch"
  /\ MayGo(r)
  /\ Advance(r, "device")
  /\ UNCHANGED rowVars

\* DeviceRepository.find_or_create.  No constraint makes the row unique, and
\* scalar_one_or_none would fail on two: OneDeviceRow says there never are.
FindDevice(r) ==
  /\ pc[r] = "device"
  /\ \/ /\ DevicesOf(account[r], on[r]) = {}
        /\ device' = [device EXCEPT ![r] = r]
        /\ Advance(r, "finish")
     \/ \E d \in DevicesOf(account[r], on[r]) :
        /\ device' = [device EXCEPT ![r] = d.id]
        /\ Advance(r, "seen")
  /\ UNCHANGED <<row, seen, account>>

\* last_seen_at of a known device.
TouchDevice(r) ==
  /\ pc[r] = "seen"
  /\ MayGo(r)
  /\ Advance(r, "finish")
  /\ UNCHANGED rowVars

-----------------------------------------------------------------------------
(* Commit *)

CommitRequestOtp(r) ==
  /\ pc[r] = "sending"
  /\ codes' = [codes EXCEPT ![row[r]] = "active"]
  /\ phone' = [phone EXCEPT ![row[r]] = who[r]]
  /\ pc' = [pc EXCEPT ![r] = "ok"]
  /\ UNCHANGED <<attempts, expired, created, accounts, devices, logins, argVars, rowVars>>

\* (slip: the use of the code is not part of the sign-in's transaction)
CodesAfterForgetful(r) == codes

\* The OTP rows once the sign-in is committed.
CodesAfter(r) == IF kind[r] = "otp" THEN [codes EXCEPT ![row[r]] = "verified"] ELSE codes

\* start_session and the audit rows only insert: all that is left is to commit.
CommitSignIn(r) ==
  /\ pc[r] = "finish"
  /\ codes' = CodesAfter(r)
  /\ accounts' = accounts \cup
       (IF account[r] = r THEN {[id |-> r, identity |-> who[r], email |-> email[r]]} ELSE {})
  /\ devices' = devices \cup
       (IF device[r] = r THEN {[id |-> r, account |-> account[r], on |-> on[r]]} ELSE {})
  /\ logins' = logins \cup {[id |-> r, account |-> account[r], device |-> device[r], code |-> row[r]]}
  /\ pc' = [pc EXCEPT ![r] = "ok"]
  /\ UNCHANGED <<phone, attempts, expired, created, argVars, rowVars>>

\* The SMS provider or a statement fails, the connection or the worker dies.
Abort(r) == pc[r] \in Running /\ Finish(r, "aborted")

Expire(n) ==
  /\ n \in 1 .. created \ expired
  /\ expired' = expired \cup {n}
  /\ UNCHANGED <<dbVars, created, pc, argVars, rowVars>>

-----------------------------------------------------------------------------
(* Specification *)

Init ==
  /\ codes = [n \in Codes |-> "absent"]
  /\ phone = [n \in Codes |-> None]
  /\ attempts = [n \in Codes |-> 0]
  /\ expired = {}
  /\ created = 0
  /\ accounts = {}
  /\ devices = {}
  /\ logins = {}
  /\ pc = [r \in Requests |-> "idle"]
  /\ kind = [r \in Requests |-> "none"]
  /\ who = [r \in Requests |-> None]
  /\ email = [r \in Requests |-> None]
  /\ guess = [r \in Requests |-> 0]
  /\ row = [r \in Requests |-> None]
  /\ seen = [r \in Requests |-> 0]
  /\ account = [r \in Requests |-> None]
  /\ device = [r \in Requests |-> None]
  /\ on = [r \in Requests |-> None]
  /\ before = [r \in Requests |-> [used |-> {}, known |-> {}]]

Step(r) ==
  \/ ReadCode(r) \/ CountMiss(r) \/ UseCode(r)
  \/ FindAccount(r) \/ InsertAccount(r) \/ EnterEmail(r) \/ TouchAccount(r)
  \/ FindDevice(r) \/ TouchDevice(r)
  \/ CommitRequestOtp(r) \/ CommitSignIn(r)

Next ==
  \/ \E r \in Requests : Begin(r) \/ Step(r) \/ Abort(r)
  \/ \E n \in Codes : Expire(n)

Spec == Init /\ [][Next]_vars

-----------------------------------------------------------------------------
(* Properties *)

\* One account per phone number, per provider subject and per e-mail of a
\* provider, however many first sign-ins overlap, and one row per device of an
\* account, which nothing but the order of the statements ensures (the unique
\* indexes of users; DeviceRepository.find_or_create).
OneAccount == \A a, b \in accounts :
  a.identity = b.identity \/ (a.email = b.email /\ a.email # None) => a = b
OneDeviceRow == \A c, d \in devices : c.account = d.account /\ c.on = d.on => c = d

\* A sign-in ends in the account of the identity it was about, from a device
\* of that account, and one with a code used a code of that phone number.
LoginsMatch == \A l \in logins :
  /\ \E a \in accounts : a.id = l.account /\ a.identity = who[l.id]
  /\ \E d \in devices : d.id = l.device /\ d.account = l.account /\ d.on = on[l.id]
  /\ l.code # None => phone[l.code] = who[l.id] /\ guess[l.id] = l.code

\* A code is used up exactly when a sign-in with it was committed: a sign-in
\* that fails later, on the unique index or anywhere else, gives it back
\* (verify_otp leaves the commit to the endpoint).
CodesSpentBySignIn == \A n \in Codes :
  codes[n] = "verified" <=> \E l \in logins : l.code = n

\* A code that was used before the request arrived signs nobody in
\* (verify_otp, AC8: "already used"); and a sign-in fails on a unique index
\* only when its identity had no account yet.
UsedCodeRefused == \A r \in Requests :
  /\ pc[r] = "ok" /\ kind[r] = "otp" => row[r] \notin before[r].used
  /\ pc[r] = "conflict" => who[r] \notin before[r].known

\* Sign-ins lock the code, then the account, then its e-mail, then the device,
\* so they never all wait for each other, whoever signs in where: while a
\* request runs, some request is not waiting.
SomeoneCanGo ==
  (\E r \in Requests : pc[r] \in Running) => \E r \in Requests : pc[r] \in Running /\ MayGo(r)

\* Signing in is what SignInContract promises: every sign-in, whatever it
\* overlaps with and wherever it fails, is one find-or-create of account and
\* device with its session and the use of its code, or nothing (the commit of
\* get_db's session; the OTP, user and device repositories only flush).
Contract == INSTANCE SignInContract
KeepsContract == Contract!Spec

\* What verify_otp's docstring says of a code "already used": it is refused.
\* Two requests that both read it before either commits both sign in.
CodeUsedOnce == \A k, l \in logins : k.code = l.code /\ k.code # None => k = l
=============================================================================
