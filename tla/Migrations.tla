------------------------------ MODULE Migrations ------------------------------
(***************************************************************************)
(* The Alembic revisions, the command that runs them and the data they     *)
(* meet.  env.py opens one connection and one transaction for the whole    *)
(* command (transaction_per_migration is not set, PostgreSQL's DDL is      *)
(* transactional), so the statements of all the revisions a command passes *)
(* commit together, or none does.  Two commands may run at once: a         *)
(* statement waits for an uncommitted one of the other that touches the    *)
(* same object.  While the schema is there the application registers       *)
(* accounts.  A revision is its place in the history, base is 0.           *)
(***************************************************************************)
EXTENDS Naturals, Sequences, SequencesExt

CONSTANTS
  Migrators,  \* alembic commands that may run at the same time
  Accounts,   \* rows a registration may insert, by the columns an index reads
  Goals       \* the revisions a command may be given: the bound of a check

Meta == INSTANCE Metadata

ASSUME AccountsAssumption ==
  \A a \in Accounts : "auth_provider" \in DOMAIN a

VARIABLES
  objects,   \* committed catalog: names of schemas, enum types, tables, indexes
  heads,     \* committed rows of alembic_version: revisions, none at base
  accounts,  \* rows of identity.users
  run        \* each command: where it is, what it has changed and locked

vars == <<objects, heads, accounts, run>>

-----------------------------------------------------------------------------
(* The tables as the revisions create them *)

Business(schema, required, optional, refs, unique, enums) ==
  Meta!Table(schema,
    required \cup {"id", "created_at", "updated_at", "is_active", "version"},
    optional \cup {"created_by", "updated_by", "deleted_at"}, refs, unique, enums, Meta!NoIndex)
Plain(schema, required, optional, refs, unique) ==
  Meta!Table(schema, required, optional, refs, unique, {}, Meta!NoIndex)

Enums ==
  [user_status     |-> {"active", "suspended", "deleted"},
   auth_provider   |-> {"google", "apple", "mobile_otp", "email_password"},
   device_platform |-> {"ios", "android"},
   language_code   |-> {"en", "ar"},
   otp_purpose     |-> {"registration", "login", "arrival_verification", "claim_listing"}]
NotificationChannel == {"whatsapp", "sms", "email"}

Author == {<<"created_by", "users">>, <<"updated_by", "users">>}

users == Business("identity", {"auth_provider", "status", "preferred_language"},
  {"email", "email_verified_at", "phone_country_code", "phone_number", "phone_verified_at",
   "password_hash", "external_auth_subject", "last_login_at"},
  Author, {}, {"auth_provider", "user_status", "language_code"})
uq_users_email_provider == Meta!UniqueIndex(<<"auth_provider", "email">>, "email")
users_indexes ==
  [uq_users_email          |-> Meta!UniqueIndex(<<"email">>, "email"),
   uq_users_email_provider |-> uq_users_email_provider,
   uq_users_phone          |-> Meta!UniqueIndex(<<"phone_country_code", "phone_number">>, "phone_number"),
   uq_users_external_auth  |-> Meta!UniqueIndex(<<"auth_provider", "external_auth_subject">>,
                                                "external_auth_subject"),
   idx_users_email         |-> Meta!Index(<<"email">>, ""),
   idx_users_phone_number  |-> Meta!Index(<<"phone_number">>, ""),
   idx_users_status        |-> Meta!Index(<<"status">>, "")]

role_table       == Business("identity", {"name"}, {"description"}, Author, {{"name"}}, {})
permissions      == Business("identity", {"code"}, {"description"}, Author, {{"code"}}, {})
role_permissions == Plain("identity", {"role_id", "permission_id", "created_at"}, {},
  {<<"role_id", "roles">>, <<"permission_id", "permissions">>}, {{"role_id", "permission_id"}})
user_roles       == Plain("identity", {"user_id", "role_id", "created_at"}, {},
  {<<"user_id", "users">>, <<"role_id", "roles">>}, {{"user_id", "role_id"}})
devices          == Business("identity", {"user_id", "platform", "is_trusted"},
  {"device_name", "push_token", "last_seen_at"}, {<<"user_id", "users">>} \cup Author, {},
  {"device_platform"})
otp_verifications == Business("identity",
  {"phone_country_code", "phone_number", "purpose", "code_hash", "attempt_count", "expires_at"},
  {"user_id", "verified_at"}, {<<"user_id", "users">>} \cup Author, {}, {"otp_purpose"})

sessions == Business("identity", {"user_id", "expires_at"},
  {"device_id", "ip_address", "user_agent", "revoked_at"},
  {<<"user_id", "users">>, <<"device_id", "devices">>} \cup Author, {}, {})
refresh_tokens == Business("identity", {"user_id", "session_id", "token_hash", "expires_at"},
  {"revoked_at", "replaced_by_token_id"},
  {<<"user_id", "users">>, <<"session_id", "sessions">>,
   <<"replaced_by_token_id", "refresh_tokens">>} \cup Author, {{"token_hash"}}, {})

audit_logs == Plain("audit", {"id", "action", "entity_type", "created_at"},
  {"actor_user_id", "entity_id", "before_state", "after_state", "ip_address"},
  {<<"actor_user_id", "users">>}, {})
audit_indexes ==
  [idx_audit_logs_actor_user_id         |-> Meta!Index(<<"actor_user_id">>, ""),
   idx_audit_logs_entity_type_entity_id |-> Meta!Index(<<"entity_type", "entity_id">>, ""),
   idx_audit_logs_created_at            |-> Meta!Index(<<"created_at">>, "")]

customer_profiles == Business("customer", {"user_id", "display_name"}, {"avatar_url"},
  {<<"user_id", "users">>} \cup Author, {{"user_id"}}, {})
customer_preferences == Business("customer", {"customer_id", "notification_channel", "language"},
  {}, {<<"customer_id", "customer_profiles">>} \cup Author, {{"customer_id"}},
  {"notification_channel", "language_code"})

saved_addresses == Business("customer",
  {"customer_id", "address_line", "country_code", "latitude", "longitude", "is_default"},
  {"label", "city", "region"}, {<<"customer_id", "customer_profiles">>} \cup Author, {}, {})
saved_address_indexes ==
  [idx_saved_addresses_customer_id     |-> Meta!Index(<<"customer_id">>, ""),
   uq_saved_addresses_customer_default |-> Meta!UniqueIndex(<<"customer_id">>,
                                                            "is_default, is_active")]

EnumSchema == [e \in DOMAIN Enums \cup {"notification_channel"} |->
                 IF e = "notification_channel" THEN "customer" ELSE "identity"]

Tables ==
  [users |-> users, roles |-> role_table, permissions |-> permissions,
   role_permissions |-> role_permissions, user_roles |-> user_roles, devices |-> devices,
   otp_verifications |-> otp_verifications, sessions |-> sessions,
   refresh_tokens |-> refresh_tokens, audit_logs |-> audit_logs,
   customer_profiles |-> customer_profiles, customer_preferences |-> customer_preferences,
   saved_addresses |-> saved_addresses]

IndexesOf ==
  [users             |-> users_indexes,
   roles             |-> Meta!NoIndex,
   permissions       |-> Meta!NoIndex,
   role_permissions  |-> Meta!NoIndex,
   user_roles        |-> Meta!NoIndex,
   devices           |-> [idx_devices_user_id |-> Meta!Index(<<"user_id">>, "")],
   otp_verifications |-> [idx_otp_verifications_phone |->
                            Meta!Index(<<"phone_country_code", "phone_number">>, ""),
                          idx_otp_verifications_user_id |-> Meta!Index(<<"user_id">>, "")],
   sessions          |-> [idx_sessions_user_id    |-> Meta!Index(<<"user_id">>, ""),
                          idx_sessions_expires_at |-> Meta!Index(<<"expires_at">>, "")],
   refresh_tokens    |-> [idx_refresh_tokens_user_id |-> Meta!Index(<<"user_id">>, "")],
   audit_logs        |-> audit_indexes,
   customer_profiles |-> [idx_customer_profiles_user_id |-> Meta!Index(<<"user_id">>, "")],
   customer_preferences |-> [idx_customer_preferences_customer_id |->
                               Meta!Index(<<"customer_id">>, "")],
   saved_addresses   |-> saved_address_indexes]

-----------------------------------------------------------------------------
(* The scripts: sequences of DDL statements *)

create_schema(s)       == [op |-> "create_schema", name |-> s]
create_enum(e)         == [op |-> "create_enum", name |-> e]
create_table(t)        == [op |-> "create_table", name |-> t]
create_index(i, t)     == [op |-> "create_index", name |-> i, table |-> t]
drop_index(i, t)       == [op |-> "drop_index", name |-> i, table |-> t]
drop_table(t)          == [op |-> "drop_table", name |-> t]
drop_enum(e)           == [op |-> "drop_enum", name |-> e]
drop_schema(s)         == [op |-> "drop_schema", name |-> s]          \* RESTRICT
drop_schema_cascade(s) == [op |-> "drop_schema_cascade", name |-> s]

IdentityDomainUp ==
  <<create_schema("identity"),
    create_enum("user_status"), create_enum("auth_provider"), create_enum("device_platform"),
    create_enum("language_code"), create_enum("otp_purpose"),
    create_table("users"),
    create_index("uq_users_email", "users"), create_index("uq_users_phone", "users"),
    create_index("uq_users_external_auth", "users"), create_index("idx_users_email", "users"),
    create_index("idx_users_phone_number", "users"), create_index("idx_users_status", "users"),
    create_table("roles"), create_table("permissions"), create_table("role_permissions"),
    create_table("user_roles"),
    create_table("devices"), create_index("idx_devices_user_id", "devices"),
    create_table("otp_verifications"),
    create_index("idx_otp_verifications_phone", "otp_verifications"),
    create_index("idx_otp_verifications_user_id", "otp_verifications")>>

\* (slip: the roles are dropped before the table that refers to them)
IdentityDomainDownRolesFirst ==
  <<drop_table("otp_verifications"), drop_table("devices"), drop_table("roles"),
    drop_table("user_roles"), drop_table("role_permissions"), drop_table("permissions"),
    drop_table("users"),
    drop_enum("user_status"), drop_enum("auth_provider"), drop_enum("device_platform"),
    drop_enum("language_code"), drop_enum("otp_purpose"), drop_schema("identity")>>

IdentityDomainDown ==
  <<drop_table("otp_verifications"), drop_table("devices"), drop_table("user_roles"),
    drop_table("role_permissions"), drop_table("permissions"), drop_table("roles"),
    drop_table("users"),
    drop_enum("user_status"), drop_enum("auth_provider"), drop_enum("device_platform"),
    drop_enum("language_code"), drop_enum("otp_purpose"), drop_schema("identity")>>

EmailUniquenessUp ==
  <<drop_index("uq_users_email", "users"), create_index("uq_users_email_provider", "users")>>

\* (slip: going back drops the new index and leaves the email without one)
EmailUniquenessDownOnly == <<drop_index("uq_users_email_provider", "users")>>

EmailUniquenessDown ==
  <<drop_index("uq_users_email_provider", "users"), create_index("uq_users_email", "users")>>

SessionsUp ==
  <<create_table("sessions"), create_index("idx_sessions_user_id", "sessions"),
    create_index("idx_sessions_expires_at", "sessions"),
    create_table("refresh_tokens"), create_index("idx_refresh_tokens_user_id", "refresh_tokens")>>
SessionsDown == <<drop_table("refresh_tokens"), drop_table("sessions")>>

AuditUp ==
  <<create_schema("audit"), create_table("audit_logs"),
    create_index("idx_audit_logs_actor_user_id", "audit_logs"),
    create_index("idx_audit_logs_entity_type_entity_id", "audit_logs"),
    create_index("idx_audit_logs_created_at", "audit_logs")>>
AuditDown == <<drop_table("audit_logs"), drop_schema_cascade("audit")>>

CustomerUp ==
  <<create_schema("customer"), create_enum("notification_channel"),
    create_table("customer_profiles"),
    create_index("idx_customer_profiles_user_id", "customer_profiles"),
    create_table("customer_preferences"),
    create_index("idx_customer_preferences_customer_id", "customer_preferences")>>
CustomerDown ==
  <<drop_table("customer_preferences"), drop_table("customer_profiles"),
    drop_enum("notification_channel"), drop_schema("customer")>>

\* (slip: the partial unique index is declared in the model only)
SavedAddressesUpNoUnique ==
  <<create_table("saved_addresses"),
    create_index("idx_saved_addresses_customer_id", "saved_addresses")>>

SavedAddressesUp ==
  <<create_table("saved_addresses"),
    create_index("idx_saved_addresses_customer_id", "saved_addresses"),
    create_index("uq_saved_addresses_customer_default", "saved_addresses")>>
SavedAddressesDown == <<drop_table("saved_addresses")>>

\* The first revision is empty.
Upgrades   == << <<>>, IdentityDomainUp, EmailUniquenessUp, SessionsUp, AuditUp, CustomerUp,
                 SavedAddressesUp >>
Downgrades == << <<>>, IdentityDomainDown, EmailUniquenessDown, SessionsDown, AuditDown,
                 CustomerDown, SavedAddressesDown >>

Latest == 7

-----------------------------------------------------------------------------
(* What PostgreSQL makes of a statement *)

Columns(t) == Tables[t].required \cup Tables[t].optional
Targets(t) == {ref[2] : ref \in Tables[t].refs}
IndexesOn(t) == DOMAIN IndexesOf[t]

\* What a schema may hold.
Within(s) ==
  LET tables == {t \in DOMAIN Tables : Tables[t].schema = s}
  IN  tables \cup {e \in DOMAIN EnumSchema : EnumSchema[e] = s}
             \cup UNION {IndexesOn(t) : t \in tables}

\* No two rows of users agree on the columns of the unique index.
Satisfied(i, rows) ==
  LET index == IndexesOf["users"][i]
      key   == ToSet(index.columns)
  IN  index.unique => \A a, b \in rows :
        key \subseteq DOMAIN a \cap DOMAIN b /\ (\A c \in key : a[c] = b[c]) => a = b

\* The statement succeeds on the catalog S.
Possible(q, S) ==
  CASE q.op = "create_enum"  -> EnumSchema[q.name] \in S
    [] q.op = "create_table" -> /\ q.name \notin S /\ Tables[q.name].schema \in S
                                /\ Tables[q.name].enums \subseteq S
                                /\ Targets(q.name) \subseteq S \cup {q.name}
    [] q.op = "create_index" -> /\ q.name \notin S /\ q.table \in S
                                /\ ToSet(IndexesOf[q.table][q.name].columns) \subseteq Columns(q.table)
                                /\ q.table = "users" => Satisfied(q.name, accounts)
    [] q.op = "drop_index"   -> q.name \in S
    [] q.op = "drop_table"   -> /\ q.name \in S
                                /\ \A t \in (S \cap DOMAIN Tables) \ {q.name} : q.name \notin Targets(t)
    [] q.op = "drop_enum"    -> \A t \in S \cap DOMAIN Tables : q.name \notin Tables[t].enums
    [] q.op = "drop_schema"  -> S \cap Within(q.name) = {}
    [] OTHER                 -> TRUE

Creates(q) == IF q.op \in {"create_schema", "create_enum", "create_table", "create_index"}
              THEN {q.name} ELSE {}
Drops(q) ==
  CASE q.op \in {"drop_index", "drop_enum", "drop_schema"} -> {q.name}
    [] q.op = "drop_table"          -> {q.name} \cup IndexesOn(q.name)
    [] q.op = "drop_schema_cascade" -> {q.name} \cup Within(q.name)
    [] OTHER                        -> {}

\* The objects it locks until the transaction ends.
Touches(q) ==
  CASE q.op = "create_table" -> {q.name} \cup Targets(q.name) \cup Tables[q.name].enums
    [] q.op = "drop_table"   -> {q.name} \cup Targets(q.name) \cup IndexesOn(q.name)
    [] q.op \in {"create_index", "drop_index"} -> {q.name, q.table}
    [] OTHER -> {q.name}

-----------------------------------------------------------------------------
(* Commands *)

\* A command takes the database from one revision to another: it has come to
\* revision rev and has executed the first statements, at, of the next script.
Idle == [from |-> 0, to |-> 0, rev |-> 0, at |-> 0, added |-> {}, removed |-> {}, locks |-> {}]
Running(m) == run[m] # Idle
HasNext(m) == run[m].rev # run[m].to
View(m) == (objects \ run[m].removed) \cup run[m].added

Up(c)     == c.rev < c.to
Script(c) == IF Up(c) THEN Upgrades[c.rev + 1] ELSE Downgrades[c.rev]

NextRev(c) == IF Up(c) THEN c.rev + 1 ELSE c.rev - 1

\* After each script Alembic stamps the revision it has come to: it inserts the
\* first row, updates the row of the revision before, deletes the last one.
stamp == [op |-> "stamp", name |-> "alembic_version"]
NextStatement(m) ==
  IF run[m].at < Len(Script(run[m])) THEN Script(run[m])[run[m].at + 1] ELSE stamp

\* The rows its stamps have changed and keep locked, and their unique keys.
Stamped(c) ==
  IF c.rev = c.from THEN {}
  ELSE {v \in 1..Latest : (c.from <= v /\ v <= c.rev) \/ (c.rev <= v /\ v <= c.from)}

\* The rows its transaction sees: committed ones, with what it has changed.
Seen(m) == IF run[m].rev = run[m].from THEN heads
           ELSE (heads \ {run[m].from}) \cup ({run[m].rev} \ {0})
RowFound(m) == run[m].rev \in Seen(m) \cup {0}

\* A stamp has to find the row it updates or deletes; version_num is the key of
\* the row it inserts or updates.
Succeeds(m) == IF NextStatement(m) = stamp THEN RowFound(m) /\ NextRev(run[m]) \notin Seen(m)
               ELSE Possible(NextStatement(m), View(m))

\* A statement waits for objects, and a stamp for rows and keys, that an open
\* transaction has changed; a row that is not there is not waited for.
Meets(m, n) ==
  IF NextStatement(m) = stamp
  THEN RowFound(m) /\ {run[m].rev, NextRev(run[m])} \cap Stamped(run[n]) # {}
  ELSE Touches(NextStatement(m)) \cap run[n].locks # {}
WaitsFor(m) == {n \in Migrators \ {m} : HasNext(m) /\ Meets(m, n)}
Waiting(m) == WaitsFor(m) # {}
\* (slip: indexes are created on a connection of their own, which waits for
\* what the command itself has locked)
ProceedsApart(m) ==
  /\ HasNext(m) /\ ~Waiting(m)
  /\ NextStatement(m).op = "create_index" => Touches(NextStatement(m)) \cap run[m].locks = {}
Proceeds(m) == HasNext(m) /\ ~Waiting(m)

\* The revision the database is at.
version == Max(heads \cup {0})

\* alembic upgrade / downgrade <revision>: from the version it reads.  An upgrade
\* from two rows of one history is refused ("overlaps with other requested
\* revisions"); a downgrade from them is left out.
Start(m) ==
  /\ ~Running(m)
  /\ heads \subseteq {version}
  /\ \E to \in (Goals \cap 0..Latest) \ {version} :
       run' = [run EXCEPT ![m] = [Idle EXCEPT !.from = version, !.rev = version, !.to = to]]
  /\ UNCHANGED <<objects, heads, accounts>>

Execute(m) ==
  /\ Proceeds(m) /\ Succeeds(m) /\ NextStatement(m) # stamp
  /\ LET q == NextStatement(m) IN
     run' = [run EXCEPT ![m].at      = @ + 1,
                        ![m].added   = (@ \ Drops(q)) \cup Creates(q),
                        ![m].removed = (@ \cup Drops(q)) \ Creates(q),
                        ![m].locks   = @ \cup Touches(q)]
  /\ UNCHANGED <<objects, heads, accounts>>

Stamp(m) ==
  /\ Proceeds(m) /\ Succeeds(m) /\ NextStatement(m) = stamp
  /\ run' = [run EXCEPT ![m].rev = NextRev(run[m]), ![m].at = 0]
  /\ UNCHANGED <<objects, heads, accounts>>

\* A statement fails: the transaction is rolled back and the command ends.
Fail(m) ==
  /\ Proceeds(m) /\ ~Succeeds(m)
  /\ run' = [run EXCEPT ![m] = Idle]
  /\ UNCHANGED <<objects, heads, accounts>>

\* The rows of a table that was dropped are gone.
Publish(m) ==
  /\ objects'  = View(m)
  /\ heads'    = Seen(m)
  /\ accounts' = IF "users" \in View(m) THEN accounts ELSE {}

\* (slip: a transaction for each revision, transaction_per_migration)
CommitEachRevision(m) ==
  /\ Running(m) /\ run[m].at = 0 /\ run[m].rev # run[m].from
  /\ Publish(m)
  /\ run' = [run EXCEPT ![m] =
                IF HasNext(m) THEN [Idle EXCEPT !.from = run[m].rev, !.rev = run[m].rev,
                                                 !.to = run[m].to]
                ELSE Idle]

Commit(m) ==
  /\ Running(m) /\ ~HasNext(m)
  /\ Publish(m)
  /\ run' = [run EXCEPT ![m] = Idle]

\* Commands on a cycle of waits: PostgreSQL aborts one of them.
Deadlocked(m) ==
  /\ Waiting(m)
  /\ \A S \in SUBSET Migrators :
       WaitsFor(m) \subseteq S /\ (\A n \in S : WaitsFor(n) \subseteq S) => m \in S
DeadlockVictim(m) ==
  /\ Deadlocked(m)
  /\ run' = [run EXCEPT ![m] = Idle]
  /\ UNCHANGED <<objects, heads, accounts>>

\* The process or its connection dies, at any point.
Crash(m) ==
  /\ Running(m)
  /\ run' = [run EXCEPT ![m] = Idle]
  /\ UNCHANGED <<objects, heads, accounts>>

-----------------------------------------------------------------------------
(* The application *)

RegistrationTables == {"users", "roles", "user_roles", "customer_profiles", "customer_preferences",
                       "devices", "sessions", "refresh_tokens", "audit_logs"}
AnyLock == UNION {run[m].locks : m \in Migrators}

\* A first sign-in inserts the account, what belongs to it and its session as
\* one transaction.
Register(a) ==
  /\ RegistrationTables \subseteq objects /\ RegistrationTables \cap AnyLock = {}
  /\ a \notin accounts
  /\ \A i \in objects \cap IndexesOn("users") : Satisfied(i, accounts \cup {a})
  /\ accounts' = accounts \cup {a}
  /\ UNCHANGED <<objects, heads, run>>

-----------------------------------------------------------------------------
Init ==
  /\ objects = {} /\ heads = {}
  /\ accounts = {}
  /\ run = [m \in Migrators |-> Idle]

Next ==
  \/ \E m \in Migrators : \/ Start(m) \/ Execute(m) \/ Stamp(m) \/ Fail(m) \/ Commit(m)
                          \/ DeadlockVictim(m) \/ Crash(m)
  \/ \E a \in Accounts : Register(a)

\* A command that runs goes on; one that waits for a lock gets it in its turn,
\* PostgreSQL queues the waiters.
Fairness == \A m \in Migrators : /\ SF_vars(Execute(m) \/ Stamp(m) \/ Fail(m) \/ Commit(m))
                                 /\ WF_vars(DeadlockVictim(m))

Spec == Init /\ [][Next]_vars /\ Fairness

-----------------------------------------------------------------------------
(* Properties *)

\* The catalog of the first v revisions: the tables created by then, each with
\* its schema, its enum types and its indexes.  Revision 2 has the email unique,
\* later ones have it unique for each provider.
Since ==
  [users |-> 2, roles |-> 2, permissions |-> 2, role_permissions |-> 2, user_roles |-> 2,
   devices |-> 2, otp_verifications |-> 2, sessions |-> 4, refresh_tokens |-> 4,
   audit_logs |-> 5, customer_profiles |-> 6, customer_preferences |-> 6, saved_addresses |-> 7]
TablesAt(v) == {t \in DOMAIN Tables : Since[t] <= v}
Built(v) ==
  (UNION {{t, Tables[t].schema} \cup Tables[t].enums \cup IndexesOn(t) : t \in TablesAt(v)})
    \ {IF v = 2 THEN "uq_users_email_provider" ELSE "uq_users_email"}

\* Commands are between two revisions, at a statement of a script, with names
\* they have added, removed and locked.
Names == {"identity", "audit", "customer"} \cup DOMAIN Tables
           \cup DOMAIN EnumSchema \cup UNION {IndexesOn(t) : t \in DOMAIN Tables}
Command == [from : 0..Latest, to : 0..Latest, rev : 0..Latest, at : Nat,
            added : SUBSET Names, removed : SUBSET Names, locks : SUBSET Names]
TypeOK ==
  /\ objects \in SUBSET Names /\ heads \in SUBSET (1..Latest)
  /\ accounts \subseteq Accounts
  /\ run \in [Migrators -> Command]

\* Whatever upgrades, downgrades, failures and crashes came before, the
\* committed catalog is the one its version names: each downgrade undoes its
\* upgrade and no command commits half of a revision.  That goes for a version
\* table with a second row too, which an upgrade from base to the empty first
\* revision leaves if it waited for one that went further.
CatalogMatchesVersion == objects = Built(version)

\* At the last revision the database has exactly the tables, columns, keys,
\* enum types and indexes the models of the application declare.
HeadMatchesModels ==
  version = Latest =>
    /\ objects \cap DOMAIN Tables = DOMAIN Meta!target_metadata
    /\ \A t \in DOMAIN Meta!target_metadata :
         Meta!target_metadata[t] =
           [Tables[t] EXCEPT !.indexes = [i \in objects \cap IndexesOn(t) |-> IndexesOf[t][i]]]
    /\ Enums = Meta!IdentityEnums
    /\ NotificationChannel = Meta!CustomerEnums.notification_channel

\* Only rows can stop a command that nobody overtook: a statement fails for no
\* other reason than a downgrade that finds an email under two providers,
\* which the docstring of revision be1f79b6fa2a announces.
OnlyDuplicatesStopACommand ==
  \A m \in Migrators :
    Proceeds(m) /\ heads = {run[m].from} \ {0}
      => \/ Succeeds(m)
         \/ /\ run[m].to < run[m].from
            /\ NextStatement(m) = create_index("uq_users_email", "users")
            /\ \E a, b \in accounts : /\ a # b /\ "email" \in DOMAIN a \cap DOMAIN b
                                      /\ a.email = b.email

\* A command replaces the row it found by that of the revision it was given, or
\* nothing: the version moves all of its way or not at all, whatever row another
\* command has stamped meanwhile.
CommandIsAtomic ==
  [][heads' # heads => \E m \in Migrators :
       /\ Running(m) /\ run[m].from \in heads \cup {0}
       /\ heads' = (heads \ {run[m].from}) \cup ({run[m].to} \ {0})
       /\ version' # version => run[m].from = version /\ run[m].to = version']_vars

\* A command that has started ends, whatever it meets.  Two can wait for each
\* other: one that has created the schema audit and goes on to a table that
\* refers to users, and one that has changed users and goes on to that schema.
EveryCommandEnds == \A m \in Migrators : Running(m) ~> ~Running(m)
===============================================================================
