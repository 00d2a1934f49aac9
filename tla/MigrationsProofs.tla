--------------------------- MODULE MigrationsProofs ---------------------------
(***************************************************************************)
(* Proofs about Migrations: what the scripts do to a catalog, name by      *)
(* name; the invariant of MigrationsInv; and the theorems: the catalog is  *)
(* that of its version, the last version is what the models declare, a     *)
(* command is atomic, and nothing but rows can stop one.                   *)
(***************************************************************************)
EXTENDS MigrationsInv, TLAPS

-----------------------------------------------------------------------------
(* The tables, by what the proofs read of them *)

LEMMA TableNames ==
  DOMAIN Tables = {"users", "roles", "permissions", "role_permissions", "user_roles", "devices",
                   "otp_verifications", "sessions", "refresh_tokens", "audit_logs",
                   "customer_profiles", "customer_preferences", "saved_addresses"}
  BY DEF Tables

LEMMA TableSchemas ==
  /\ Tables["users"].schema = "identity"             /\ Tables["roles"].schema = "identity"
  /\ Tables["permissions"].schema = "identity"       /\ Tables["role_permissions"].schema =
       "identity"
  /\ Tables["user_roles"].schema = "identity"        /\ Tables["devices"].schema = "identity"
  /\ Tables["otp_verifications"].schema = "identity" /\ Tables["sessions"].schema = "identity"
  /\ Tables["refresh_tokens"].schema = "identity"    /\ Tables["audit_logs"].schema = "audit"
  /\ Tables["customer_profiles"].schema = "customer"
  /\ Tables["customer_preferences"].schema = "customer"
  /\ Tables["saved_addresses"].schema = "customer"
  BY DEF Tables, users, role_table, permissions, role_permissions, user_roles, devices,
         otp_verifications, sessions, refresh_tokens, audit_logs, customer_profiles,
         customer_preferences, saved_addresses, Business, Plain, Meta!Table

LEMMA TableEnums ==
  /\ Tables["users"].enums = {"auth_provider", "user_status", "language_code"}
  /\ Tables["roles"].enums = {}            /\ Tables["permissions"].enums = {}
  /\ Tables["role_permissions"].enums = {} /\ Tables["user_roles"].enums = {}
  /\ Tables["devices"].enums = {"device_platform"}
  /\ Tables["otp_verifications"].enums = {"otp_purpose"}
  /\ Tables["sessions"].enums = {}         /\ Tables["refresh_tokens"].enums = {}
  /\ Tables["audit_logs"].enums = {}       /\ Tables["customer_profiles"].enums = {}
  /\ Tables["customer_preferences"].enums = {"notification_channel", "language_code"}
  /\ Tables["saved_addresses"].enums = {}
  BY DEF Tables, users, role_table, permissions, role_permissions, user_roles, devices,
         otp_verifications, sessions, refresh_tokens, audit_logs, customer_profiles,
         customer_preferences, saved_addresses, Business, Plain, Meta!Table

LEMMA TableTargets ==
  /\ Targets("users") = {"users"}          /\ Targets("roles") = {"users"}
  /\ Targets("permissions") = {"users"}    /\ Targets("role_permissions") = {"roles", "permissions"}
  /\ Targets("user_roles") = {"users", "roles"}
  /\ Targets("devices") = {"users"}        /\ Targets("otp_verifications") = {"users"}
  /\ Targets("sessions") = {"users", "devices"}
  /\ Targets("refresh_tokens") = {"users", "sessions", "refresh_tokens"}
  /\ Targets("audit_logs") = {"users"}     /\ Targets("customer_profiles") = {"users"}
  /\ Targets("customer_preferences") = {"users", "customer_profiles"}
  /\ Targets("saved_addresses") = {"users", "customer_profiles"}
<1>1. /\ Tables["users"].refs = {<<"created_by", "users">>, <<"updated_by", "users">>}
      /\ Tables["roles"].refs = {<<"created_by", "users">>, <<"updated_by", "users">>}
      /\ Tables["permissions"].refs = {<<"created_by", "users">>, <<"updated_by", "users">>}
  BY DEF Tables, users, role_table, permissions, Business, Meta!Table, Author
<1>2. /\ Tables["role_permissions"].refs = {<<"role_id", "roles">>,
           <<"permission_id", "permissions">>}
      /\ Tables["user_roles"].refs = {<<"user_id", "users">>, <<"role_id", "roles">>}
      /\ Tables["audit_logs"].refs = {<<"actor_user_id", "users">>}
  BY DEF Tables, role_permissions, user_roles, audit_logs, Plain, Meta!Table
<1>3. /\ Tables["devices"].refs = {<<"user_id", "users">>, <<"created_by", "users">>,
           <<"updated_by", "users">>}
      /\ Tables["otp_verifications"].refs =
           {<<"user_id", "users">>, <<"created_by", "users">>, <<"updated_by", "users">>}
      /\ Tables["customer_profiles"].refs =
           {<<"user_id", "users">>, <<"created_by", "users">>, <<"updated_by", "users">>}
  BY DEF Tables, devices, otp_verifications, customer_profiles, Business, Meta!Table, Author
<1>4. /\ Tables["sessions"].refs = {<<"user_id", "users">>, <<"device_id", "devices">>,
                             <<"created_by", "users">>, <<"updated_by", "users">>}
      /\ Tables["refresh_tokens"].refs = {<<"user_id", "users">>, <<"session_id", "sessions">>,
                                   <<"replaced_by_token_id", "refresh_tokens">>,
                                   <<"created_by", "users">>, <<"updated_by", "users">>}
  BY DEF Tables, sessions, refresh_tokens, Business, Meta!Table, Author
<1>5. /\ Tables["customer_preferences"].refs = {<<"customer_id", "customer_profiles">>,
                                         <<"created_by", "users">>, <<"updated_by", "users">>}
      /\ Tables["saved_addresses"].refs = {<<"customer_id", "customer_profiles">>,
                                    <<"created_by", "users">>, <<"updated_by", "users">>}
  BY DEF Tables, customer_preferences, saved_addresses, Business, Meta!Table, Author
<1>7. /\ Targets("users") = {"users"} /\ Targets("roles") = {"users"}
           /\ Targets("permissions") = {"users"}
  BY <1>1 DEF Targets
<1>8. /\ Targets("role_permissions") = {"roles", "permissions"}
      /\ Targets("user_roles") = {"users", "roles"} /\ Targets("audit_logs") = {"users"}
  BY <1>2 DEF Targets
<1>9. /\ Targets("devices") = {"users"} /\ Targets("otp_verifications") = {"users"}
      /\ Targets("customer_profiles") = {"users"}
  BY <1>3 DEF Targets
<1>10. /\ Targets("sessions") = {"users", "devices"}
       /\ Targets("refresh_tokens") = {"users", "sessions", "refresh_tokens"}
  BY <1>4 DEF Targets
<1>11. /\ Targets("customer_preferences") = {"users", "customer_profiles"}
       /\ Targets("saved_addresses") = {"users", "customer_profiles"}
  BY <1>5 DEF Targets
<1> QED BY <1>7, <1>8, <1>9, <1>10, <1>11

LEMMA IndexNames ==
  /\ IndexesOn("users") = {"uq_users_email", "uq_users_email_provider", "uq_users_phone",
                           "uq_users_external_auth", "idx_users_email", "idx_users_phone_number",
                           "idx_users_status"}
  /\ IndexesOn("roles") = {}            /\ IndexesOn("permissions") = {}
  /\ IndexesOn("role_permissions") = {} /\ IndexesOn("user_roles") = {}
  /\ IndexesOn("devices") = {"idx_devices_user_id"}
  /\ IndexesOn("otp_verifications") = {"idx_otp_verifications_phone",
       "idx_otp_verifications_user_id"}
  /\ IndexesOn("sessions") = {"idx_sessions_user_id", "idx_sessions_expires_at"}
  /\ IndexesOn("refresh_tokens") = {"idx_refresh_tokens_user_id"}
  /\ IndexesOn("audit_logs") = {"idx_audit_logs_actor_user_id",
                                "idx_audit_logs_entity_type_entity_id", "idx_audit_logs_created_at"}
  /\ IndexesOn("customer_profiles") = {"idx_customer_profiles_user_id"}
  /\ IndexesOn("customer_preferences") = {"idx_customer_preferences_customer_id"}
  /\ IndexesOn("saved_addresses") = {"idx_saved_addresses_customer_id",
                                     "uq_saved_addresses_customer_default"}
  BY DEF IndexesOn, IndexesOf, Meta!NoIndex, users_indexes, audit_indexes, saved_address_indexes

LEMMA EnumHomes ==
  /\ DOMAIN EnumSchema = {"user_status", "auth_provider", "device_platform", "language_code",
                          "otp_purpose", "notification_channel"}
  /\ EnumSchema["notification_channel"] = "customer"
  /\ \A e \in DOMAIN EnumSchema \ {"notification_channel"} : EnumSchema[e] = "identity"
  BY DEF EnumSchema, Enums

-----------------------------------------------------------------------------
(* The catalogs of the revisions, name by name *)

CoreNames ==
  {"identity", "user_status", "auth_provider", "device_platform", "language_code", "otp_purpose",
   "users", "uq_users_phone", "uq_users_external_auth", "idx_users_email",
   "idx_users_phone_number", "idx_users_status", "roles", "permissions", "role_permissions",
   "user_roles", "devices", "idx_devices_user_id", "otp_verifications",
   "idx_otp_verifications_phone", "idx_otp_verifications_user_id"}
SessionNames == {"sessions", "idx_sessions_user_id", "idx_sessions_expires_at", "refresh_tokens",
                 "idx_refresh_tokens_user_id"}
AuditNames == {"audit", "audit_logs", "idx_audit_logs_actor_user_id",
               "idx_audit_logs_entity_type_entity_id", "idx_audit_logs_created_at"}
CustomerNames == {"customer", "notification_channel", "customer_profiles",
                  "idx_customer_profiles_user_id", "customer_preferences",
                  "idx_customer_preferences_customer_id"}
AddressNames == {"saved_addresses", "idx_saved_addresses_customer_id",
                 "uq_saved_addresses_customer_default"}

\* What one table brings.
Group(t) == {t, Tables[t].schema} \cup Tables[t].enums \cup IndexesOn(t)

LEMMA BuiltByGroups ==
  ASSUME NEW v
  PROVE  Built(v) = (UNION {Group(t) : t \in TablesAt(v)})
                      \ {IF v = 2 THEN "uq_users_email_provider" ELSE "uq_users_email"}
  BY DEF Built, Group

LEMMA CoreGroups ==
  UNION {Group(t) : t \in {"users", "roles", "permissions", "role_permissions", "user_roles",
                           "devices", "otp_verifications"}}
    = CoreNames \cup {"uq_users_email", "uq_users_email_provider"}
  BY TableSchemas, TableEnums, IndexNames DEF Group, CoreNames

LEMMA SessionGroups ==
  Group("sessions") \cup Group("refresh_tokens") = SessionNames \cup {"identity"}
  BY TableSchemas, TableEnums, IndexNames DEF Group, SessionNames
LEMMA AuditGroups == Group("audit_logs") = AuditNames
  BY TableSchemas, TableEnums, IndexNames DEF Group, AuditNames
LEMMA CustomerGroups ==
  Group("customer_profiles") \cup Group("customer_preferences") = CustomerNames
    \cup {"language_code"}
  BY TableSchemas, TableEnums, IndexNames DEF Group, CustomerNames
LEMMA AddressGroups == Group("saved_addresses") = AddressNames \cup {"customer"}
  BY TableSchemas, TableEnums, IndexNames DEF Group, AddressNames

LEMMA BuiltNames ==
  /\ Built(0) = {} /\ Built(1) = {}
  /\ Built(2) = CoreNames \cup {"uq_users_email"}
  /\ Built(3) = CoreNames \cup {"uq_users_email_provider"}
  /\ Built(4) = Built(3) \cup SessionNames
  /\ Built(5) = Built(4) \cup AuditNames
  /\ Built(6) = Built(5) \cup CustomerNames
  /\ Built(7) = Built(6) \cup AddressNames
<1> DEFINE core == {"users", "roles", "permissions", "role_permissions", "user_roles", "devices",
                    "otp_verifications"}
           unique == {"uq_users_email", "uq_users_email_provider"}
<1>1. /\ TablesAt(0) = {} /\ TablesAt(1) = {} /\ TablesAt(2) = core /\ TablesAt(3) = core
      /\ TablesAt(4) = TablesAt(3) \cup {"sessions", "refresh_tokens"}
      /\ TablesAt(5) = TablesAt(4) \cup {"audit_logs"}
      /\ TablesAt(6) = TablesAt(5) \cup {"customer_profiles", "customer_preferences"}
      /\ TablesAt(7) = TablesAt(6) \cup {"saved_addresses"}
  BY TableNames DEF TablesAt, Since
<1> DEFINE G(v) == UNION {Group(t) : t \in TablesAt(v)}
<1>2. G(0) = {} /\ G(1) = {}
  BY <1>1
<1>3. G(2) = CoreNames \cup unique /\ G(3) = G(2)
  BY <1>1, CoreGroups
<1>4. G(4) = G(3) \cup Group("sessions") \cup Group("refresh_tokens")
  BY <1>1
<1>5. G(5) = G(4) \cup Group("audit_logs")
  BY <1>1
<1>6. G(6) = G(5) \cup Group("customer_profiles") \cup Group("customer_preferences")
  BY <1>1
<1>7. G(7) = G(6) \cup Group("saved_addresses")
  BY <1>1
<1>8. /\ "identity" \in CoreNames /\ "language_code" \in CoreNames /\ "customer" \in CustomerNames
      /\ unique \cap CoreNames = {} /\ unique \cap SessionNames = {} /\ unique \cap AuditNames = {}
      /\ unique \cap CustomerNames = {} /\ unique \cap AddressNames = {}
  BY DEF CoreNames, SessionNames, AuditNames, CustomerNames, AddressNames
<1>9. /\ Built(0) = G(0) \ {"uq_users_email"} /\ Built(1) = G(1) \ {"uq_users_email"}
      /\ Built(2) = G(2) \ {"uq_users_email_provider"}
      /\ Built(3) = G(3) \ {"uq_users_email"} /\ Built(4) = G(4) \ {"uq_users_email"}
      /\ Built(5) = G(5) \ {"uq_users_email"} /\ Built(6) = G(6) \ {"uq_users_email"}
      /\ Built(7) = G(7) \ {"uq_users_email"}
  BY BuiltByGroups
<1> HIDE DEF G
<1>10. G(4) = G(3) \cup SessionNames
  BY <1>3, <1>4, <1>8, SessionGroups
<1>11. G(5) = G(4) \cup AuditNames
  BY <1>5, AuditGroups
<1>12. G(6) = G(5) \cup CustomerNames
  BY <1>3, <1>6, <1>8, <1>10, <1>11, CustomerGroups
<1>13. G(7) = G(6) \cup AddressNames
  BY <1>7, <1>8, <1>12, AddressGroups
<1>14. Built(0) = {} /\ Built(1) = {}
  BY <1>2, <1>9
<1>15. Built(2) = CoreNames \cup {"uq_users_email"} /\ Built(3) = CoreNames
        \cup {"uq_users_email_provider"}
  BY <1>3, <1>8, <1>9
<1>16. /\ Built(4) = Built(3) \cup SessionNames /\ Built(5) = Built(4) \cup AuditNames
       /\ Built(6) = Built(5) \cup CustomerNames /\ Built(7) = Built(6) \cup AddressNames
  BY <1>8, <1>9, <1>10, <1>11, <1>12, <1>13
<1> QED BY <1>14, <1>15, <1>16

LEMMA WithinNames ==
  /\ Within("audit") = AuditNames \ {"audit"}
  /\ Within("customer") = (CustomerNames \cup AddressNames) \ {"customer"}
  /\ Within("identity") = (CoreNames \cup SessionNames
                             \cup {"uq_users_email", "uq_users_email_provider"}) \ {"identity"}
<1> DEFINE T(s) == {t \in DOMAIN Tables : Tables[t].schema = s}
           E(s) == {e \in DOMAIN EnumSchema : EnumSchema[e] = s}
<1>1. \A s : Within(s) = T(s) \cup E(s) \cup UNION {IndexesOn(t) : t \in T(s)}
  BY DEF Within
<1>2. /\ T("audit") = {"audit_logs"}
      /\ T("customer") = {"customer_profiles", "customer_preferences", "saved_addresses"}
      /\ T("identity") = {"users", "roles", "permissions", "role_permissions", "user_roles",
                          "devices", "otp_verifications", "sessions", "refresh_tokens"}
  BY TableNames, TableSchemas
<1>3. /\ E("audit") = {} /\ E("customer") = {"notification_channel"}
      /\ E("identity") = {"user_status", "auth_provider", "device_platform", "language_code",
           "otp_purpose"}
  BY EnumHomes
<1> HIDE DEF T, E
<1>4. Within("audit") = AuditNames \ {"audit"}
  BY <1>1, <1>2, <1>3, IndexNames DEF AuditNames
<1>5. Within("customer") = (CustomerNames \cup AddressNames) \ {"customer"}
  BY <1>1, <1>2, <1>3, IndexNames DEF CustomerNames, AddressNames
<1>6. Within("identity") = (CoreNames \cup SessionNames
                              \cup {"uq_users_email", "uq_users_email_provider"}) \ {"identity"}
  BY <1>1, <1>2, <1>3, IndexNames DEF CoreNames, SessionNames
<1> QED BY <1>4, <1>5, <1>6

-----------------------------------------------------------------------------
(* The scripts *)

LEMMA ScriptLengths ==
  /\ Len(IdentityDomainUp) = 22 /\ Len(IdentityDomainDown) = 13
  /\ Len(EmailUniquenessUp) = 2 /\ Len(EmailUniquenessDown) = 2
  /\ Len(SessionsUp) = 5        /\ Len(SessionsDown) = 2
  /\ Len(AuditUp) = 5           /\ Len(AuditDown) = 2
  /\ Len(CustomerUp) = 6        /\ Len(CustomerDown) = 4
  /\ Len(SavedAddressesUp) = 3  /\ Len(SavedAddressesDown) = 1
  BY DEF IdentityDomainUp, IdentityDomainDown, EmailUniquenessUp, EmailUniquenessDown, SessionsUp,
         SessionsDown, AuditUp, AuditDown, CustomerUp, CustomerDown, SavedAddressesUp,
         SavedAddressesDown

\* Every upgrade but that of the email index only creates.
LEMMA UpgradesDropNothing ==
  /\ \A i \in 1..22 : Drops(IdentityDomainUp[i]) = {}
  /\ \A i \in 1..5 : Drops(SessionsUp[i]) = {}
  /\ \A i \in 1..5 : Drops(AuditUp[i]) = {}
  /\ \A i \in 1..6 : Drops(CustomerUp[i]) = {}
  /\ \A i \in 1..3 : Drops(SavedAddressesUp[i]) = {}
<1>1. \A i \in 1..22 : Drops(IdentityDomainUp[i]) = {}
  BY DEF Drops, IdentityDomainUp, create_schema, create_enum, create_table, create_index
<1>2. \A i \in 1..5 : Drops(SessionsUp[i]) = {}
  BY DEF Drops, SessionsUp, create_table, create_index
<1>3. \A i \in 1..5 : Drops(AuditUp[i]) = {}
  BY DEF Drops, AuditUp, create_schema, create_table, create_index
<1>4. \A i \in 1..6 : Drops(CustomerUp[i]) = {}
  BY DEF Drops, CustomerUp, create_schema, create_enum, create_table, create_index
<1>5. \A i \in 1..3 : Drops(SavedAddressesUp[i]) = {}
  BY DEF Drops, SavedAddressesUp, create_table, create_index
<1> QED BY <1>1, <1>2, <1>3, <1>4, <1>5

\* Every downgrade but that one only drops.
LEMMA DowngradesCreateNothing ==
  /\ \A i \in 1..13 : Creates(IdentityDomainDown[i]) = {}
  /\ \A i \in 1..2 : Creates(SessionsDown[i]) = {}
  /\ \A i \in 1..2 : Creates(AuditDown[i]) = {}
  /\ \A i \in 1..4 : Creates(CustomerDown[i]) = {}
  /\ \A i \in 1..1 : Creates(SavedAddressesDown[i]) = {}
<1>1. \A i \in 1..13 : Creates(IdentityDomainDown[i]) = {}
  BY DEF Creates, IdentityDomainDown, drop_table, drop_enum, drop_schema
<1>2. \A i \in 1..2 : Creates(SessionsDown[i]) = {}
  BY DEF Creates, SessionsDown, drop_table
<1>3. \A i \in 1..2 : Creates(AuditDown[i]) = {}
  BY DEF Creates, AuditDown, drop_table, drop_schema_cascade
<1>4. \A i \in 1..4 : Creates(CustomerDown[i]) = {}
  BY DEF Creates, CustomerDown, drop_table, drop_enum, drop_schema
<1>5. \A i \in 1..1 : Creates(SavedAddressesDown[i]) = {}
  BY DEF Creates, SavedAddressesDown, drop_table
<1> QED BY <1>1, <1>2, <1>3, <1>4, <1>5

LEMMA UpgradesCreate ==
  /\ CreatedBy(IdentityDomainUp, 22) = CoreNames \cup {"uq_users_email"}
  /\ CreatedBy(SessionsUp, 5) = SessionNames
  /\ CreatedBy(AuditUp, 5) = AuditNames
  /\ CreatedBy(CustomerUp, 6) = CustomerNames
  /\ CreatedBy(SavedAddressesUp, 3) = AddressNames
<1>1. CreatedBy(IdentityDomainUp, 22) = CoreNames \cup {"uq_users_email"}
  BY DEF CreatedBy, Creates, IdentityDomainUp, CoreNames,
         create_schema, create_enum, create_table, create_index
<1>2. CreatedBy(SessionsUp, 5) = SessionNames
  BY DEF CreatedBy, Creates, SessionsUp, SessionNames, create_table, create_index
<1>3. CreatedBy(AuditUp, 5) = AuditNames
  BY DEF CreatedBy, Creates, AuditUp, AuditNames, create_schema, create_table, create_index
<1>4. CreatedBy(CustomerUp, 6) = CustomerNames
  BY DEF CreatedBy, Creates, CustomerUp, CustomerNames,
         create_schema, create_enum, create_table, create_index
<1>5. CreatedBy(SavedAddressesUp, 3) = AddressNames
  BY DEF CreatedBy, Creates, SavedAddressesUp, AddressNames, create_table, create_index
<1> QED BY <1>1, <1>2, <1>3, <1>4, <1>5

LEMMA DowngradesDrop ==
  /\ DroppedBy(IdentityDomainDown, 13) = CoreNames \cup {"uq_users_email",
       "uq_users_email_provider"}
  /\ DroppedBy(SessionsDown, 2) = SessionNames
  /\ DroppedBy(AuditDown, 2) = AuditNames
  /\ DroppedBy(CustomerDown, 4) = CustomerNames
  /\ DroppedBy(SavedAddressesDown, 1) = AddressNames
<1>1. DroppedBy(IdentityDomainDown, 13) = CoreNames \cup {"uq_users_email",
        "uq_users_email_provider"}
  BY IndexNames DEF DroppedBy, Drops, IdentityDomainDown, CoreNames, drop_table, drop_enum,
     drop_schema
<1>2. DroppedBy(SessionsDown, 2) = SessionNames
  BY IndexNames DEF DroppedBy, Drops, SessionsDown, SessionNames, drop_table
<1>3. DroppedBy(AuditDown, 2) = AuditNames
  BY IndexNames, WithinNames DEF DroppedBy, Drops, AuditDown, AuditNames, drop_table,
     drop_schema_cascade
<1>4. DroppedBy(CustomerDown, 4) = CustomerNames
  BY IndexNames DEF DroppedBy, Drops, CustomerDown, CustomerNames, drop_table, drop_enum,
     drop_schema
<1>5. DroppedBy(SavedAddressesDown, 1) = AddressNames
  BY IndexNames DEF DroppedBy, Drops, SavedAddressesDown, AddressNames, drop_table
<1> QED BY <1>1, <1>2, <1>3, <1>4, <1>5

LEMMA EmailScripts ==
  /\ DroppedBy(EmailUniquenessUp, 2) = {"uq_users_email"}
  /\ CreatedBy(EmailUniquenessUp, 2) = {"uq_users_email_provider"}
  /\ DroppedBy(EmailUniquenessDown, 2) = {"uq_users_email_provider"}
  /\ CreatedBy(EmailUniquenessDown, 2) = {"uq_users_email"}
  BY DEF DroppedBy, CreatedBy, Drops, Creates, EmailUniquenessUp, EmailUniquenessDown,
         drop_index, create_index

LEMMA AllNames ==
  Names = CoreNames \cup {"uq_users_email", "uq_users_email_provider"}
            \cup SessionNames \cup AuditNames \cup CustomerNames \cup AddressNames
<1> DEFINE T == DOMAIN Tables
           indexes == UNION {IndexesOn(t) : t \in T}
<1>1. indexes =
        {"uq_users_email", "uq_users_email_provider", "uq_users_phone", "uq_users_external_auth",
         "idx_users_email", "idx_users_phone_number", "idx_users_status", "idx_devices_user_id",
         "idx_otp_verifications_phone", "idx_otp_verifications_user_id", "idx_sessions_user_id",
         "idx_sessions_expires_at", "idx_refresh_tokens_user_id", "idx_audit_logs_actor_user_id",
         "idx_audit_logs_entity_type_entity_id", "idx_audit_logs_created_at",
         "idx_customer_profiles_user_id", "idx_customer_preferences_customer_id",
         "idx_saved_addresses_customer_id", "uq_saved_addresses_customer_default"}
  BY TableNames, IndexNames
<1>2. Names = {"identity", "audit", "customer"} \cup T
        \cup DOMAIN EnumSchema \cup indexes
  BY DEF Names
<1> HIDE DEF indexes
<1> QED BY <1>1, <1>2, TableNames, EnumHomes
      DEF CoreNames, SessionNames, AuditNames, CustomerNames, AddressNames

-----------------------------------------------------------------------------
(* What is true of every script *)

\* The script S takes revision v to revision w: it drops nothing it has
\* created, it builds what w names, and an index of users comes from a
\* CREATE INDEX on users.
Leads(S, v, w) ==
  /\ Len(S) \in Nat
  /\ \A i \in 1..Len(S) :
       /\ S[i] # stamp
       /\ Creates(S[i]) \cup Drops(S[i]) \cup Touches(S[i]) \subseteq Names
       /\ Drops(S[i]) \cap CreatedBy(S, i - 1) = {}
       /\ Creates(S[i]) \cap IndexesOn("users") # {}
            => S[i].op = "create_index" /\ S[i].table = "users"
  /\ (Built(v) \ DroppedBy(S, Len(S))) \cup CreatedBy(S, Len(S)) = Built(w)

LEMMA NothingYet == \A S : DroppedBy(S, 0) = {} /\ CreatedBy(S, 0) = {}
  BY DEF DroppedBy, CreatedBy

\* A script that only creates, and one that only drops.
LEMMA Upgrading ==
  ASSUME NEW S, NEW n \in Nat, \A i \in 1..n : Drops(S[i]) = {}
  PROVE  \A k \in 0..n : DroppedBy(S, k) = {}
  BY DEF DroppedBy
LEMMA Downgrading ==
  ASSUME NEW S, NEW n \in Nat, \A i \in 1..n : Creates(S[i]) = {}
  PROVE  \A k \in 0..n : CreatedBy(S, k) = {}
  BY DEF CreatedBy

LEMMA SchemasFirst == Leads(<<>>, 0, 1) /\ Leads(<<>>, 1, 0)
  BY BuiltNames DEF Leads, DroppedBy, CreatedBy

LEMMA IdentityDomainUpLeads == Leads(IdentityDomainUp, 1, 2)
<1> DEFINE S == IdentityDomainUp
<1>1. \A i \in 1..22 : S[i] # stamp
  BY DEF IdentityDomainUp, stamp, create_schema, create_enum, create_table, create_index
<1>2. \A k \in 0..22 : DroppedBy(S, k) = {}
  BY UpgradesDropNothing, Upgrading
<1>3. \A i \in 1..22 : Creates(S[i]) \cup Touches(S[i]) \subseteq Names
  BY AllNames, TableTargets, TableEnums
     DEF IdentityDomainUp, Creates, Touches, create_schema, create_enum, create_table, create_index,
         CoreNames, SessionNames, AuditNames, CustomerNames, AddressNames
<1>4. \A i \in 1..22 : Creates(S[i]) \cap IndexesOn("users") # {}
                          => S[i].op = "create_index" /\ S[i].table = "users"
  BY IndexNames DEF IdentityDomainUp, Creates, create_schema, create_enum, create_table,
     create_index
<1>5. (Built(1) \ DroppedBy(S, 22)) \cup CreatedBy(S, 22) = Built(2)
  BY <1>2, UpgradesCreate, BuiltNames
<1> QED BY <1>1, <1>3, <1>4, <1>5, ScriptLengths, UpgradesDropNothing DEF Leads

LEMMA IdentityDomainDownLeads == Leads(IdentityDomainDown, 2, 1)
<1> DEFINE S == IdentityDomainDown
<1>1. \A i \in 1..13 : S[i] # stamp
  BY DEF IdentityDomainDown, stamp, drop_table, drop_enum, drop_schema
<1>2. \A k \in 0..13 : CreatedBy(S, k) = {}
  BY DowngradesCreateNothing, Downgrading
<1>3. \A i \in 1..13 : Drops(S[i]) \cup Touches(S[i]) \subseteq Names
  BY AllNames, TableTargets, IndexNames
     DEF IdentityDomainDown, Drops, Touches, drop_table, drop_enum, drop_schema,
         CoreNames, SessionNames, AuditNames, CustomerNames, AddressNames
<1>4. (Built(2) \ DroppedBy(S, 13)) \cup CreatedBy(S, 13) = Built(1)
  BY <1>2, DowngradesDrop, BuiltNames
     DEF CoreNames, SessionNames, AuditNames, CustomerNames, AddressNames
<1>5. \A i \in 1..13 : i - 1 \in 0..13
  OBVIOUS
<1> QED BY <1>1, <1>2, <1>3, <1>4, <1>5, ScriptLengths, DowngradesCreateNothing DEF Leads

LEMMA SessionsUpLeads == Leads(SessionsUp, 3, 4)
<1> DEFINE S == SessionsUp
<1>1. \A i \in 1..5 : S[i] # stamp
  BY DEF SessionsUp, stamp, create_table, create_index
<1>2. \A k \in 0..5 : DroppedBy(S, k) = {}
  BY UpgradesDropNothing, Upgrading
<1>3. \A i \in 1..5 : Creates(S[i]) \cup Touches(S[i]) \subseteq Names
  BY AllNames, TableTargets, TableEnums
     DEF SessionsUp, Creates, Touches, create_table, create_index,
         CoreNames, SessionNames, AuditNames, CustomerNames, AddressNames
<1>4. \A i \in 1..5 : Creates(S[i]) \cap IndexesOn("users") = {}
  BY IndexNames DEF SessionsUp, Creates, create_table, create_index
<1>5. (Built(3) \ DroppedBy(S, 5)) \cup CreatedBy(S, 5) = Built(4)
  BY <1>2, UpgradesCreate, BuiltNames
<1> QED BY <1>1, <1>3, <1>4, <1>5, ScriptLengths, UpgradesDropNothing DEF Leads

LEMMA SessionsDownLeads == Leads(SessionsDown, 4, 3)
<1> DEFINE S == SessionsDown
<1>1. \A i \in 1..2 : S[i] # stamp
  BY DEF SessionsDown, stamp, drop_table
<1>2. \A k \in 0..2 : CreatedBy(S, k) = {}
  BY DowngradesCreateNothing, Downgrading
<1>3. \A i \in 1..2 : Drops(S[i]) \cup Touches(S[i]) \subseteq Names
  BY AllNames, TableTargets, IndexNames
     DEF SessionsDown, Drops, Touches, drop_table,
         CoreNames, SessionNames, AuditNames, CustomerNames, AddressNames
<1>4. (Built(4) \ DroppedBy(S, 2)) \cup CreatedBy(S, 2) = Built(3)
  BY <1>2, DowngradesDrop, BuiltNames
     DEF CoreNames, SessionNames, AuditNames, CustomerNames, AddressNames
<1>5. \A i \in 1..2 : i - 1 \in 0..2
  OBVIOUS
<1> QED BY <1>1, <1>2, <1>3, <1>4, <1>5, ScriptLengths, DowngradesCreateNothing DEF Leads

LEMMA AuditUpLeads == Leads(AuditUp, 4, 5)
<1> DEFINE S == AuditUp
<1>1. \A i \in 1..5 : S[i] # stamp
  BY DEF AuditUp, stamp, create_schema, create_table, create_index
<1>2. \A k \in 0..5 : DroppedBy(S, k) = {}
  BY UpgradesDropNothing, Upgrading
<1>3. \A i \in 1..5 : Creates(S[i]) \cup Touches(S[i]) \subseteq Names
  BY AllNames, TableTargets, TableEnums
     DEF AuditUp, Creates, Touches, create_schema, create_table, create_index,
         CoreNames, SessionNames, AuditNames, CustomerNames, AddressNames
<1>4. \A i \in 1..5 : Creates(S[i]) \cap IndexesOn("users") = {}
  BY IndexNames DEF AuditUp, Creates, create_schema, create_table, create_index
<1>5. (Built(4) \ DroppedBy(S, 5)) \cup CreatedBy(S, 5) = Built(5)
  BY <1>2, UpgradesCreate, BuiltNames
<1> QED BY <1>1, <1>3, <1>4, <1>5, ScriptLengths, UpgradesDropNothing DEF Leads

LEMMA AuditDownLeads == Leads(AuditDown, 5, 4)
<1> DEFINE S == AuditDown
<1>1. \A i \in 1..2 : S[i] # stamp
  BY DEF AuditDown, stamp, drop_table, drop_schema_cascade
<1>2. \A k \in 0..2 : CreatedBy(S, k) = {}
  BY DowngradesCreateNothing, Downgrading
<1>3. \A i \in 1..2 : Drops(S[i]) \cup Touches(S[i]) \subseteq Names
  BY AllNames, TableTargets, IndexNames, WithinNames
     DEF AuditDown, Drops, Touches, drop_table, drop_schema_cascade,
         CoreNames, SessionNames, AuditNames, CustomerNames, AddressNames
<1>4. (Built(5) \ DroppedBy(S, 2)) \cup CreatedBy(S, 2) = Built(4)
  BY <1>2, DowngradesDrop, BuiltNames
     DEF CoreNames, SessionNames, AuditNames, CustomerNames, AddressNames
<1>5. \A i \in 1..2 : i - 1 \in 0..2
  OBVIOUS
<1> QED BY <1>1, <1>2, <1>3, <1>4, <1>5, ScriptLengths, DowngradesCreateNothing DEF Leads

LEMMA CustomerUpLeads == Leads(CustomerUp, 5, 6)
<1> DEFINE S == CustomerUp
<1>1. \A i \in 1..6 : S[i] # stamp
  BY DEF CustomerUp, stamp, create_schema, create_enum, create_table, create_index
<1>2. \A k \in 0..6 : DroppedBy(S, k) = {}
  BY UpgradesDropNothing, Upgrading
<1>3. \A i \in 1..6 : Creates(S[i]) \cup Touches(S[i]) \subseteq Names
  BY AllNames, TableTargets, TableEnums
     DEF CustomerUp, Creates, Touches, create_schema, create_enum, create_table, create_index,
         CoreNames, SessionNames, AuditNames, CustomerNames, AddressNames
<1>4. \A i \in 1..6 : Creates(S[i]) \cap IndexesOn("users") = {}
  BY IndexNames DEF CustomerUp, Creates, create_schema, create_enum, create_table, create_index
<1>5. (Built(5) \ DroppedBy(S, 6)) \cup CreatedBy(S, 6) = Built(6)
  BY <1>2, UpgradesCreate, BuiltNames
<1> QED BY <1>1, <1>3, <1>4, <1>5, ScriptLengths, UpgradesDropNothing DEF Leads

LEMMA CustomerDownLeads == Leads(CustomerDown, 6, 5)
<1> DEFINE S == CustomerDown
<1>1. \A i \in 1..4 : S[i] # stamp
  BY DEF CustomerDown, stamp, drop_table, drop_enum, drop_schema
<1>2. \A k \in 0..4 : CreatedBy(S, k) = {}
  BY DowngradesCreateNothing, Downgrading
<1>3. \A i \in 1..4 : Drops(S[i]) \cup Touches(S[i]) \subseteq Names
  BY AllNames, TableTargets, IndexNames
     DEF CustomerDown, Drops, Touches, drop_table, drop_enum, drop_schema,
         CoreNames, SessionNames, AuditNames, CustomerNames, AddressNames
<1>4. (Built(6) \ DroppedBy(S, 4)) \cup CreatedBy(S, 4) = Built(5)
  BY <1>2, DowngradesDrop, BuiltNames
     DEF CoreNames, SessionNames, AuditNames, CustomerNames, AddressNames
<1>5. \A i \in 1..4 : i - 1 \in 0..4
  OBVIOUS
<1> QED BY <1>1, <1>2, <1>3, <1>4, <1>5, ScriptLengths, DowngradesCreateNothing DEF Leads

LEMMA SavedAddressesUpLeads == Leads(SavedAddressesUp, 6, 7)
<1> DEFINE S == SavedAddressesUp
<1>1. \A i \in 1..3 : S[i] # stamp
  BY DEF SavedAddressesUp, stamp, create_table, create_index
<1>2. \A k \in 0..3 : DroppedBy(S, k) = {}
  BY UpgradesDropNothing, Upgrading
<1>3. \A i \in 1..3 : Creates(S[i]) \cup Touches(S[i]) \subseteq Names
  BY AllNames, TableTargets, TableEnums
     DEF SavedAddressesUp, Creates, Touches, create_table, create_index,
         CoreNames, SessionNames, AuditNames, CustomerNames, AddressNames
<1>4. \A i \in 1..3 : Creates(S[i]) \cap IndexesOn("users") = {}
  BY IndexNames DEF SavedAddressesUp, Creates, create_table, create_index
<1>5. (Built(6) \ DroppedBy(S, 3)) \cup CreatedBy(S, 3) = Built(7)
  BY <1>2, UpgradesCreate, BuiltNames
<1> QED BY <1>1, <1>3, <1>4, <1>5, ScriptLengths, UpgradesDropNothing DEF Leads

LEMMA SavedAddressesDownLeads == Leads(SavedAddressesDown, 7, 6)
<1> DEFINE S == SavedAddressesDown
<1>1. \A i \in 1..1 : S[i] # stamp
  BY DEF SavedAddressesDown, stamp, drop_table
<1>2. \A k \in 0..1 : CreatedBy(S, k) = {}
  BY DowngradesCreateNothing, Downgrading
<1>3. \A i \in 1..1 : Drops(S[i]) \cup Touches(S[i]) \subseteq Names
  BY AllNames, TableTargets, IndexNames
     DEF SavedAddressesDown, Drops, Touches, drop_table,
         CoreNames, SessionNames, AuditNames, CustomerNames, AddressNames
<1>4. (Built(7) \ DroppedBy(S, 1)) \cup CreatedBy(S, 1) = Built(6)
  BY <1>2, DowngradesDrop, BuiltNames
     DEF CoreNames, SessionNames, AuditNames, CustomerNames, AddressNames
<1>5. \A i \in 1..1 : i - 1 \in 0..1
  OBVIOUS
<1> QED BY <1>1, <1>2, <1>3, <1>4, <1>5, ScriptLengths, DowngradesCreateNothing DEF Leads

LEMMA EmailUniquenessUpLeads == Leads(EmailUniquenessUp, 2, 3)
<1> DEFINE S == EmailUniquenessUp
<1>1. \A i \in 1..2 : S[i] # stamp
  BY DEF EmailUniquenessUp, stamp, drop_index, create_index
<1>2. \A i \in 1..2 : Creates(S[i]) \cup Drops(S[i]) \cup Touches(S[i]) \subseteq Names
  BY AllNames DEF EmailUniquenessUp, Creates, Drops, Touches, drop_index, create_index, CoreNames
<1>3. \A i \in 1..2 : Drops(S[i]) \cap CreatedBy(S, i - 1) = {}
  BY DEF EmailUniquenessUp, Creates, Drops, CreatedBy, drop_index, create_index
<1>4. \A i \in 1..2 : Creates(S[i]) \cap IndexesOn("users") # {}
                          => S[i].op = "create_index" /\ S[i].table = "users"
  BY DEF EmailUniquenessUp, Creates, drop_index, create_index
<1>5. (Built(2) \ DroppedBy(S, 2)) \cup CreatedBy(S, 2) = Built(3)
  BY EmailScripts, BuiltNames DEF CoreNames
<1> QED BY <1>1, <1>2, <1>3, <1>4, <1>5, ScriptLengths DEF Leads

LEMMA EmailUniquenessDownLeads == Leads(EmailUniquenessDown, 3, 2)
<1> DEFINE S == EmailUniquenessDown
<1>1. \A i \in 1..2 : S[i] # stamp
  BY DEF EmailUniquenessDown, stamp, drop_index, create_index
<1>2. \A i \in 1..2 : Creates(S[i]) \cup Drops(S[i]) \cup Touches(S[i]) \subseteq Names
  BY AllNames DEF EmailUniquenessDown, Creates, Drops, Touches, drop_index, create_index, CoreNames
<1>3. \A i \in 1..2 : Drops(S[i]) \cap CreatedBy(S, i - 1) = {}
  BY DEF EmailUniquenessDown, Creates, Drops, CreatedBy, drop_index, create_index
<1>4. \A i \in 1..2 : Creates(S[i]) \cap IndexesOn("users") # {}
                          => S[i].op = "create_index" /\ S[i].table = "users"
  BY DEF EmailUniquenessDown, Creates, drop_index, create_index
<1>5. (Built(3) \ DroppedBy(S, 2)) \cup CreatedBy(S, 2) = Built(2)
  BY EmailScripts, BuiltNames DEF CoreNames
<1> QED BY <1>1, <1>2, <1>3, <1>4, <1>5, ScriptLengths DEF Leads

LEMMA WhichUpgrade ==
  ASSUME NEW c \in Command, Up(c)
  PROVE  /\ NextRev(c) = c.rev + 1
         /\ \/ c.rev = 0 /\ Script(c) = <<>>
            \/ c.rev = 1 /\ Script(c) = IdentityDomainUp
            \/ c.rev = 2 /\ Script(c) = EmailUniquenessUp
            \/ c.rev = 3 /\ Script(c) = SessionsUp
            \/ c.rev = 4 /\ Script(c) = AuditUp
            \/ c.rev = 5 /\ Script(c) = CustomerUp
            \/ c.rev = 6 /\ Script(c) = SavedAddressesUp
<1>1. Script(c) = Upgrades[c.rev + 1] /\ NextRev(c) = c.rev + 1
  BY DEF Script, NextRev
<1>2. c.rev \in 0..6
  BY DEF Up, Command, Latest
<1>3. /\ Upgrades[1] = <<>> /\ Upgrades[2] = IdentityDomainUp /\ Upgrades[3] = EmailUniquenessUp
      /\ Upgrades[4] = SessionsUp /\ Upgrades[5] = AuditUp /\ Upgrades[6] = CustomerUp
      /\ Upgrades[7] = SavedAddressesUp
  BY DEF Upgrades
<1> QED BY <1>1, <1>2, <1>3

LEMMA WhichDowngrade ==
  ASSUME NEW c \in Command, c.rev # c.to, ~Up(c)
  PROVE  /\ NextRev(c) = c.rev - 1
         /\ \/ c.rev = 1 /\ Script(c) = <<>>
            \/ c.rev = 2 /\ Script(c) = IdentityDomainDown
            \/ c.rev = 3 /\ Script(c) = EmailUniquenessDown
            \/ c.rev = 4 /\ Script(c) = SessionsDown
            \/ c.rev = 5 /\ Script(c) = AuditDown
            \/ c.rev = 6 /\ Script(c) = CustomerDown
            \/ c.rev = 7 /\ Script(c) = SavedAddressesDown
<1>1. Script(c) = Downgrades[c.rev] /\ NextRev(c) = c.rev - 1
  BY DEF Script, NextRev
<1>2. c.rev \in 1..7
  BY DEF Up, Command, Latest
<1>3. /\ Downgrades[1] = <<>> /\ Downgrades[2] = IdentityDomainDown
      /\ Downgrades[3] = EmailUniquenessDown /\ Downgrades[4] = SessionsDown
      /\ Downgrades[5] = AuditDown /\ Downgrades[6] = CustomerDown
      /\ Downgrades[7] = SavedAddressesDown
  BY DEF Downgrades
<1> QED BY <1>1, <1>2, <1>3

LEMMA ScriptLeads ==
  ASSUME NEW c \in Command, c.rev # c.to
  PROVE  Leads(Script(c), c.rev, NextRev(c)) /\ NextRev(c) \in 0..Latest
<1>1. CASE Up(c)
  BY <1>1, WhichUpgrade, SchemasFirst, IdentityDomainUpLeads, EmailUniquenessUpLeads,
     SessionsUpLeads, AuditUpLeads, CustomerUpLeads, SavedAddressesUpLeads DEF Latest
<1>2. CASE ~Up(c)
  BY <1>2, WhichDowngrade, SchemasFirst, IdentityDomainDownLeads, EmailUniquenessDownLeads,
     SessionsDownLeads, AuditDownLeads, CustomerDownLeads, SavedAddressesDownLeads DEF Latest
<1> QED BY <1>1, <1>2

\* The table users is there from the second revision on.
LEMMA UsersBuilt == \A v \in 0..Latest : "users" \in Built(v) <=> v >= 2
  BY BuiltNames DEF CoreNames, Latest

\* Only one statement creates it.
LEMMA UsersIsSeventh ==
  /\ IdentityDomainUp[7] = create_table("users")
  /\ \A j \in 1..22 : IdentityDomainUp[j].name = "users" => j = 7
<1>1. IdentityDomainUp[7] = create_table("users")
  BY DEF IdentityDomainUp
<1>2. \A j \in 1..22 : IdentityDomainUp[j].name = "users" => j = 7
  BY DEF IdentityDomainUp, create_schema, create_enum, create_table, create_index
<1> QED BY <1>1, <1>2

LEMMA UsersCreated ==
  ASSUME NEW c \in Command, c.rev # c.to,
         NEW i \in 1..Len(Script(c)), "users" \in Creates(Script(c)[i])
  PROVE  /\ Up(c) /\ c.rev = 1 /\ Script(c) = IdentityDomainUp
         /\ Script(c)[i] = create_table("users")
<1>1. ASSUME NEW S, NEW n \in Nat, Len(S) = n, "users" \notin CreatedBy(S, n)
      PROVE  Script(c) # S
  BY <1>1 DEF CreatedBy
<1>2. /\ "users" \notin CreatedBy(EmailUniquenessUp, 2)
      /\ "users" \notin CreatedBy(EmailUniquenessDown, 2)
  BY EmailScripts
<1>3. /\ "users" \notin CreatedBy(SessionsUp, 5) /\ "users" \notin CreatedBy(AuditUp, 5)
      /\ "users" \notin CreatedBy(CustomerUp, 6) /\ "users" \notin CreatedBy(SavedAddressesUp, 3)
  BY UpgradesCreate DEF SessionNames, AuditNames, CustomerNames, AddressNames
<1>4. /\ "users" \notin CreatedBy(IdentityDomainDown, 13)
      /\ "users" \notin CreatedBy(SessionsDown, 2) /\ "users" \notin CreatedBy(AuditDown, 2)
      /\ "users" \notin CreatedBy(CustomerDown, 4) /\ "users" \notin CreatedBy(SavedAddressesDown, 1)
  BY DowngradesCreateNothing DEF CreatedBy
<1>5. Len(<<>>) = 0 /\ "users" \notin CreatedBy(<<>>, 0)
  BY NothingYet
<1>6. Up(c) /\ c.rev = 1 /\ Script(c) = IdentityDomainUp
  <2>1. CASE Up(c)
    BY <1>1, <1>2, <1>3, <1>5, <2>1, ScriptLengths, WhichUpgrade
  <2>2. CASE ~Up(c)
    BY <1>1, <1>2, <1>4, <1>5, <2>2, ScriptLengths, WhichDowngrade
  <2> QED BY <2>1, <2>2
<1>7. Script(c)[i].name = "users"
  BY DEF Creates
<1> QED BY <1>6, <1>7, UsersIsSeventh, ScriptLengths

-----------------------------------------------------------------------------
(* The rows of the version table *)

LEMMA HighestRow ==
  ASSUME NEW H \in SUBSET (1..Latest)
  PROVE  /\ Max(H \cup {0}) \in H \cup {0}
         /\ \A w \in H : w <= Max(H \cup {0})
         /\ \A v \in H \cup {0} : (\A w \in H : w <= v) => Max(H \cup {0}) = v
<1> DEFINE top(v) == v \in H \cup {0} /\ \A w \in H \cup {0} : v >= w
<1>1. \A w \in H \cup {0} : w \in 0..7
  BY DEF Latest
<1>2. \E v : top(v)
  <2>1. CASE 7 \in H
    BY <1>1, <2>1
  <2>2. CASE 7 \notin H /\ 6 \in H
    BY <1>1, <2>2
  <2>3. CASE 7 \notin H /\ 6 \notin H /\ 5 \in H
    BY <1>1, <2>3
  <2>4. CASE 7 \notin H /\ 6 \notin H /\ 5 \notin H /\ 4 \in H
    BY <1>1, <2>4
  <2>5. CASE 7 \notin H /\ 6 \notin H /\ 5 \notin H /\ 4 \notin H /\ 3 \in H
    BY <1>1, <2>5
  <2>6. CASE 7 \notin H /\ 6 \notin H /\ 5 \notin H /\ 4 \notin H /\ 3 \notin H /\ 2 \in H
    BY <1>1, <2>6
  <2>7. CASE 7 \notin H /\ 6 \notin H /\ 5 \notin H /\ 4 \notin H /\ 3 \notin H /\ 2 \notin H
    <3>1. CASE 1 \in H
      BY <1>1, <2>7, <3>1
    <3>2. CASE 1 \notin H
      BY <1>1, <2>7, <3>2
    <3> QED BY <3>1, <3>2
  <2> QED BY <2>1, <2>2, <2>3, <2>4, <2>5, <2>6, <2>7
<1>3. Max(H \cup {0}) = CHOOSE v \in H \cup {0} : \A w \in H \cup {0} : v >= w
  BY DEF Max
<1>4. top(Max(H \cup {0}))
  BY <1>2, <1>3
<1>5. ASSUME NEW v \in H \cup {0}, \A w \in H : w <= v PROVE Max(H \cup {0}) = v
  <2> DEFINE x == Max(H \cup {0})
  <2>1. x \in H \cup {0} /\ x >= v
    BY <1>4
  <2>2. x \in 0..7 /\ v \in 0..7
    BY <1>1, <2>1
  <2>3. x <= v
    BY <1>5, <2>1, <2>2
  <2> HIDE DEF x
  <2>4. x = v
    BY <2>1, <2>2, <2>3
  <2> QED BY <2>4 DEF x
<1> QED BY <1>1, <1>4, <1>5

LEMMA VersionIsHighest ==
  ASSUME TypeOK
  PROVE  version \in heads \cup {0} /\ version \in 0..Latest /\ \A w \in heads : w <= version
  BY HighestRow DEF TypeOK, version, Latest

\* A command keeps the rows at both ends of its way locked, and the first if it
\* has been at it or below.
LEMMA StampedEnds ==
  ASSUME NEW c \in Command, c.rev # c.from
  PROVE  /\ c.from # 0 => c.from \in Stamped(c)
         /\ c.rev # 0 => c.rev \in Stamped(c)
         /\ c.from <= 1 \/ c.rev <= 1 => 1 \in Stamped(c)
<1>1. c.from \in 0..7 /\ c.rev \in 0..7
  BY DEF Command, Latest
<1>2. Stamped(c) = {v \in 1..7 : (c.from <= v /\ v <= c.rev) \/ (c.rev <= v /\ v <= c.from)}
  BY DEF Stamped, Latest
<1> QED BY <1>1, <1>2

-----------------------------------------------------------------------------
(* The invariant *)

LEMMA IdleIsSound ==
  /\ Idle \in Command /\ Underway(Idle) /\ OnTrack(Idle) /\ Stamped(Idle) = {}
  /\ Idle.from = 0 /\ Idle.rev = 0 /\ Idle.added = {} /\ Idle.removed = {} /\ Idle.locks = {}
<1>1. Idle \in Command
  BY DEF Idle, Command, Latest
<1>2. Underway(Idle)
  BY DEF Idle, Underway
<1>3. OnTrack(Idle)
  BY NothingYet DEF Idle, OnTrack, Reached
<1>4. Stamped(Idle) = {}
  BY DEF Idle, Stamped
<1> QED BY <1>1, <1>2, <1>3, <1>4 DEF Idle

LEMMA NoRows == \A i : Satisfied(i, {})
  BY DEF Satisfied

LEMMA InitInv == Init => Inv
<1> SUFFICES ASSUME Init PROVE Inv
  OBVIOUS
<1>1. /\ objects = {} /\ heads = {} /\ accounts = {} /\ run = [m \in Migrators |-> Idle]
  BY DEF Init
<1>2. TypeOK
  BY <1>1, IdleIsSound DEF TypeOK
<1>3. \A m \in Migrators : run[m] = Idle
  BY <1>1
<1>4. \A m \in Migrators : /\ Underway(run[m]) /\ OnTrack(run[m])
                           /\ KnowsVersion(run[m]) /\ UsersOnce(run[m])
  BY <1>3, IdleIsSound DEF KnowsVersion, UsersOnce
<1>5. LocksExclude
  BY <1>3, IdleIsSound DEF LocksExclude
<1>6. version = 0
  BY <1>1, <1>2, VersionIsHighest
<1>7. CatalogMatchesVersion /\ OneStray
  BY <1>1, <1>6, BuiltNames DEF CatalogMatchesVersion, OneStray
<1>8. RowsSatisfyIndexes
  BY <1>1, <1>3, IdleIsSound DEF RowsSatisfyIndexes
<1> QED BY <1>2, <1>4, <1>5, <1>7, <1>8 DEF Inv

\* One command moves and nothing is committed.
LEMMA CommandMoves ==
  ASSUME Inv, NEW m \in Migrators, NEW c \in Command,
         run' = [run EXCEPT ![m] = c], UNCHANGED <<objects, heads, accounts>>,
         Underway(c), OnTrack(c), KnowsVersion(c), UsersOnce(c),
         \A n \in Migrators \ {m} : /\ c.locks \cap run[n].locks = {}
                                    /\ Stamped(c) \cap Stamped(run[n]) = {},
         \A i \in c.added \cap IndexesOn("users") : Satisfied(i, accounts) /\ "users" \in c.locks
  PROVE  Inv'
<1>1. run \in [Migrators -> Command]
  BY DEF Inv, TypeOK
<1>2. run'[m] = c /\ \A n \in Migrators \ {m} : run'[n] = run[n]
  BY <1>1
<1>3. TypeOK'
  BY <1>1 DEF Inv, TypeOK
<1>4. version' = version
  BY DEF version
<1>5. \A n \in Migrators : Underway(run'[n]) /\ OnTrack(run'[n])
  BY <1>2 DEF Inv
<1>6. \A n \in Migrators : KnowsVersion(run[n])'
  BY <1>2, <1>4 DEF Inv, KnowsVersion, Astray
<1>7. \A n \in Migrators : UsersOnce(run[n])'
  BY <1>2 DEF Inv, UsersOnce
<1>8. LocksExclude'
  BY <1>2 DEF Inv, LocksExclude
<1>9. CatalogMatchesVersion' /\ OneStray'
  BY <1>4 DEF Inv, CatalogMatchesVersion, OneStray
<1>10. RowsSatisfyIndexes'
  BY <1>2 DEF Inv, RowsSatisfyIndexes
<1> QED BY <1>3, <1>5, <1>6, <1>7, <1>8, <1>9, <1>10 DEF Inv

LEMMA Ended ==
  ASSUME Inv, NEW m \in Migrators,
         run' = [run EXCEPT ![m] = Idle], UNCHANGED <<objects, heads, accounts>>
  PROVE  Inv'
<1>1. KnowsVersion(Idle) /\ UsersOnce(Idle)
  BY IdleIsSound DEF KnowsVersion, UsersOnce
<1> QED BY <1>1, IdleIsSound, CommandMoves

LEMMA StartInv ==
  ASSUME Inv, NEW m \in Migrators, Start(m)
  PROVE  Inv'
<1>1. PICK to \in (Goals \cap 0..Latest) \ {version} :
        run' = [run EXCEPT ![m] = [Idle EXCEPT !.from = version, !.rev = version, !.to = to]]
  BY DEF Start
<1> DEFINE c == [Idle EXCEPT !.from = version, !.rev = version, !.to = to]
<1>2. version \in 0..Latest
  BY VersionIsHighest DEF Inv
<1>3. /\ c.from = version /\ c.rev = version /\ c.to = to /\ c.at = 0
      /\ c.added = {} /\ c.removed = {} /\ c.locks = {}
  BY DEF Idle
<1>4. c \in Command
  BY <1>2 DEF Command, Idle
<1>5. run' = [run EXCEPT ![m] = c] /\ UNCHANGED <<objects, heads, accounts>>
  BY <1>1 DEF Start
<1> HIDE DEF c
<1>6. Underway(c)
  BY <1>2, <1>3 DEF Underway, Latest
<1>7. OnTrack(c)
  BY <1>3, NothingYet DEF OnTrack, Reached
<1>8. Stamped(c) = {}
  BY <1>3 DEF Stamped
<1>9. KnowsVersion(c) /\ UsersOnce(c)
  BY <1>2, <1>3 DEF KnowsVersion, UsersOnce, Latest
<1> QED BY <1>3, <1>4, <1>5, <1>6, <1>7, <1>8, <1>9, CommandMoves

LEMMA LocksOfOthers ==
  ASSUME Inv, NEW m \in Migrators, Proceeds(m), NextStatement(m) # stamp
  PROVE  \A n \in Migrators \ {m} :
           (run[m].locks \cup Touches(NextStatement(m))) \cap run[n].locks = {}
<1>1. \A n \in Migrators \ {m} : Touches(NextStatement(m)) \cap run[n].locks = {}
  BY DEF Proceeds, Waiting, WaitsFor, Meets
<1>2. \A n \in Migrators \ {m} : run[m].locks \cap run[n].locks = {}
  BY DEF Inv, LocksExclude
<1> QED BY <1>1, <1>2

\* A command goes one way only, away from where it started.
LEMMA GoesOneWay ==
  ASSUME NEW c \in Command, Underway(c), c.rev # c.to
  PROVE  /\ Up(c) => c.from <= c.rev /\ c.from < c.to
         /\ ~Up(c) => c.rev <= c.from /\ c.to < c.from
         /\ NextRev(c) # c.from
<1>1. c.from \in 0..7 /\ c.to \in 0..7 /\ c.rev \in 0..7
  BY DEF Command, Latest
<1> QED BY <1>1 DEF Underway, Up, NextRev

LEMMA ExecuteInv ==
  ASSUME Inv, NEW m \in Migrators, Execute(m)
  PROVE  Inv'
<1> DEFINE b == run[m]
           S == Script(b)
           q == NextStatement(m)
           k == b.at + 1
           c == [b EXCEPT !.at = k, !.added = (b.added \ Drops(q)) \cup Creates(q),
                          !.removed = (b.removed \cup Drops(q)) \ Creates(q),
                          !.locks = b.locks \cup Touches(q)]
<1>1. run \in [Migrators -> Command] /\ b \in Command
  BY DEF Inv, TypeOK
<1>2. /\ Proceeds(m) /\ Succeeds(m) /\ q # stamp /\ UNCHANGED <<objects, heads, accounts>>
      /\ run' = [run EXCEPT ![m] = c]
  BY <1>1 DEF Execute
<1>3. b.rev # b.to /\ Leads(S, b.rev, NextRev(b))
  BY <1>1, <1>2, ScriptLeads DEF Proceeds, HasNext
<1>4. Underway(b) /\ OnTrack(b) /\ b.at \in Nat /\ Len(S) \in Nat
  BY <1>1, <1>3 DEF Inv, Command, Leads
<1>5. k \in 1..Len(S) /\ q = S[k]
  BY <1>2, <1>4 DEF NextStatement
<1>6. /\ c.from = b.from /\ c.to = b.to /\ c.rev = b.rev /\ c.at = k
      /\ c.added = (b.added \ Drops(q)) \cup Creates(q)
      /\ c.removed = (b.removed \cup Drops(q)) \ Creates(q)
      /\ c.locks = b.locks \cup Touches(q)
  BY <1>1 DEF Command
<1>7. Creates(q) \cup Drops(q) \cup Touches(q) \subseteq Names
  BY <1>3, <1>5 DEF Leads
<1>8. c \in Command
  <2>1. /\ (b.added \ Drops(q)) \cup Creates(q) \in SUBSET Names
        /\ (b.removed \cup Drops(q)) \ Creates(q) \in SUBSET Names
        /\ b.locks \cup Touches(q) \in SUBSET Names
    BY <1>1, <1>7 DEF Command
  <2>2. k \in Nat
    BY <1>4
  <2> HIDE DEF q, k
  <2> QED BY <1>1, <2>1, <2>2 DEF Command
<1> HIDE DEF c
<1>9. Underway(c)
  BY <1>3, <1>4, <1>5, <1>6 DEF Underway, Up, Script, Idle
<1>10. OnTrack(c)
  <2>1. Script(c) = S
    BY <1>6 DEF Script, Up
  <2>2. /\ DroppedBy(S, k) = DroppedBy(S, b.at) \cup Drops(q)
        /\ CreatedBy(S, k) = CreatedBy(S, b.at) \cup Creates(q)
    <3>1. 1..k = (1..b.at) \cup {k}
      BY <1>4
    <3> QED BY <1>5, <3>1 DEF DroppedBy, CreatedBy
  <2>3. Drops(q) \cap CreatedBy(S, b.at) = {}
    BY <1>3, <1>4, <1>5 DEF Leads
  <2>4. (Built(b.from) \ b.removed) \cup b.added
          = (Built(b.rev) \ DroppedBy(S, b.at)) \cup CreatedBy(S, b.at)
    BY <1>4 DEF OnTrack, Reached
  <2> QED BY <1>6, <2>1, <2>2, <2>3, <2>4 DEF OnTrack, Reached
<1>11. \A n \in Migrators \ {m} : /\ c.locks \cap run[n].locks = {}
                                   /\ Stamped(c) \cap Stamped(run[n]) = {}
  <2>1. Stamped(c) = Stamped(b)
    BY <1>6 DEF Stamped
  <2> QED BY <1>2, <1>6, <2>1, LocksOfOthers DEF Inv, LocksExclude
<1>12. "users" \in Creates(q) => /\ b.from <= 1 /\ b.rev = 1 /\ k = 7
                                 /\ "users" \in Touches(q) /\ "users" \notin objects
  <2> SUFFICES ASSUME "users" \in Creates(q)
               PROVE  /\ b.from <= 1 /\ b.rev = 1 /\ k = 7
                      /\ "users" \in Touches(q) /\ "users" \notin objects
    OBVIOUS
  <2>1. Up(b) /\ b.rev = 1 /\ S = IdentityDomainUp /\ q = create_table("users")
    BY <1>1, <1>3, <1>5, UsersCreated
  <2>2. b.from <= 1
    BY <1>1, <1>3, <1>4, <2>1, GoesOneWay
  <2>3. k = 7
    BY <1>5, <2>1, ScriptLengths, UsersIsSeventh DEF create_table
  <2>4. "users" \in Touches(q) /\ "users" \notin View(m)
    BY <1>2, <2>1 DEF Touches, Succeeds, Possible, create_table
  <2>5. b.removed = {}
    BY <2>1, <2>2 DEF Inv, UsersOnce
  <2> QED BY <2>1, <2>2, <2>3, <2>4, <2>5 DEF View
<1>13. KnowsVersion(c)
  <2>1. KnowsVersion(b)
    BY DEF Inv
  <2>2. Astray(b) => Astray(c)
    <3> SUFFICES ASSUME version >= 2, b.from = 0, b.rev = 1, b.at = 6 PROVE FALSE
      BY <1>3, <1>4, <1>6, GoesOneWay, <1>1 DEF Astray, Up, Command, Latest
    <3>1. Up(b)
      BY <1>1, <1>3, GoesOneWay, <1>4 DEF Command, Latest
    <3>2. S = IdentityDomainUp
      BY <1>1, <3>1, WhichUpgrade
    <3>3. "users" \in Creates(q)
      BY <1>5, <3>2, UsersIsSeventh DEF Creates, create_table
    <3>4. "users" \in objects
      BY VersionIsHighest, UsersBuilt DEF Inv, CatalogMatchesVersion
    <3> QED BY <1>12, <3>3, <3>4
  <2> QED BY <1>6, <2>1, <2>2 DEF KnowsVersion
<1>14. UsersOnce(c)
  <2>1. UsersOnce(b)
    BY DEF Inv
  <2>2. ASSUME b.from <= 1, b.rev <= 1 PROVE Drops(q) = {}
    <3>1. CASE Up(b)
      <4>1. S = <<>> \/ S = IdentityDomainUp
        BY <1>1, <2>2, <3>1, WhichUpgrade
      <4>2. S # <<>> /\ (S = IdentityDomainUp => k \in 1..22)
        BY <1>5, ScriptLengths
      <4> QED BY <1>5, <4>1, <4>2, UpgradesDropNothing
    <3>2. CASE ~Up(b)
      BY <1>1, <1>3, <1>5, <2>2, <3>2, WhichDowngrade
    <3> QED BY <3>1, <3>2
  <2>3. c.from <= 1 /\ c.rev <= 1 => c.removed = {}
    BY <1>6, <2>1, <2>2 DEF UsersOnce
  <2>4. "users" \in c.added => "users" \in c.locks /\ "users" \notin objects
    BY <1>6, <1>12, <2>1 DEF UsersOnce
  <2> QED BY <2>3, <2>4 DEF UsersOnce
<1>15. \A i \in c.added \cap IndexesOn("users") : Satisfied(i, accounts) /\ "users" \in c.locks
  <2> SUFFICES ASSUME NEW i \in c.added \cap IndexesOn("users")
               PROVE  Satisfied(i, accounts) /\ "users" \in c.locks
    OBVIOUS
  <2>1. CASE i \in b.added
    BY <1>6, <2>1 DEF Inv, RowsSatisfyIndexes
  <2>2. CASE i \in Creates(q)
    <3>1. q.op = "create_index" /\ q.table = "users" /\ i = q.name
      BY <1>3, <1>5, <2>2 DEF Leads, Creates
    <3>2. Possible(q, View(m))
      BY <1>2 DEF Succeeds
    <3>3. Satisfied(q.name, accounts)
      BY <3>1, <3>2 DEF Possible
    <3>4. "users" \in Touches(q)
      BY <3>1 DEF Touches
    <3> QED BY <1>6, <3>1, <3>3, <3>4
  <2> QED BY <1>6, <2>1, <2>2
<1> QED BY <1>2, <1>8, <1>9, <1>10, <1>11, <1>13,
          <1>14, <1>15, CommandMoves

LEMMA StampInv ==
  ASSUME Inv, NEW m \in Migrators, Stamp(m)
  PROVE  Inv'
<1> DEFINE b == run[m]
           S == Script(b)
           c == [b EXCEPT !.rev = NextRev(b), !.at = 0]
<1>1. run \in [Migrators -> Command] /\ b \in Command
  BY DEF Inv, TypeOK
<1>2. /\ Proceeds(m) /\ Succeeds(m) /\ NextStatement(m) = stamp
      /\ UNCHANGED <<objects, heads, accounts>> /\ run' = [run EXCEPT ![m] = c]
  BY <1>1 DEF Stamp
<1>3. b.rev # b.to /\ Leads(S, b.rev, NextRev(b)) /\ NextRev(b) \in 0..Latest
  BY <1>1, <1>2, ScriptLeads DEF Proceeds, HasNext
<1>4. Underway(b) /\ OnTrack(b) /\ b.at \in Nat /\ Len(S) \in Nat
  BY <1>1, <1>3 DEF Inv, Command, Leads
<1>5. b.at = Len(S)
  <2> SUFFICES ASSUME b.at < Len(S) PROVE FALSE
    BY <1>3, <1>4 DEF Underway
  <2>1. NextStatement(m) = S[b.at + 1] /\ b.at + 1 \in 1..Len(S)
    BY <1>4 DEF NextStatement
  <2> QED BY <1>2, <1>3, <2>1 DEF Leads
<1>6. RowFound(m) /\ NextRev(b) \notin Seen(m)
  BY <1>2 DEF Succeeds
<1>7. /\ c.from = b.from /\ c.to = b.to /\ c.rev = NextRev(b) /\ c.at = 0
      /\ c.added = b.added /\ c.removed = b.removed /\ c.locks = b.locks
  BY <1>1 DEF Command
<1>8. c \in Command
  BY <1>1, <1>3 DEF Command
<1> HIDE DEF c
<1>9. Underway(c)
  <2>1. /\ b.from \in 0..7 /\ b.to \in 0..7 /\ b.rev \in 0..7
    BY <1>1 DEF Command, Latest
  <2>2. b.from # b.to
    BY <1>3, <1>4 DEF Underway, Idle
  <2>3. IF b.from <= b.to THEN b.from <= NextRev(b) /\ NextRev(b) <= b.to
                          ELSE b.to <= NextRev(b) /\ NextRev(b) <= b.from
    <3>1. IF b.from <= b.to THEN b.from <= b.rev /\ b.rev <= b.to
                            ELSE b.to <= b.rev /\ b.rev <= b.from
      BY <1>4 DEF Underway
    <3>2. CASE b.rev < b.to
      <4>1. NextRev(b) = b.rev + 1 /\ b.from <= b.to
        BY <2>1, <3>1, <3>2 DEF NextRev, Up
      <4> QED BY <2>1, <3>1, <3>2, <4>1
    <3>3. CASE b.to < b.rev
      <4>1. NextRev(b) = b.rev - 1 /\ ~(b.from <= b.to)
        BY <2>1, <3>1, <3>3 DEF NextRev, Up
      <4> QED BY <2>1, <3>1, <3>3, <4>1
    <3> QED BY <1>3, <2>1, <3>2, <3>3
  <2>4. NextRev(b) # b.to => Len(Script(c)) \in Nat
    BY <1>7, <1>8, ScriptLeads DEF Leads
  <2> QED BY <1>7, <2>2, <2>3, <2>4 DEF Underway
<1>10. OnTrack(c)
  <2>1. (Built(b.rev) \ DroppedBy(S, b.at)) \cup CreatedBy(S, b.at) = Built(NextRev(b))
    BY <1>3, <1>5 DEF Leads
  <2>2. Reached(c) = Built(NextRev(b))
    BY <1>7, NothingYet DEF Reached
  <2> QED BY <1>4, <1>7, <2>1, <2>2 DEF OnTrack, Reached
<1>11. /\ b.from \in 0..7 /\ b.to \in 0..7 /\ b.rev \in 0..7
       /\ Up(b) => b.from <= b.rev /\ b.from < b.to /\ NextRev(b) = b.rev + 1
       /\ ~Up(b) => b.rev <= b.from /\ b.to < b.from /\ NextRev(b) = b.rev - 1
       /\ NextRev(b) # b.from
  BY <1>1, <1>3, <1>4, GoesOneWay DEF Command, Latest, NextRev
<1>12. \A n \in Migrators \ {m} : /\ c.locks \cap run[n].locks = {}
                                   /\ Stamped(c) \cap Stamped(run[n]) = {}
  <2> SUFFICES ASSUME NEW n \in Migrators \ {m}
               PROVE  Stamped(c) \cap Stamped(run[n]) = {}
    BY <1>7 DEF Inv, LocksExclude
  <2>1. {b.rev, NextRev(b)} \cap Stamped(run[n]) = {}
    BY <1>2, <1>6 DEF Proceeds, Waiting, WaitsFor, Meets
  <2>2. Stamped(b) \cap Stamped(run[n]) = {}
    BY DEF Inv, LocksExclude
  <2>3. Stamped(c) \subseteq Stamped(b) \cup {b.rev, NextRev(b)}
    BY <1>7, <1>11 DEF Stamped, Latest
  <2> QED BY <2>1, <2>2, <2>3
<1>13. UsersOnce(c)
  <2>1. UsersOnce(b)
    BY DEF Inv
  <2>2. ASSUME b.from <= 1, NextRev(b) <= 1 PROVE b.removed = {}
    <3>1. b.rev <= 1
      BY <1>11, <2>2
    <3> QED BY <2>1, <2>2, <3>1 DEF UsersOnce
  <2> QED BY <1>7, <2>1, <2>2 DEF UsersOnce
<1>14. /\ version \in heads \cup {0} /\ version \in 0..Latest
       /\ \A w \in heads : w <= version /\ (w = 1 \/ w = version)
  BY VersionIsHighest DEF Inv, OneStray
<1>15. KnowsVersion(b)
  BY DEF Inv
<1>16. b.from \in heads \cup {0} /\ (version = b.from \/ Astray(c))
  <2>1. CASE b.rev # b.from
    <3>1. ~Astray(b)
      <4>1. ASSUME b.from = 0, b.rev = 1 PROVE b.at = 22
        <5>1. Up(b)
          BY <1>11, <4>1
        <5>2. S = IdentityDomainUp
          BY <1>1, <4>1, <5>1, WhichUpgrade
        <5> QED BY <1>5, <5>2, ScriptLengths
      <4>2. ~(b.from = 1 /\ b.rev = 0)
        BY <1>11, <1>3
      <4> QED BY <4>1, <4>2 DEF Astray
    <3> QED BY <1>15, <2>1, <3>1 DEF KnowsVersion
  <2>2. CASE b.rev = b.from
    <3>1. Seen(m) = heads /\ b.from \in heads \cup {0} /\ NextRev(b) \notin heads
      BY <1>6, <2>2 DEF Seen, RowFound
    <3>2. CASE b.from = 0
      <4>1. c.rev = 1 /\ 1 \notin heads
        BY <1>7, <1>11, <2>2, <3>1, <3>2
      <4>2. version = 0 \/ version >= 2
        BY <1>14, <4>1 DEF Latest
      <4> QED BY <1>7, <3>1, <3>2, <4>1, <4>2 DEF Astray
    <3>3. CASE b.from >= 2
      BY <1>11, <1>14, <3>1, <3>3
    <3>4. CASE b.from = 1
      <4> SUFFICES ASSUME version # 1 PROVE Astray(c)
        BY <3>1, <3>4
      <4>1. version >= 2
        BY <1>14, <3>1, <3>4 DEF Latest
      <4>2. CASE Up(b)
        <5>1. S = IdentityDomainUp
          BY <1>1, <2>2, <3>4, <4>2, WhichUpgrade
        <5>2. b.at = 22
          BY <1>5, <5>1, ScriptLengths
        <5>3. "users" \in Reached(b)
          BY <5>1, <5>2, UpgradesCreate DEF Reached, CoreNames
        <5>4. "users" \in b.added
          BY <1>4, <3>4, <5>3, BuiltNames DEF OnTrack
        <5>5. "users" \in objects
          BY <1>14, <4>1, UsersBuilt DEF Inv, CatalogMatchesVersion
        <5> QED BY <5>4, <5>5 DEF Inv, UsersOnce
      <4>3. CASE ~Up(b)
        BY <1>7, <1>11, <2>2, <3>4, <4>1, <4>3 DEF Astray
      <4> QED BY <4>2, <4>3
    <3> QED BY <1>11, <3>2, <3>3, <3>4
  <2> QED BY <2>1, <2>2
<1>17. ASSUME b.from >= 2, NextRev(b) <= 1 PROVE 1 \notin heads
  <2>1. CASE NextRev(b) = 1
    <3>1. 1 \in heads => 1 \in Seen(m)
      BY <1>17 DEF Seen
    <3> QED BY <1>6, <2>1, <3>1
  <2>2. CASE NextRev(b) = 0
    <3>1. b.rev = 1
      BY <1>11, <1>17, <2>2
    <3> QED BY <1>15, <1>17, <3>1 DEF KnowsVersion
  <2> QED BY <1>3, <1>11, <1>17, <2>1, <2>2
<1>18. KnowsVersion(c)
  BY <1>7, <1>16, <1>17 DEF KnowsVersion
<1>19. \A i \in c.added \cap IndexesOn("users") : Satisfied(i, accounts) /\ "users" \in c.locks
  BY <1>7 DEF Inv, RowsSatisfyIndexes
<1> QED BY <1>2, <1>8, <1>9, <1>10, <1>12, <1>13, <1>18,
          <1>19, CommandMoves

\* What a command that is about to commit has reached.
LEMMA AtTheEnd ==
  ASSUME Inv, NEW m \in Migrators, Running(m), ~HasNext(m)
  PROVE  LET H == Seen(m)
             v == Max(H \cup {0})
         IN  /\ run[m].rev = run[m].to /\ run[m].to # run[m].from
             /\ run[m].from \in heads \cup {0}
             /\ H = (heads \ {run[m].from}) \cup ({run[m].to} \ {0})
             /\ H \in SUBSET (1..Latest) /\ H \subseteq {1, v}
             /\ View(m) = Built(v)
             /\ \/ version = run[m].from /\ v = run[m].to
                \/ version = v /\ Astray(run[m])
<1> DEFINE b == run[m]
           H == Seen(m)
           v == Max(H \cup {0})
<1>1. b \in Command /\ Underway(b) /\ OnTrack(b) /\ KnowsVersion(b) /\ UsersOnce(b)
  BY DEF Inv, TypeOK
<1>2. b # Idle /\ b.rev = b.to
  BY DEF Running, HasNext
<1>3. b.from # b.to /\ b.at = 0
  BY <1>1, <1>2 DEF Underway
<1>4. b.from \in heads \cup {0} /\ (version = b.from \/ Astray(b))
  BY <1>1, <1>2, <1>3 DEF KnowsVersion
<1>5. b.from \in 0..7 /\ b.to \in 0..7
  BY <1>1 DEF Command, Latest
<1>6. H = (heads \ {b.from}) \cup ({b.to} \ {0})
  BY <1>2, <1>3 DEF Seen
<1>7. /\ version \in heads \cup {0} /\ version \in 0..7
      /\ \A w \in heads : w \in 1..7 /\ w <= version /\ (w = 1 \/ w = version)
  BY VersionIsHighest DEF Inv, OneStray, TypeOK, Latest
<1>8. H \in SUBSET (1..Latest)
  <2>1. b.to # 0 => b.to \in 1..7
    BY <1>5
  <2>2. \A w \in H : w \in 1..7
    BY <1>6, <1>7, <2>1
  <2> QED BY <2>2 DEF Latest
<1>9. objects = Built(version)
  BY DEF Inv, CatalogMatchesVersion
<1>10. Reached(b) = Built(b.to)
  BY <1>2, <1>3, NothingYet DEF Reached
<1> HIDE DEF H, v
<1>11. \A w \in H \cup {0} : (\A x \in H : x <= w) => v = w
  BY <1>8, HighestRow DEF v
<1>12. CASE version = b.from
  <2>1. CASE b.to # 0
    <3>1. b.to \in H /\ \A w \in H : w = 1 \/ w = b.to
      BY <1>5, <1>6, <1>7, <1>12, <2>1
    <3>2. v = b.to
      BY <1>5, <1>11, <2>1, <3>1
    <3>3. View(m) = Built(b.to)
      BY <1>1, <1>9, <1>10, <1>12 DEF OnTrack, View
    <3> QED BY <1>2, <1>3, <1>4, <1>6, <1>8, <1>12, <3>1, <3>2, <3>3 DEF H, v
  <2>2. CASE b.to = 0
    <3>1. H = {}
      <4>1. b.from >= 2 => 1 \notin heads
        BY <1>1, <1>2, <2>2 DEF KnowsVersion
      <4>2. b.from = 1 \/ b.from >= 2
        BY <1>3, <1>5, <2>2
      <4>3. \A w \in heads : w = b.from
        BY <1>7, <1>12, <4>1, <4>2
      <4> QED BY <1>6, <2>2, <4>3
    <3>2. v = 0
      BY <1>11, <3>1
    <3>3. View(m) = Built(b.to)
      BY <1>1, <1>9, <1>10, <1>12 DEF OnTrack, View
    <3> QED BY <1>2, <1>3, <1>4, <1>6, <1>8, <1>12, <2>2, <3>1, <3>2, <3>3 DEF H, v
  <2> QED BY <2>1, <2>2
<1>13. CASE Astray(b)
  <2>1. version >= 2 /\ ((b.from = 0 /\ b.to = 1) \/ (b.from = 1 /\ b.to = 0))
    BY <1>2, <1>13 DEF Astray
  <2>2. version \in H /\ \A w \in H : w = 1 \/ w = version
    BY <1>6, <1>7, <2>1
  <2>3. v = version
    BY <1>7, <1>11, <2>1, <2>2
  <2>4. b.added = {} /\ b.removed = {}
    BY <1>1, <1>2, <1>10, <2>1, BuiltNames DEF OnTrack, UsersOnce
  <2>5. View(m) = Built(v)
    BY <1>9, <2>3, <2>4 DEF View
  <2> QED BY <1>2, <1>3, <1>4, <1>6, <1>8, <1>13, <2>2, <2>3, <2>5 DEF H, v
<1> QED BY <1>4, <1>12, <1>13

LEMMA BuiltIsNamed == \A v \in 0..Latest : Built(v) \subseteq Names
<1>1. Built(0) \subseteq Names /\ Built(1) \subseteq Names
  BY BuiltNames
<1>2. Built(2) \subseteq Names /\ Built(3) \subseteq Names
  BY BuiltNames, AllNames
<1>3. Built(4) \subseteq Names /\ Built(5) \subseteq Names /\ Built(6) \subseteq Names
        /\ Built(7) \subseteq Names
  BY <1>2, BuiltNames, AllNames
<1> QED BY <1>1, <1>2, <1>3 DEF Latest

LEMMA CommitInv ==
  ASSUME Inv, NEW m \in Migrators, Commit(m)
  PROVE  Inv'
<1> DEFINE b == run[m]
           v == Max(heads' \cup {0})
<1>1. run \in [Migrators -> Command] /\ b \in Command
  BY DEF Inv, TypeOK
<1>2. /\ Running(m) /\ ~HasNext(m) /\ run' = [run EXCEPT ![m] = Idle]
      /\ objects' = View(m) /\ heads' = Seen(m)
      /\ accounts' = IF "users" \in View(m) THEN accounts ELSE {}
  BY DEF Commit, Publish
<1>3. /\ b.rev = b.to /\ b.to # b.from /\ b.from \in heads \cup {0}
      /\ heads' = (heads \ {b.from}) \cup ({b.to} \ {0})
      /\ heads' \in SUBSET (1..Latest) /\ heads' \subseteq {1, v} /\ View(m) = Built(v)
      /\ (version = b.from /\ v = b.to) \/ (version = v /\ Astray(b))
  BY <1>2, AtTheEnd
<1>4. version' = v
  BY DEF version
<1>5. v \in 0..Latest
  BY <1>3, HighestRow DEF Latest
<1> HIDE DEF v
<1>6. run'[m] = Idle /\ \A n \in Migrators \ {m} : run'[n] = run[n]
  BY <1>1, <1>2
<1>7. accounts' = accounts \/ accounts' = {}
  BY <1>2
<1>8. TypeOK'
  BY <1>1, <1>2, <1>3, <1>5, <1>7, IdleIsSound, BuiltIsNamed DEF Inv, TypeOK
<1>9. \A n \in Migrators : Underway(run'[n]) /\ OnTrack(run'[n])
  BY <1>6, IdleIsSound DEF Inv
<1>10. LocksExclude'
  BY <1>6, IdleIsSound DEF Inv, LocksExclude
<1>11. CatalogMatchesVersion' /\ OneStray'
  BY <1>2, <1>3, <1>4 DEF CatalogMatchesVersion, OneStray
<1>12. \A n \in Migrators : KnowsVersion(run[n])'
  <2> SUFFICES ASSUME NEW n \in Migrators \ {m} PROVE KnowsVersion(run[n])'
    BY <1>6, IdleIsSound DEF KnowsVersion
  <2> DEFINE d == run[n]
  <2>1. d \in Command /\ KnowsVersion(d) /\ KnowsVersion(b)
    BY <1>1 DEF Inv
  <2>2. Stamped(b) \cap Stamped(d) = {}
    BY DEF Inv, LocksExclude
  <2>3. /\ d.from \in 0..7 /\ d.rev \in 0..7 /\ b.from \in 0..7 /\ b.to \in 0..7
        /\ version \in 0..7
    BY <1>1, <2>1, VersionIsHighest DEF Command, Latest, Inv
  <2>4. CASE d.rev = d.from
    <3>1. ~(d.from >= 2 /\ d.rev <= 1)
      BY <2>3, <2>4
    <3> QED BY <1>6, <2>4, <3>1 DEF KnowsVersion
  <2>5. CASE d.rev # d.from
    <3>1. /\ b.from # 0 => b.from \in Stamped(b)
          /\ b.to # 0 => b.to \in Stamped(b)
          /\ b.from <= 1 \/ b.to <= 1 => 1 \in Stamped(b)
      BY <1>1, <1>3, StampedEnds
    <3>2. /\ d.from # 0 => d.from \in Stamped(d)
          /\ d.from <= 1 \/ d.rev <= 1 => 1 \in Stamped(d)
      BY <2>1, <2>5, StampedEnds
    <3>3. d.from \in heads \cup {0} /\ (version = d.from \/ Astray(d))
      BY <2>1, <2>5 DEF KnowsVersion
    <3>4. d.from # 0 => d.from # b.from
      BY <2>2, <3>1, <3>2
    <3>5. d.from \in heads' \cup {0}
      BY <1>3, <3>3, <3>4
    <3>6. v = d.from \/ (v >= 2 /\ Astray(d))
      <4>1. CASE Astray(b)
        <5>1. b.from <= 1 /\ version >= 2
          BY <4>1, <2>3 DEF Astray
        <5>2. version = v
          BY <1>3, <2>3, <5>1
        <5> QED BY <3>3, <5>1, <5>2
      <4>2. CASE version = b.from /\ v = b.to
        <5>1. version # d.from
          BY <2>2, <2>3, <3>1, <3>2, <3>4, <4>2
        <5>2. Astray(d)
          BY <3>3, <5>1
        <5>3. d.from <= 1
          BY <2>3, <5>2 DEF Astray
        <5>4. ~(b.to <= 1)
          BY <2>2, <3>1, <3>2, <5>3
        <5> QED BY <2>3, <4>2, <5>2, <5>4
      <4> QED BY <1>3, <4>1, <4>2
    <3>7. d.from >= 2 /\ d.rev <= 1 => 1 \notin heads'
      <4> SUFFICES ASSUME d.from >= 2, d.rev <= 1 PROVE 1 \notin heads'
        OBVIOUS
      <4>1. 1 \notin heads
        BY <2>1 DEF KnowsVersion
      <4>2. b.to # 1
        BY <2>2, <3>1, <3>2
      <4> QED BY <1>3, <4>1, <4>2
    <3> QED BY <1>4, <1>6, <3>5, <3>6, <3>7 DEF KnowsVersion, Astray
  <2> QED BY <2>4, <2>5
<1>13. \A n \in Migrators : UsersOnce(run[n])'
  <2> SUFFICES ASSUME NEW n \in Migrators \ {m} PROVE UsersOnce(run[n])'
    BY <1>6, IdleIsSound DEF UsersOnce
  <2>1. UsersOnce(run[n]) /\ UsersOnce(b) /\ run[n].locks \cap b.locks = {}
    BY DEF Inv, LocksExclude
  <2> QED BY <1>2, <1>6, <2>1 DEF UsersOnce, View
<1>14. RowsSatisfyIndexes'
  <2>1. "users" \notin objects' => accounts' = {}
    BY <1>2
  <2>2. \A i \in objects' \cap IndexesOn("users") : Satisfied(i, accounts')
    BY <1>2, <1>7, NoRows DEF Inv, RowsSatisfyIndexes, View
  <2>3. \A n \in Migrators : \A i \in run'[n].added \cap IndexesOn("users") :
          Satisfied(i, accounts') /\ "users" \in run'[n].locks
    BY <1>6, <1>7, NoRows, IdleIsSound DEF Inv, RowsSatisfyIndexes
  <2> QED BY <2>1, <2>2, <2>3 DEF RowsSatisfyIndexes
<1> QED BY <1>8, <1>9, <1>10, <1>11, <1>12, <1>13, <1>14 DEF Inv

LEMMA RegisterInv ==
  ASSUME Inv, NEW a \in Accounts, Register(a)
  PROVE  Inv'
<1>1. /\ "users" \in objects /\ "users" \notin AnyLock
      /\ \A i \in objects \cap IndexesOn("users") : Satisfied(i, accounts \cup {a})
      /\ accounts' = accounts \cup {a} /\ UNCHANGED <<objects, heads, run>>
  BY DEF Register, RegistrationTables
<1>2. TypeOK'
  BY <1>1 DEF Inv, TypeOK
<1>3. version' = version
  BY <1>1 DEF version
<1>4. \A m \in Migrators : Underway(run'[m]) /\ OnTrack(run'[m])
  BY <1>1 DEF Inv
<1>5. \A m \in Migrators : KnowsVersion(run[m])' /\ UsersOnce(run[m])'
  BY <1>1, <1>3 DEF Inv, KnowsVersion, Astray, UsersOnce
<1>6. LocksExclude' /\ OneStray' /\ CatalogMatchesVersion'
  BY <1>1, <1>3 DEF Inv, LocksExclude, OneStray, CatalogMatchesVersion
<1>7. \A m \in Migrators : run[m].added \cap IndexesOn("users") = {}
  BY <1>1 DEF Inv, RowsSatisfyIndexes, AnyLock
<1>8. RowsSatisfyIndexes'
  BY <1>1, <1>7 DEF RowsSatisfyIndexes
<1> QED BY <1>2, <1>4, <1>5, <1>6, <1>8 DEF Inv

LEMMA NextInv == Inv /\ [Next]_vars => Inv'
<1> SUFFICES ASSUME Inv, [Next]_vars PROVE Inv'
  OBVIOUS
<1>1. ASSUME NEW m \in Migrators, Start(m) PROVE Inv'
  BY <1>1, StartInv
<1>2. ASSUME NEW m \in Migrators, Execute(m) PROVE Inv'
  BY <1>2, ExecuteInv
<1>3. ASSUME NEW m \in Migrators, Stamp(m) PROVE Inv'
  BY <1>3, StampInv
<1>4. ASSUME NEW m \in Migrators, Fail(m) \/ DeadlockVictim(m) \/ Crash(m) PROVE Inv'
  BY <1>4, Ended DEF Fail, DeadlockVictim, Crash
<1>5. ASSUME NEW m \in Migrators, Commit(m) PROVE Inv'
  BY <1>5, CommitInv
<1>6. ASSUME NEW a \in Accounts, Register(a) PROVE Inv'
  BY <1>6, RegisterInv
<1>7. CASE UNCHANGED vars
  <2>1. /\ objects' = objects /\ heads' = heads /\ accounts' = accounts /\ run' = run
        /\ version' = version
    BY <1>7 DEF vars, version
  <2>2. \A m \in Migrators : /\ Underway(run'[m]) /\ OnTrack(run'[m])
                             /\ KnowsVersion(run[m])' /\ UsersOnce(run[m])'
    BY <2>1 DEF Inv, KnowsVersion, Astray, UsersOnce
  <2> QED BY <2>1, <2>2 DEF Inv, TypeOK, LocksExclude, OneStray, CatalogMatchesVersion,
                            RowsSatisfyIndexes
<1> QED BY <1>1, <1>2, <1>3, <1>4, <1>5, <1>6, <1>7 DEF Next

-----------------------------------------------------------------------------
(* The theorems *)

\* Whatever two or more commands, crashes and registrations do, every command
\* is at a statement of a script of its own, what it has changed so far is what
\* the statements behind it say, no two hold the same object or the same row of
\* the version table, a command that has stamped still knows the version unless
\* it moves between base and the empty first revision, and the committed
\* catalog is the one of its version.
THEOREM InvariantHolds == Spec => []Inv
  BY InitInv, NextInv, PTL DEF Spec

\* The catalog and what a command adds, removes and locks are names of the
\* revisions; a command is between two of them.
THEOREM TypeCorrect == Spec => []TypeOK
  BY InvariantHolds, PTL DEF Inv

\* The committed catalog is the one alembic_version names: each downgrade
\* undoes its upgrade and env.py's one transaction hides what is half done.
THEOREM CatalogStaysTrue == Spec => []CatalogMatchesVersion
  BY InvariantHolds, PTL DEF Inv

LEMMA CommitIsWhole ==
  ASSUME Inv, [Next]_vars
  PROVE  heads' # heads => \E m \in Migrators :
           /\ Running(m) /\ run[m].from \in heads \cup {0}
           /\ heads' = (heads \ {run[m].from}) \cup ({run[m].to} \ {0})
           /\ version' # version => run[m].from = version /\ run[m].to = version'
<1> SUFFICES ASSUME heads' # heads
             PROVE  \E m \in Migrators :
                      /\ Running(m) /\ run[m].from \in heads \cup {0}
                      /\ heads' = (heads \ {run[m].from}) \cup ({run[m].to} \ {0})
                      /\ version' # version => run[m].from = version /\ run[m].to = version'
  OBVIOUS
<1>1. PICK m \in Migrators : Commit(m)
  BY DEF Next, Start, Execute, Stamp, Fail, DeadlockVictim, Crash, Register, vars
<1>2. Running(m) /\ ~HasNext(m) /\ heads' = Seen(m)
  BY <1>1 DEF Commit, Publish
<1>3. version' = Max(Seen(m) \cup {0})
  BY <1>2 DEF version
<1> QED BY <1>2, <1>3, AtTheEnd

\* A commit replaces the row of the revision a command found by that of the one
\* it was given, and nothing between: env.py runs all the revisions in one
\* transaction.  The version moves all of that way or, when a command between
\* base and the empty first revision was overtaken, not at all.
THEOREM CommandsAreAtomic == Spec => CommandIsAtomic
  BY InvariantHolds, CommitIsWhole, PTL DEF Spec, CommandIsAtomic

-----------------------------------------------------------------------------
(* The last revision and the models *)

IsTable(r) == r = Meta!Table(r.schema, r.required, r.optional, r.refs, r.unique, r.enums, r.indexes)
SameColumns(r, s) == /\ r.schema = s.schema /\ r.required = s.required /\ r.optional = s.optional
                     /\ r.refs = s.refs /\ r.unique = s.unique /\ r.enums = s.enums

LEMMA SameButIndexes ==
  ASSUME NEW r, NEW s, IsTable(r), IsTable(s), SameColumns(r, s)
  PROVE  r = [s EXCEPT !.indexes = r.indexes]
  BY DEF IsTable, SameColumns, Meta!Table

LEMMA TablesAreTables ==
  ASSUME NEW a, NEW b, NEW c, NEW d, NEW e, NEW f, NEW g
  PROVE  /\ IsTable(Meta!Table(a, b, c, d, e, f, g)) /\ IsTable(Meta!Entity(a, b, c, d, e, f, g))
         /\ IsTable(Business(a, b, c, d, e, f)) /\ IsTable(Plain(a, b, c, d, e))
  BY DEF IsTable, Meta!Table, Meta!Entity, Business, Plain

LEMMA ModelsAreTables ==
  /\ IsTable(Meta!User) /\ IsTable(users)
  /\ IsTable(Meta!Role) /\ IsTable(role_table)
  /\ IsTable(Meta!Permission) /\ IsTable(permissions)
  /\ IsTable(Meta!RolePermission) /\ IsTable(role_permissions)
  /\ IsTable(Meta!UserRole) /\ IsTable(user_roles)
  /\ IsTable(Meta!Device) /\ IsTable(devices)
  /\ IsTable(Meta!OtpVerification) /\ IsTable(otp_verifications)
  /\ IsTable(Meta!Session) /\ IsTable(sessions)
  /\ IsTable(Meta!RefreshToken) /\ IsTable(refresh_tokens)
  /\ IsTable(Meta!AuditLog) /\ IsTable(audit_logs)
  /\ IsTable(Meta!CustomerProfile) /\ IsTable(customer_profiles)
  /\ IsTable(Meta!CustomerPreferences) /\ IsTable(customer_preferences)
  /\ IsTable(Meta!SavedAddress) /\ IsTable(saved_addresses)
  BY TablesAreTables
     DEF Meta!User, Meta!Role, Meta!Permission, Meta!RolePermission, Meta!UserRole, Meta!Device,
       Meta!OtpVerification, Meta!Session, Meta!RefreshToken, Meta!AuditLog,
       Meta!CustomerProfile, Meta!CustomerPreferences, Meta!SavedAddress,
         users, role_table, permissions, role_permissions, user_roles, devices,
           otp_verifications, sessions, refresh_tokens, audit_logs, customer_profiles,
           customer_preferences, saved_addresses

\* Revisions and models agree on columns, keys and enum types, table by table.
LEMMA ColumnsAgree ==
  /\ SameColumns(Meta!User, users)
  /\ SameColumns(Meta!Role, role_table)
  /\ SameColumns(Meta!Permission, permissions)
  /\ SameColumns(Meta!RolePermission, role_permissions)
  /\ SameColumns(Meta!UserRole, user_roles)
  /\ SameColumns(Meta!Device, devices)
  /\ SameColumns(Meta!OtpVerification, otp_verifications)
  /\ SameColumns(Meta!Session, sessions)
  /\ SameColumns(Meta!RefreshToken, refresh_tokens)
  /\ SameColumns(Meta!AuditLog, audit_logs)
  /\ SameColumns(Meta!CustomerProfile, customer_profiles)
  /\ SameColumns(Meta!CustomerPreferences, customer_preferences)
  /\ SameColumns(Meta!SavedAddress, saved_addresses)
<1>1. SameColumns(Meta!User, users)
  BY DEF SameColumns, Meta!User, users, Meta!Table, Meta!Entity, Business, Plain,
         Meta!CommonColumnsMixin, Author
<1>2. SameColumns(Meta!Role, role_table)
  BY DEF SameColumns, Meta!Role, role_table, Meta!Table, Meta!Entity, Business, Plain,
         Meta!CommonColumnsMixin, Author
<1>3. SameColumns(Meta!Permission, permissions)
  BY DEF SameColumns, Meta!Permission, permissions, Meta!Table, Meta!Entity, Business, Plain,
         Meta!CommonColumnsMixin, Author
<1>4. SameColumns(Meta!RolePermission, role_permissions)
  BY DEF SameColumns, Meta!RolePermission, role_permissions, Meta!Table, Meta!Entity, Business,
     Plain,
         Meta!CommonColumnsMixin, Author
<1>5. SameColumns(Meta!UserRole, user_roles)
  BY DEF SameColumns, Meta!UserRole, user_roles, Meta!Table, Meta!Entity, Business, Plain,
         Meta!CommonColumnsMixin, Author
<1>6. SameColumns(Meta!Device, devices)
  BY DEF SameColumns, Meta!Device, devices, Meta!Table, Meta!Entity, Business, Plain,
         Meta!CommonColumnsMixin, Author
<1>7. SameColumns(Meta!OtpVerification, otp_verifications)
  BY DEF SameColumns, Meta!OtpVerification, otp_verifications, Meta!Table, Meta!Entity,
     Business, Plain,
         Meta!CommonColumnsMixin, Author
<1>8. SameColumns(Meta!Session, sessions)
  BY DEF SameColumns, Meta!Session, sessions, Meta!Table, Meta!Entity, Business, Plain,
         Meta!CommonColumnsMixin, Author
<1>9. SameColumns(Meta!RefreshToken, refresh_tokens)
  BY DEF SameColumns, Meta!RefreshToken, refresh_tokens, Meta!Table, Meta!Entity, Business, Plain,
         Meta!CommonColumnsMixin, Author
<1>10. SameColumns(Meta!AuditLog, audit_logs)
  BY DEF SameColumns, Meta!AuditLog, audit_logs, Meta!Table, Meta!Entity, Business, Plain,
         Meta!CommonColumnsMixin, Author
<1>11. SameColumns(Meta!CustomerProfile, customer_profiles)
  BY DEF SameColumns, Meta!CustomerProfile, customer_profiles, Meta!Table, Meta!Entity,
     Business, Plain,
         Meta!CommonColumnsMixin, Author
<1>12. SameColumns(Meta!CustomerPreferences, customer_preferences)
  BY DEF SameColumns, Meta!CustomerPreferences, customer_preferences, Meta!Table, Meta!Entity,
     Business, Plain,
         Meta!CommonColumnsMixin, Author
<1>13. SameColumns(Meta!SavedAddress, saved_addresses)
  BY DEF SameColumns, Meta!SavedAddress, saved_addresses, Meta!Table, Meta!Entity, Business, Plain,
         Meta!CommonColumnsMixin, Author
<1> QED BY <1>1, <1>2, <1>3, <1>4, <1>5, <1>6, <1>7, <1>8, <1>9, <1>10, <1>11, <1>12, <1>13

\* They agree on the indexes.
LEMMA IndexesAgree ==
  /\ Meta!User.indexes = [i \in {"uq_users_email_provider", "uq_users_phone",
       "uq_users_external_auth", "idx_users_email", "idx_users_phone_number",
       "idx_users_status"} |-> IndexesOf["users"][i]]
  /\ Meta!Role.indexes = [i \in {} |-> IndexesOf["roles"][i]]
  /\ Meta!Permission.indexes = [i \in {} |-> IndexesOf["permissions"][i]]
  /\ Meta!RolePermission.indexes = [i \in {} |-> IndexesOf["role_permissions"][i]]
  /\ Meta!UserRole.indexes = [i \in {} |-> IndexesOf["user_roles"][i]]
  /\ Meta!Device.indexes = [i \in {"idx_devices_user_id"} |-> IndexesOf["devices"][i]]
  /\ Meta!OtpVerification.indexes = [i \in {"idx_otp_verifications_phone",
       "idx_otp_verifications_user_id"} |-> IndexesOf["otp_verifications"][i]]
  /\ Meta!Session.indexes = [i \in {"idx_sessions_user_id",
       "idx_sessions_expires_at"} |-> IndexesOf["sessions"][i]]
  /\ Meta!RefreshToken.indexes =
       [i \in {"idx_refresh_tokens_user_id"} |-> IndexesOf["refresh_tokens"][i]]
  /\ Meta!AuditLog.indexes = [i \in {"idx_audit_logs_actor_user_id",
       "idx_audit_logs_entity_type_entity_id",
       "idx_audit_logs_created_at"} |-> IndexesOf["audit_logs"][i]]
  /\ Meta!CustomerProfile.indexes =
       [i \in {"idx_customer_profiles_user_id"} |-> IndexesOf["customer_profiles"][i]]
  /\ Meta!CustomerPreferences.indexes =
       [i \in {"idx_customer_preferences_customer_id"} |-> IndexesOf["customer_preferences"][i]]
  /\ Meta!SavedAddress.indexes = [i \in {"idx_saved_addresses_customer_id",
       "uq_saved_addresses_customer_default"} |-> IndexesOf["saved_addresses"][i]]
<1>1. Meta!User.indexes = [i \in {"uq_users_email_provider", "uq_users_phone",
        "uq_users_external_auth", "idx_users_email", "idx_users_phone_number",
        "idx_users_status"} |-> IndexesOf["users"][i]]
  <2> DEFINE f == IndexesOf["users"]
  <2>1. Meta!User.indexes = [uq_users_email_provider |-> f["uq_users_email_provider"],
          uq_users_phone |-> f["uq_users_phone"],
          uq_users_external_auth |-> f["uq_users_external_auth"],
          idx_users_email |-> f["idx_users_email"],
          idx_users_phone_number |-> f["idx_users_phone_number"],
          idx_users_status |-> f["idx_users_status"]]
    BY DEF Meta!User, Meta!Table, Meta!Entity, Meta!CommonColumnsMixin, IndexesOf,
       users_indexes, uq_users_email_provider, Meta!Index, Meta!UniqueIndex
  <2> HIDE DEF f
  <2>2. [uq_users_email_provider |-> f["uq_users_email_provider"],
          uq_users_phone |-> f["uq_users_phone"],
          uq_users_external_auth |-> f["uq_users_external_auth"],
          idx_users_email |-> f["idx_users_email"],
          idx_users_phone_number |-> f["idx_users_phone_number"],
          idx_users_status |-> f["idx_users_status"]] = [i \in {"uq_users_email_provider",
          "uq_users_phone", "uq_users_external_auth", "idx_users_email",
          "idx_users_phone_number", "idx_users_status"} |-> f[i]]
    BY Z3
  <2> QED BY <2>1, <2>2 DEF f
<1>2. Meta!Role.indexes = [i \in {} |-> IndexesOf["roles"][i]]
  BY DEF Meta!Role, Meta!Table, Meta!Entity, Meta!CommonColumnsMixin, Meta!NoIndex
<1>3. Meta!Permission.indexes = [i \in {} |-> IndexesOf["permissions"][i]]
  BY DEF Meta!Permission, Meta!Table, Meta!Entity, Meta!CommonColumnsMixin, Meta!NoIndex
<1>4. Meta!RolePermission.indexes = [i \in {} |-> IndexesOf["role_permissions"][i]]
  BY DEF Meta!RolePermission, Meta!Table, Meta!Entity, Meta!CommonColumnsMixin, Meta!NoIndex
<1>5. Meta!UserRole.indexes = [i \in {} |-> IndexesOf["user_roles"][i]]
  BY DEF Meta!UserRole, Meta!Table, Meta!Entity, Meta!CommonColumnsMixin, Meta!NoIndex
<1>6. Meta!Device.indexes = [i \in {"idx_devices_user_id"} |-> IndexesOf["devices"][i]]
  <2> DEFINE f == IndexesOf["devices"]
  <2>1. Meta!Device.indexes = [idx_devices_user_id |-> f["idx_devices_user_id"]]
    BY DEF Meta!Device, Meta!Table, Meta!Entity, Meta!CommonColumnsMixin, IndexesOf, Meta!Index
  <2> HIDE DEF f
  <2>2. [idx_devices_user_id |-> f["idx_devices_user_id"]] =
          [i \in {"idx_devices_user_id"} |-> f[i]]
    BY Z3
  <2> QED BY <2>1, <2>2 DEF f
<1>7. Meta!OtpVerification.indexes = [i \in {"idx_otp_verifications_phone",
        "idx_otp_verifications_user_id"} |-> IndexesOf["otp_verifications"][i]]
  <2> DEFINE f == IndexesOf["otp_verifications"]
  <2>1. Meta!OtpVerification.indexes =
        [idx_otp_verifications_phone |-> f["idx_otp_verifications_phone"],
           idx_otp_verifications_user_id |-> f["idx_otp_verifications_user_id"]]
    BY DEF Meta!OtpVerification, Meta!Table, Meta!Entity, Meta!CommonColumnsMixin, IndexesOf,
       Meta!Index
  <2> HIDE DEF f
  <2>2. [idx_otp_verifications_phone |-> f["idx_otp_verifications_phone"],
          idx_otp_verifications_user_id |-> f["idx_otp_verifications_user_id"]] =
          [i \in {"idx_otp_verifications_phone", "idx_otp_verifications_user_id"} |-> f[i]]
    BY Z3
  <2> QED BY <2>1, <2>2 DEF f
<1>8. Meta!Session.indexes = [i \in {"idx_sessions_user_id",
        "idx_sessions_expires_at"} |-> IndexesOf["sessions"][i]]
  <2> DEFINE f == IndexesOf["sessions"]
  <2>1. Meta!Session.indexes = [idx_sessions_user_id |-> f["idx_sessions_user_id"],
          idx_sessions_expires_at |-> f["idx_sessions_expires_at"]]
    BY DEF Meta!Session, Meta!Table, Meta!Entity, Meta!CommonColumnsMixin, IndexesOf, Meta!Index
  <2> HIDE DEF f
  <2>2. [idx_sessions_user_id |-> f["idx_sessions_user_id"],
          idx_sessions_expires_at |-> f["idx_sessions_expires_at"]] =
          [i \in {"idx_sessions_user_id", "idx_sessions_expires_at"} |-> f[i]]
    BY Z3
  <2> QED BY <2>1, <2>2 DEF f
<1>9. Meta!RefreshToken.indexes =
        [i \in {"idx_refresh_tokens_user_id"} |-> IndexesOf["refresh_tokens"][i]]
  <2> DEFINE f == IndexesOf["refresh_tokens"]
  <2>1. Meta!RefreshToken.indexes = [idx_refresh_tokens_user_id |-> f["idx_refresh_tokens_user_id"]]
    BY DEF Meta!RefreshToken, Meta!Table, Meta!Entity, Meta!CommonColumnsMixin, IndexesOf,
       Meta!Index
  <2> HIDE DEF f
  <2>2. [idx_refresh_tokens_user_id |-> f["idx_refresh_tokens_user_id"]] =
          [i \in {"idx_refresh_tokens_user_id"} |-> f[i]]
    BY Z3
  <2> QED BY <2>1, <2>2 DEF f
<1>10. Meta!AuditLog.indexes = [i \in {"idx_audit_logs_actor_user_id",
        "idx_audit_logs_entity_type_entity_id",
        "idx_audit_logs_created_at"} |-> IndexesOf["audit_logs"][i]]
  <2> DEFINE f == IndexesOf["audit_logs"]
  <2>1. Meta!AuditLog.indexes =
        [idx_audit_logs_actor_user_id |-> f["idx_audit_logs_actor_user_id"],
           idx_audit_logs_entity_type_entity_id |-> f["idx_audit_logs_entity_type_entity_id"],
           idx_audit_logs_created_at |-> f["idx_audit_logs_created_at"]]
    BY DEF Meta!AuditLog, Meta!Table, Meta!Entity, Meta!CommonColumnsMixin, IndexesOf,
       audit_indexes, Meta!Index
  <2> HIDE DEF f
  <2>2. [idx_audit_logs_actor_user_id |-> f["idx_audit_logs_actor_user_id"],
          idx_audit_logs_entity_type_entity_id |-> f["idx_audit_logs_entity_type_entity_id"],
          idx_audit_logs_created_at |-> f["idx_audit_logs_created_at"]] =
                [i \in {"idx_audit_logs_actor_user_id", "idx_audit_logs_entity_type_entity_id",
                   "idx_audit_logs_created_at"} |-> f[i]]
    BY Z3
  <2> QED BY <2>1, <2>2 DEF f
<1>11. Meta!CustomerProfile.indexes =
        [i \in {"idx_customer_profiles_user_id"} |-> IndexesOf["customer_profiles"][i]]
  <2> DEFINE f == IndexesOf["customer_profiles"]
  <2>1. Meta!CustomerProfile.indexes =
          [idx_customer_profiles_user_id |-> f["idx_customer_profiles_user_id"]]
    BY DEF Meta!CustomerProfile, Meta!Table, Meta!Entity, Meta!CommonColumnsMixin, IndexesOf,
       Meta!Index
  <2> HIDE DEF f
  <2>2. [idx_customer_profiles_user_id |-> f["idx_customer_profiles_user_id"]] =
          [i \in {"idx_customer_profiles_user_id"} |-> f[i]]
    BY Z3
  <2> QED BY <2>1, <2>2 DEF f
<1>12. Meta!CustomerPreferences.indexes =
        [i \in {"idx_customer_preferences_customer_id"} |-> IndexesOf["customer_preferences"][i]]
  <2> DEFINE f == IndexesOf["customer_preferences"]
  <2>1. Meta!CustomerPreferences.indexes =
          [idx_customer_preferences_customer_id |-> f["idx_customer_preferences_customer_id"]]
    BY DEF Meta!CustomerPreferences, Meta!Table, Meta!Entity, Meta!CommonColumnsMixin,
       IndexesOf, Meta!Index
  <2> HIDE DEF f
  <2>2. [idx_customer_preferences_customer_id |-> f["idx_customer_preferences_customer_id"]] =
          [i \in {"idx_customer_preferences_customer_id"} |-> f[i]]
    BY Z3
  <2> QED BY <2>1, <2>2 DEF f
<1>13. Meta!SavedAddress.indexes = [i \in {"idx_saved_addresses_customer_id",
        "uq_saved_addresses_customer_default"} |-> IndexesOf["saved_addresses"][i]]
  <2> DEFINE f == IndexesOf["saved_addresses"]
  <2>1. Meta!SavedAddress.indexes =
        [idx_saved_addresses_customer_id |-> f["idx_saved_addresses_customer_id"],
           uq_saved_addresses_customer_default |-> f["uq_saved_addresses_customer_default"]]
    BY DEF Meta!SavedAddress, Meta!Table, Meta!Entity, Meta!CommonColumnsMixin, IndexesOf,
       saved_address_indexes, Meta!Index, Meta!UniqueIndex
  <2> HIDE DEF f
  <2>2. [idx_saved_addresses_customer_id |-> f["idx_saved_addresses_customer_id"],
          uq_saved_addresses_customer_default |-> f["uq_saved_addresses_customer_default"]] =
                [i \in {"idx_saved_addresses_customer_id", "uq_saved_addresses_customer_default"}
                   |-> f[i]]
    BY Z3
  <2> QED BY <2>1, <2>2 DEF f
<1> QED BY <1>1, <1>2, <1>3, <1>4, <1>5, <1>6, <1>7, <1>8, <1>9, <1>10, <1>11, <1>12, <1>13

\* Of each table the last revision has the indexes its model declares.
LEMMA IndexesAtHead ==
  /\ Built(7) \cap IndexesOn("users") = {"uq_users_email_provider", "uq_users_phone",
       "uq_users_external_auth", "idx_users_email", "idx_users_phone_number", "idx_users_status"}
  /\ Built(7) \cap IndexesOn("roles") = {}
  /\ Built(7) \cap IndexesOn("permissions") = {}
  /\ Built(7) \cap IndexesOn("role_permissions") = {}
  /\ Built(7) \cap IndexesOn("user_roles") = {}
  /\ Built(7) \cap IndexesOn("devices") = {"idx_devices_user_id"}
  /\ Built(7) \cap IndexesOn("otp_verifications") = {"idx_otp_verifications_phone",
       "idx_otp_verifications_user_id"}
  /\ Built(7) \cap IndexesOn("sessions") = {"idx_sessions_user_id", "idx_sessions_expires_at"}
  /\ Built(7) \cap IndexesOn("refresh_tokens") = {"idx_refresh_tokens_user_id"}
  /\ Built(7) \cap IndexesOn("audit_logs") = {"idx_audit_logs_actor_user_id",
       "idx_audit_logs_entity_type_entity_id", "idx_audit_logs_created_at"}
  /\ Built(7) \cap IndexesOn("customer_profiles") = {"idx_customer_profiles_user_id"}
  /\ Built(7) \cap IndexesOn("customer_preferences") = {"idx_customer_preferences_customer_id"}
  /\ Built(7) \cap IndexesOn("saved_addresses") = {"idx_saved_addresses_customer_id",
       "uq_saved_addresses_customer_default"}
<1> DEFINE old == CoreNames \cup {"uq_users_email_provider"} \cup SessionNames
           new == AuditNames \cup CustomerNames \cup AddressNames
<1>1. Built(7) = old \cup new
  BY BuiltNames
<1>2. (old \cup new) \cap IndexesOn("users") = {"uq_users_email_provider", "uq_users_phone",
        "uq_users_external_auth", "idx_users_email", "idx_users_phone_number", "idx_users_status"}
  BY IndexNames DEF CoreNames, SessionNames, AuditNames, CustomerNames, AddressNames
<1>3. (old \cup new) \cap IndexesOn("roles") = {}
  BY IndexNames DEF CoreNames, SessionNames, AuditNames, CustomerNames, AddressNames
<1>4. (old \cup new) \cap IndexesOn("permissions") = {}
  BY IndexNames DEF CoreNames, SessionNames, AuditNames, CustomerNames, AddressNames
<1>5. (old \cup new) \cap IndexesOn("role_permissions") = {}
  BY IndexNames DEF CoreNames, SessionNames, AuditNames, CustomerNames, AddressNames
<1>6. (old \cup new) \cap IndexesOn("user_roles") = {}
  BY IndexNames DEF CoreNames, SessionNames, AuditNames, CustomerNames, AddressNames
<1>7. (old \cup new) \cap IndexesOn("devices") = {"idx_devices_user_id"}
  BY IndexNames DEF CoreNames, SessionNames, AuditNames, CustomerNames, AddressNames
<1>8. (old \cup new) \cap IndexesOn("otp_verifications") = {"idx_otp_verifications_phone",
        "idx_otp_verifications_user_id"}
  BY IndexNames DEF CoreNames, SessionNames, AuditNames, CustomerNames, AddressNames
<1>9. (old \cup new) \cap IndexesOn("sessions") = {"idx_sessions_user_id",
        "idx_sessions_expires_at"}
  BY IndexNames DEF CoreNames, SessionNames, AuditNames, CustomerNames, AddressNames
<1>10. (old \cup new) \cap IndexesOn("refresh_tokens") = {"idx_refresh_tokens_user_id"}
  BY IndexNames DEF CoreNames, SessionNames, AuditNames, CustomerNames, AddressNames
<1>11. (old \cup new) \cap IndexesOn("audit_logs") = {"idx_audit_logs_actor_user_id",
        "idx_audit_logs_entity_type_entity_id", "idx_audit_logs_created_at"}
  BY IndexNames DEF CoreNames, SessionNames, AuditNames, CustomerNames, AddressNames
<1>12. (old \cup new) \cap IndexesOn("customer_profiles") = {"idx_customer_profiles_user_id"}
  BY IndexNames DEF CoreNames, SessionNames, AuditNames, CustomerNames, AddressNames
<1>13. (old \cup new) \cap IndexesOn("customer_preferences") =
        {"idx_customer_preferences_customer_id"}
  BY IndexNames DEF CoreNames, SessionNames, AuditNames, CustomerNames, AddressNames
<1>14. (old \cup new) \cap IndexesOn("saved_addresses") = {"idx_saved_addresses_customer_id",
        "uq_saved_addresses_customer_default"}
  BY IndexNames DEF CoreNames, SessionNames, AuditNames, CustomerNames, AddressNames
<1> HIDE DEF old, new
<1> QED BY <1>1, <1>2, <1>3, <1>4, <1>5, <1>6, <1>7, <1>8, <1>9, <1>10, <1>11, <1>12, <1>13, <1>14

LEMMA HeadMatches ==
  ASSUME objects = Built(7)
  PROVE  /\ objects \cap DOMAIN Tables = DOMAIN Meta!target_metadata
         /\ \A t \in DOMAIN Meta!target_metadata :
              Meta!target_metadata[t] =
                [Tables[t] EXCEPT !.indexes = [i \in objects \cap IndexesOn(t) |-> IndexesOf[t][i]]]
<1> DEFINE head(t) == [Tables[t] EXCEPT !.indexes =
        [i \in Built(7) \cap IndexesOn(t) |-> IndexesOf[t][i]]]
<1>1. DOMAIN Meta!target_metadata = DOMAIN Tables
  BY DEF Meta!target_metadata, Tables
<1>2. DOMAIN Tables \subseteq Built(7)
  BY TableNames, BuiltNames DEF CoreNames, SessionNames, AuditNames, CustomerNames, AddressNames
<1>3. Meta!target_metadata["users"] = head("users")
  <2>1. Meta!target_metadata["users"] = Meta!User /\ Tables["users"] = users
    BY DEF Meta!target_metadata, Tables
  <2>2. Meta!User = [users EXCEPT !.indexes = Meta!User.indexes]
    BY SameButIndexes, ModelsAreTables, ColumnsAgree
  <2>3. Meta!User.indexes = [i \in Built(7) \cap IndexesOn("users") |-> IndexesOf["users"][i]]
    BY IndexesAgree, IndexesAtHead
  <2> QED BY <2>1, <2>2, <2>3
<1>4. Meta!target_metadata["roles"] = head("roles")
  <2>1. Meta!target_metadata["roles"] = Meta!Role /\ Tables["roles"] = role_table
    BY DEF Meta!target_metadata, Tables
  <2>2. Meta!Role = [role_table EXCEPT !.indexes = Meta!Role.indexes]
    BY SameButIndexes, ModelsAreTables, ColumnsAgree
  <2>3. Meta!Role.indexes = [i \in Built(7) \cap IndexesOn("roles") |-> IndexesOf["roles"][i]]
    BY IndexesAgree, IndexesAtHead
  <2> QED BY <2>1, <2>2, <2>3
<1>5. Meta!target_metadata["permissions"] = head("permissions")
  <2>1. Meta!target_metadata["permissions"] = Meta!Permission /\ Tables["permissions"] = permissions
    BY DEF Meta!target_metadata, Tables
  <2>2. Meta!Permission = [permissions EXCEPT !.indexes = Meta!Permission.indexes]
    BY SameButIndexes, ModelsAreTables, ColumnsAgree
  <2>3. Meta!Permission.indexes =
          [i \in Built(7) \cap IndexesOn("permissions") |-> IndexesOf["permissions"][i]]
    BY IndexesAgree, IndexesAtHead
  <2> QED BY <2>1, <2>2, <2>3
<1>6. Meta!target_metadata["role_permissions"] = head("role_permissions")
  <2>1. Meta!target_metadata["role_permissions"] = Meta!RolePermission
          /\ Tables["role_permissions"] = role_permissions
    BY DEF Meta!target_metadata, Tables
  <2>2. Meta!RolePermission = [role_permissions EXCEPT !.indexes = Meta!RolePermission.indexes]
    BY SameButIndexes, ModelsAreTables, ColumnsAgree
  <2>3. Meta!RolePermission.indexes =
          [i \in Built(7) \cap IndexesOn("role_permissions") |-> IndexesOf["role_permissions"][i]]
    BY IndexesAgree, IndexesAtHead
  <2> QED BY <2>1, <2>2, <2>3
<1>7. Meta!target_metadata["user_roles"] = head("user_roles")
  <2>1. Meta!target_metadata["user_roles"] = Meta!UserRole /\ Tables["user_roles"] = user_roles
    BY DEF Meta!target_metadata, Tables
  <2>2. Meta!UserRole = [user_roles EXCEPT !.indexes = Meta!UserRole.indexes]
    BY SameButIndexes, ModelsAreTables, ColumnsAgree
  <2>3. Meta!UserRole.indexes =
          [i \in Built(7) \cap IndexesOn("user_roles") |-> IndexesOf["user_roles"][i]]
    BY IndexesAgree, IndexesAtHead
  <2> QED BY <2>1, <2>2, <2>3
<1>8. Meta!target_metadata["devices"] = head("devices")
  <2>1. Meta!target_metadata["devices"] = Meta!Device /\ Tables["devices"] = devices
    BY DEF Meta!target_metadata, Tables
  <2>2. Meta!Device = [devices EXCEPT !.indexes = Meta!Device.indexes]
    BY SameButIndexes, ModelsAreTables, ColumnsAgree
  <2>3. Meta!Device.indexes = [i \in Built(7) \cap IndexesOn("devices") |-> IndexesOf["devices"][i]]
    BY IndexesAgree, IndexesAtHead
  <2> QED BY <2>1, <2>2, <2>3
<1>9. Meta!target_metadata["otp_verifications"] = head("otp_verifications")
  <2>1. Meta!target_metadata["otp_verifications"] = Meta!OtpVerification
          /\ Tables["otp_verifications"] = otp_verifications
    BY DEF Meta!target_metadata, Tables
  <2>2. Meta!OtpVerification = [otp_verifications EXCEPT !.indexes = Meta!OtpVerification.indexes]
    BY SameButIndexes, ModelsAreTables, ColumnsAgree
  <2>3. Meta!OtpVerification.indexes =
        [i \in Built(7) \cap IndexesOn("otp_verifications")
           |-> IndexesOf["otp_verifications"][i]]
    BY IndexesAgree, IndexesAtHead
  <2> QED BY <2>1, <2>2, <2>3
<1>10. Meta!target_metadata["sessions"] = head("sessions")
  <2>1. Meta!target_metadata["sessions"] = Meta!Session /\ Tables["sessions"] = sessions
    BY DEF Meta!target_metadata, Tables
  <2>2. Meta!Session = [sessions EXCEPT !.indexes = Meta!Session.indexes]
    BY SameButIndexes, ModelsAreTables, ColumnsAgree
  <2>3. Meta!Session.indexes =
          [i \in Built(7) \cap IndexesOn("sessions") |-> IndexesOf["sessions"][i]]
    BY IndexesAgree, IndexesAtHead
  <2> QED BY <2>1, <2>2, <2>3
<1>11. Meta!target_metadata["refresh_tokens"] = head("refresh_tokens")
  <2>1. Meta!target_metadata["refresh_tokens"] = Meta!RefreshToken
          /\ Tables["refresh_tokens"] = refresh_tokens
    BY DEF Meta!target_metadata, Tables
  <2>2. Meta!RefreshToken = [refresh_tokens EXCEPT !.indexes = Meta!RefreshToken.indexes]
    BY SameButIndexes, ModelsAreTables, ColumnsAgree
  <2>3. Meta!RefreshToken.indexes =
          [i \in Built(7) \cap IndexesOn("refresh_tokens") |-> IndexesOf["refresh_tokens"][i]]
    BY IndexesAgree, IndexesAtHead
  <2> QED BY <2>1, <2>2, <2>3
<1>12. Meta!target_metadata["audit_logs"] = head("audit_logs")
  <2>1. Meta!target_metadata["audit_logs"] = Meta!AuditLog /\ Tables["audit_logs"] = audit_logs
    BY DEF Meta!target_metadata, Tables
  <2>2. Meta!AuditLog = [audit_logs EXCEPT !.indexes = Meta!AuditLog.indexes]
    BY SameButIndexes, ModelsAreTables, ColumnsAgree
  <2>3. Meta!AuditLog.indexes =
          [i \in Built(7) \cap IndexesOn("audit_logs") |-> IndexesOf["audit_logs"][i]]
    BY IndexesAgree, IndexesAtHead
  <2> QED BY <2>1, <2>2, <2>3
<1>13. Meta!target_metadata["customer_profiles"] = head("customer_profiles")
  <2>1. Meta!target_metadata["customer_profiles"] = Meta!CustomerProfile
          /\ Tables["customer_profiles"] = customer_profiles
    BY DEF Meta!target_metadata, Tables
  <2>2. Meta!CustomerProfile = [customer_profiles EXCEPT !.indexes = Meta!CustomerProfile.indexes]
    BY SameButIndexes, ModelsAreTables, ColumnsAgree
  <2>3. Meta!CustomerProfile.indexes =
        [i \in Built(7) \cap IndexesOn("customer_profiles")
           |-> IndexesOf["customer_profiles"][i]]
    BY IndexesAgree, IndexesAtHead
  <2> QED BY <2>1, <2>2, <2>3
<1>14. Meta!target_metadata["customer_preferences"] = head("customer_preferences")
  <2>1. Meta!target_metadata["customer_preferences"] = Meta!CustomerPreferences
          /\ Tables["customer_preferences"] = customer_preferences
    BY DEF Meta!target_metadata, Tables
  <2>2. Meta!CustomerPreferences = [customer_preferences EXCEPT !.indexes =
          Meta!CustomerPreferences.indexes]
    BY SameButIndexes, ModelsAreTables, ColumnsAgree
  <2>3. Meta!CustomerPreferences.indexes =
        [i \in Built(7) \cap IndexesOn("customer_preferences")
           |-> IndexesOf["customer_preferences"][i]]
    BY IndexesAgree, IndexesAtHead
  <2> QED BY <2>1, <2>2, <2>3
<1>15. Meta!target_metadata["saved_addresses"] = head("saved_addresses")
  <2>1. Meta!target_metadata["saved_addresses"] = Meta!SavedAddress
          /\ Tables["saved_addresses"] = saved_addresses
    BY DEF Meta!target_metadata, Tables
  <2>2. Meta!SavedAddress = [saved_addresses EXCEPT !.indexes = Meta!SavedAddress.indexes]
    BY SameButIndexes, ModelsAreTables, ColumnsAgree
  <2>3. Meta!SavedAddress.indexes =
          [i \in Built(7) \cap IndexesOn("saved_addresses") |-> IndexesOf["saved_addresses"][i]]
    BY IndexesAgree, IndexesAtHead
  <2> QED BY <2>1, <2>2, <2>3
<1> HIDE DEF head
<1>16. \A t \in DOMAIN Tables : Meta!target_metadata[t] = head(t)
  BY TableNames, <1>3, <1>4, <1>5, <1>6, <1>7, <1>8, <1>9, <1>10, <1>11, <1>12, <1>13, <1>14, <1>15
<1> QED BY <1>1, <1>2, <1>16 DEF head

LEMMA EnumsAgree == Enums = Meta!IdentityEnums /\ NotificationChannel =
    Meta!CustomerEnums.notification_channel
  BY DEF Enums, Meta!IdentityEnums, NotificationChannel, Meta!CustomerEnums

\* With all the revisions applied the database has the tables, columns, keys,
\* enum types and indexes of the application's models (target_metadata).
THEOREM HeadIsTheModels == Spec => []HeadMatchesModels
<1>1. ASSUME Inv PROVE HeadMatchesModels
  <2> SUFFICES ASSUME version = 7 PROVE HeadMatchesModels
    BY DEF HeadMatchesModels, Latest
  <2>1. objects = Built(7)
    BY <1>1 DEF Inv, CatalogMatchesVersion
  <2> QED BY <2>1, HeadMatches, EnumsAgree DEF HeadMatchesModels
<1> QED BY <1>1, InvariantHolds, PTL

-----------------------------------------------------------------------------
(* What can stop a command *)

\* The catalog before statement i of script S, which leaves revision v.
Before(S, v, i) == (Built(v) \ DroppedBy(S, i - 1)) \cup CreatedBy(S, i - 1)

LEMMA TupleSets == \A x, y : ToSet(<<x>>) = {x} /\ ToSet(<<x, y>>) = {x, y}
  BY DEF ToSet

\* Every index is over columns its table has.
LEMMA IndexColumns ==
  \A t \in DOMAIN Tables : \A i \in IndexesOn(t) : ToSet(IndexesOf[t][i].columns)
    \subseteq Columns(t)
<1> DEFINE cols(t, i) == ToSet(IndexesOf[t][i].columns)
<1>1. \A i \in IndexesOn("users") : cols("users", i) \subseteq Columns("users")
  <2>1. {"auth_provider", "email", "external_auth_subject", "phone_country_code", "phone_number",
         "status"} \subseteq Columns("users")
    BY DEF Columns, Tables, users, Business, Meta!Table
  <2>2. /\ cols("users", "uq_users_email") = {"email"}
        /\ cols("users", "uq_users_email_provider") = {"auth_provider", "email"}
        /\ cols("users", "uq_users_phone") = {"phone_country_code", "phone_number"}
        /\ cols("users", "uq_users_external_auth") = {"auth_provider", "external_auth_subject"}
    BY TupleSets DEF IndexesOf, users_indexes, uq_users_email_provider, Meta!UniqueIndex
  <2>3. /\ cols("users", "idx_users_email") = {"email"}
        /\ cols("users", "idx_users_phone_number") = {"phone_number"}
        /\ cols("users", "idx_users_status") = {"status"}
    BY TupleSets DEF IndexesOf, users_indexes, Meta!Index
  <2> HIDE DEF cols
  <2> QED BY <2>1, <2>2, <2>3, IndexNames
<1>2. \A i \in IndexesOn("devices") : cols("devices", i) \subseteq Columns("devices")
  <2>1. cols("devices", "idx_devices_user_id") = {"user_id"}
    BY TupleSets DEF IndexesOf, Meta!Index
  <2>2. "user_id" \in Columns("devices")
    BY DEF Columns, Tables, devices, Business, Meta!Table
  <2> QED BY <2>1, <2>2, IndexNames
<1>3. \A i \in IndexesOn("otp_verifications") :
        cols("otp_verifications", i) \subseteq Columns("otp_verifications")
  <2>1. /\ cols("otp_verifications", "idx_otp_verifications_phone") = {"phone_country_code",
             "phone_number"}
        /\ cols("otp_verifications", "idx_otp_verifications_user_id") = {"user_id"}
    BY TupleSets DEF IndexesOf, Meta!Index
  <2>2. {"user_id", "phone_country_code", "phone_number"} \subseteq Columns("otp_verifications")
    BY DEF Columns, Tables, otp_verifications, Business, Meta!Table
  <2> QED BY <2>1, <2>2, IndexNames
<1>4. \A i \in IndexesOn("sessions") : cols("sessions", i) \subseteq Columns("sessions")
  <2>1. /\ cols("sessions", "idx_sessions_user_id") = {"user_id"}
        /\ cols("sessions", "idx_sessions_expires_at") = {"expires_at"}
    BY TupleSets DEF IndexesOf, Meta!Index
  <2>2. {"user_id", "expires_at"} \subseteq Columns("sessions")
    BY DEF Columns, Tables, sessions, Business, Meta!Table
  <2> QED BY <2>1, <2>2, IndexNames
<1>5. \A i \in IndexesOn("refresh_tokens") : cols("refresh_tokens", i)
        \subseteq Columns("refresh_tokens")
  <2>1. cols("refresh_tokens", "idx_refresh_tokens_user_id") = {"user_id"}
    BY TupleSets DEF IndexesOf, Meta!Index
  <2>2. "user_id" \in Columns("refresh_tokens")
    BY DEF Columns, Tables, refresh_tokens, Business, Meta!Table
  <2> QED BY <2>1, <2>2, IndexNames
<1>6. \A i \in IndexesOn("audit_logs") : cols("audit_logs", i) \subseteq Columns("audit_logs")
  <2>1. /\ cols("audit_logs", "idx_audit_logs_actor_user_id") = {"actor_user_id"}
        /\ cols("audit_logs", "idx_audit_logs_entity_type_entity_id") = {"entity_type", "entity_id"}
        /\ cols("audit_logs", "idx_audit_logs_created_at") = {"created_at"}
    BY TupleSets DEF IndexesOf, audit_indexes, Meta!Index
  <2>2. {"actor_user_id", "entity_type", "entity_id", "created_at"} \subseteq Columns("audit_logs")
    BY DEF Columns, Tables, audit_logs, Plain, Meta!Table
  <2> QED BY <2>1, <2>2, IndexNames
<1>7. \A i \in IndexesOn("customer_profiles") :
        cols("customer_profiles", i) \subseteq Columns("customer_profiles")
  <2>1. cols("customer_profiles", "idx_customer_profiles_user_id") = {"user_id"}
    BY TupleSets DEF IndexesOf, Meta!Index
  <2>2. "user_id" \in Columns("customer_profiles")
    BY DEF Columns, Tables, customer_profiles, Business, Meta!Table
  <2> QED BY <2>1, <2>2, IndexNames
<1>8. \A i \in IndexesOn("customer_preferences") :
        cols("customer_preferences", i) \subseteq Columns("customer_preferences")
  <2>1. cols("customer_preferences", "idx_customer_preferences_customer_id") = {"customer_id"}
    BY TupleSets DEF IndexesOf, Meta!Index
  <2>2. "customer_id" \in Columns("customer_preferences")
    BY DEF Columns, Tables, customer_preferences, Business, Meta!Table
  <2> QED BY <2>1, <2>2, IndexNames
<1>9. \A i \in IndexesOn("saved_addresses") : cols("saved_addresses", i)
        \subseteq Columns("saved_addresses")
  <2>1. /\ cols("saved_addresses", "idx_saved_addresses_customer_id") = {"customer_id"}
        /\ cols("saved_addresses", "uq_saved_addresses_customer_default") = {"customer_id"}
    BY TupleSets DEF IndexesOf, saved_address_indexes, Meta!Index, Meta!UniqueIndex
  <2>2. "customer_id" \in Columns("saved_addresses")
    BY DEF Columns, Tables, saved_addresses, Business, Meta!Table
  <2> QED BY <2>1, <2>2, IndexNames
<1>10. /\ IndexesOn("roles") = {} /\ IndexesOn("permissions") = {}
       /\ IndexesOn("role_permissions") = {} /\ IndexesOn("user_roles") = {}
  BY IndexNames
<1> HIDE DEF cols
<1>11. \A t \in DOMAIN Tables : \A i \in IndexesOn(t) : cols(t, i) \subseteq Columns(t)
  BY <1>1, <1>2, <1>3, <1>4, <1>5, <1>6, <1>7, <1>8, <1>9, <1>10, TableNames
<1> QED BY <1>11 DEF cols

\* CREATE INDEX over a table that is there, of an index of that table.
LEMMA IndexFits ==
  ASSUME NEW i, NEW t \in DOMAIN Tables, NEW S, i \in IndexesOn(t), i \notin S, t \in S,
         t = "users" => Satisfied(i, accounts)
  PROVE  Possible(create_index(i, t), S)
  BY IndexColumns DEF Possible, create_index

LEMMA TableFits ==
  ASSUME NEW t, NEW S, t \notin S, Tables[t].schema \in S, Tables[t].enums \subseteq S,
         Targets(t) \subseteq S \cup {t}
  PROVE  Possible(create_table(t), S)
  BY DEF Possible, create_table

LEMMA EnumFits ==
  ASSUME NEW e, NEW S, EnumSchema[e] \in S
  PROVE  Possible(create_enum(e), S)
  BY DEF Possible, create_enum

LEMMA SchemaFits == \A s, S : Possible(create_schema(s), S) /\ Possible(drop_schema_cascade(s), S)
  BY DEF Possible, create_schema, drop_schema_cascade

LEMMA DropTableFits ==
  ASSUME NEW t, NEW S, t \in S, \A u \in (S \cap DOMAIN Tables) \ {t} : t \notin Targets(u)
  PROVE  Possible(drop_table(t), S)
  BY DEF Possible, drop_table

LEMMA DropEnumFits ==
  ASSUME NEW e, NEW S, \A t \in S \cap DOMAIN Tables : e \notin Tables[t].enums
  PROVE  Possible(drop_enum(e), S)
  BY DEF Possible, drop_enum

LEMMA DropSchemaFits ==
  ASSUME NEW s, NEW S, S \cap Within(s) = {}
  PROVE  Possible(drop_schema(s), S)
  BY DEF Possible, drop_schema

LEMMA DropIndexFits == \A i, t, S : i \in S => Possible(drop_index(i, t), S)
  BY DEF Possible, drop_index

LEMMA Fresh ==
  ASSUME NEW S, NEW i \in Nat, NEW x, \A j \in 1..(i - 1) : S[j].name # x
  PROVE  x \notin CreatedBy(S, i - 1)
  BY DEF CreatedBy, Creates

\* Over an empty catalog the identity domain is created without a row to check.
LEMMA IdentityDomainUpFits ==
  ASSUME accounts = {}, NEW i \in 1..22
  PROVE  Possible(IdentityDomainUp[i], Before(IdentityDomainUp, 1, i))
<1> DEFINE S == IdentityDomainUp
           V == Before(S, 1, i)
           place == [identity |-> 1, user_status |-> 2, auth_provider |-> 3, device_platform |-> 4,
                     language_code |-> 5, otp_purpose |-> 6, users |-> 7, uq_users_email |-> 8,
                     uq_users_phone |-> 9, uq_users_external_auth |-> 10, idx_users_email |-> 11,
                     idx_users_phone_number |-> 12, idx_users_status |-> 13, roles |-> 14,
                     permissions |-> 15, role_permissions |-> 16, user_roles |-> 17, devices |-> 18,
                     idx_devices_user_id |-> 19, otp_verifications |-> 20,
                     idx_otp_verifications_phone |-> 21, idx_otp_verifications_user_id |-> 22]
<1>1. V = CreatedBy(S, i - 1)
  BY BuiltNames DEF Before
<1>2. \A j \in 1..22 : place[S[j].name] = j
  BY DEF IdentityDomainUp, create_schema, create_enum, create_table, create_index
<1> HIDE DEF place
<1>3. S[i].name \notin V
  <2>1. \A j \in 1..(i - 1) : S[j].name # S[i].name
    <3>1. SUFFICES ASSUME NEW j \in 1..(i - 1), S[j].name = S[i].name PROVE FALSE
      OBVIOUS
    <3>2. j \in 1..22 /\ j # i
      OBVIOUS
    <3>3. place[S[j].name] = j /\ place[S[i].name] = i
      BY <1>2, <3>2
    <3> QED BY <3>1, <3>2, <3>3
  <2> QED BY <1>1, <2>1, Fresh
<1>4. i > 1 => "identity" \in V
  BY <1>1 DEF CreatedBy, Creates, IdentityDomainUp, create_schema
<1>5. i > 6 => {"user_status", "auth_provider", "device_platform", "language_code",
        "otp_purpose"} \subseteq V
  BY <1>1 DEF CreatedBy, Creates, IdentityDomainUp, create_enum
<1>6. i > 7 => "users" \in V
  BY <1>1 DEF CreatedBy, Creates, IdentityDomainUp, create_table
<1>7. i > 15 => {"roles", "permissions"} \subseteq V
  BY <1>1 DEF CreatedBy, Creates, IdentityDomainUp, create_table
<1>8. /\ i > 18 => "devices" \in V
      /\ i > 20 => "otp_verifications" \in V
  BY <1>1 DEF CreatedBy, Creates, IdentityDomainUp, create_table
<1>9. /\ i = 1 => S[i] = create_schema("identity")
      /\ i \in 2..6 => \E e \in {"user_status", "auth_provider", "device_platform", "language_code",
                                 "otp_purpose"} : S[i] = create_enum(e)
      /\ i = 7 => S[i] = create_table("users")
      /\ i \in 8..13 => \E x \in IndexesOn("users") : S[i] = create_index(x, "users")
      /\ i \in 14..15 => S[i] \in {create_table("roles"), create_table("permissions")}
      /\ i = 16 => S[i] = create_table("role_permissions")
      /\ i = 17 => S[i] = create_table("user_roles")
      /\ i = 18 => S[i] = create_table("devices")
      /\ i = 19 => S[i] = create_index("idx_devices_user_id", "devices")
      /\ i = 20 => S[i] = create_table("otp_verifications")
      /\ i \in 21..22 => \E x \in IndexesOn("otp_verifications") : S[i] = create_index(x,
           "otp_verifications")
  BY IndexNames DEF IdentityDomainUp
<1>10. \A t, x : create_table(t).name = t /\ create_index(x, t).name = x
  BY DEF create_table, create_index
<1> SUFFICES Possible(S[i], V)
  OBVIOUS
<1> HIDE DEF S, V
<1>11. CASE i = 1
  BY <1>9, <1>11, SchemaFits
<1>12. CASE i \in 2..6
  BY <1>4, <1>9, <1>12, EnumFits, EnumHomes
<1>13. CASE i = 7
  BY <1>3, <1>4, <1>5, <1>9, <1>10, <1>13, TableFits, TableSchemas, TableEnums, TableTargets
<1>14. CASE i \in 8..13
  <2>1. PICK x \in IndexesOn("users") : S[i] = create_index(x, "users")
    BY <1>9, <1>14
  <2> QED BY <1>3, <1>6, <1>10, <1>14, <2>1, IndexFits, TableNames, NoRows
<1>15. CASE i \in 14..15
  BY <1>3, <1>4, <1>6, <1>9, <1>10, <1>15, TableFits, TableSchemas, TableEnums, TableTargets
<1>16. CASE i \in {16, 17}
  BY <1>3, <1>4, <1>6, <1>7, <1>9, <1>10, <1>16, TableFits, TableSchemas, TableEnums, TableTargets
<1>17. CASE i \in {18, 20}
  BY <1>3, <1>4, <1>5, <1>6, <1>9, <1>10, <1>17, TableFits, TableSchemas, TableEnums, TableTargets
<1>18. CASE i = 19
  BY <1>3, <1>8, <1>9, <1>10, <1>18, IndexFits, TableNames, IndexNames
<1>19. CASE i \in 21..22
  <2>1. PICK x \in IndexesOn("otp_verifications") : S[i] = create_index(x, "otp_verifications")
    BY <1>9, <1>19
  <2> QED BY <1>3, <1>8, <1>10, <1>19, <2>1, IndexFits, TableNames
<1>20. i \in {1, 7, 16, 17, 18, 19, 20} \cup 2..6 \cup 8..13 \cup 14..15 \cup 21..22
  OBVIOUS
<1> QED BY <1>11, <1>12, <1>13, <1>14, <1>15, <1>16, <1>17, <1>18, <1>19, <1>20

LEMMA SessionsUpFits ==
  ASSUME NEW i \in 1..5
  PROVE  Possible(SessionsUp[i], Before(SessionsUp, 3, i))
<1> DEFINE S == SessionsUp
           V == Before(S, 3, i)
           place == [sessions |-> 1, idx_sessions_user_id |-> 2, idx_sessions_expires_at |-> 3,
                     refresh_tokens |-> 4, idx_refresh_tokens_user_id |-> 5]
<1>1. V = Built(3) \cup CreatedBy(S, i - 1)
  BY UpgradesDropNothing, Upgrading DEF Before
<1>2. \A j \in 1..5 : place[S[j].name] = j /\ S[j].name \in SessionNames
  BY DEF SessionsUp, SessionNames, create_table, create_index
<1> HIDE DEF place
<1>3. S[i].name \notin V
  <2>1. \A j \in 1..(i - 1) : S[j].name # S[i].name
    BY <1>2
  <2>2. SessionNames \cap Built(3) = {}
    BY BuiltNames DEF SessionNames, CoreNames
  <2> QED BY <1>1, <1>2, <2>1, <2>2, Fresh
<1>4. {"identity", "users", "devices"} \subseteq V
  BY <1>1, BuiltNames DEF CoreNames
<1>5. (i > 1 => "sessions" \in V) /\ (i > 4 => "refresh_tokens" \in V)
  BY <1>1 DEF CreatedBy, Creates, SessionsUp, create_table
<1>6. /\ i = 1 => S[i] = create_table("sessions")
      /\ i \in 2..3 => \E x \in IndexesOn("sessions") : S[i] = create_index(x, "sessions")
      /\ i = 4 => S[i] = create_table("refresh_tokens")
      /\ i = 5 => S[i] = create_index("idx_refresh_tokens_user_id", "refresh_tokens")
  BY IndexNames DEF SessionsUp
<1>7. \A t, x : create_table(t).name = t /\ create_index(x, t).name = x
  BY DEF create_table, create_index
<1> SUFFICES Possible(S[i], V)
  OBVIOUS
<1> HIDE DEF S, V
<1>8. CASE i \in {1, 4}
  BY <1>3, <1>4, <1>5, <1>6, <1>7, <1>8, TableFits, TableSchemas, TableEnums, TableTargets
<1>9. CASE i \in 2..3
  <2>1. PICK x \in IndexesOn("sessions") : S[i] = create_index(x, "sessions")
    BY <1>6, <1>9
  <2> QED BY <1>3, <1>5, <1>7, <1>9, <2>1, IndexFits, TableNames
<1>10. CASE i = 5
  BY <1>3, <1>5, <1>6, <1>7, <1>10, IndexFits, TableNames, IndexNames
<1> QED BY <1>8, <1>9, <1>10

LEMMA AuditUpFits ==
  ASSUME NEW i \in 1..5
  PROVE  Possible(AuditUp[i], Before(AuditUp, 4, i))
<1> DEFINE S == AuditUp
           V == Before(S, 4, i)
           place == [audit |-> 1, audit_logs |-> 2, idx_audit_logs_actor_user_id |-> 3,
                     idx_audit_logs_entity_type_entity_id |-> 4, idx_audit_logs_created_at |-> 5]
<1>1. V = Built(4) \cup CreatedBy(S, i - 1)
  BY UpgradesDropNothing, Upgrading DEF Before
<1>2. \A j \in 1..5 : place[S[j].name] = j /\ S[j].name \in AuditNames
  BY DEF AuditUp, AuditNames, create_schema, create_table, create_index
<1> HIDE DEF place
<1>3. S[i].name \notin V
  <2>1. \A j \in 1..(i - 1) : S[j].name # S[i].name
    BY <1>2
  <2>2. AuditNames \cap Built(4) = {}
    BY BuiltNames DEF AuditNames, SessionNames, CoreNames
  <2>3. S[i].name \notin CreatedBy(S, i - 1)
    BY <2>1, Fresh
  <2>4. S[i].name \in AuditNames
    BY <1>2
  <2> QED BY <1>1, <2>2, <2>3, <2>4
<1>4. "users" \in V
  BY <1>1, BuiltNames DEF CoreNames
<1>5. (i > 1 => "audit" \in V) /\ (i > 2 => "audit_logs" \in V)
  BY <1>1 DEF CreatedBy, Creates, AuditUp, create_schema, create_table
<1>6. /\ i = 1 => S[i] = create_schema("audit")
      /\ i = 2 => S[i] = create_table("audit_logs")
      /\ i \in 3..5 => \E x \in IndexesOn("audit_logs") : S[i] = create_index(x, "audit_logs")
  BY IndexNames DEF AuditUp
<1>7. \A t, x : create_table(t).name = t /\ create_index(x, t).name = x
  BY DEF create_table, create_index
<1> SUFFICES Possible(S[i], V)
  OBVIOUS
<1> HIDE DEF S, V
<1>8. CASE i = 1
  BY <1>6, <1>8, SchemaFits
<1>9. CASE i = 2
  BY <1>3, <1>4, <1>5, <1>6, <1>7, <1>9, TableFits, TableSchemas, TableEnums, TableTargets
<1>10. CASE i \in 3..5
  <2>1. PICK x \in IndexesOn("audit_logs") : S[i] = create_index(x, "audit_logs")
    BY <1>6, <1>10
  <2> QED BY <1>3, <1>5, <1>7, <1>10, <2>1, IndexFits, TableNames
<1> QED BY <1>8, <1>9, <1>10

LEMMA CustomerUpFits ==
  ASSUME NEW i \in 1..6
  PROVE  Possible(CustomerUp[i], Before(CustomerUp, 5, i))
<1> DEFINE S == CustomerUp
           V == Before(S, 5, i)
           place == [customer |-> 1, notification_channel |-> 2, customer_profiles |-> 3,
                     idx_customer_profiles_user_id |-> 4, customer_preferences |-> 5,
                     idx_customer_preferences_customer_id |-> 6]
<1>1. V = Built(5) \cup CreatedBy(S, i - 1)
  BY UpgradesDropNothing, Upgrading DEF Before
<1>2. \A j \in 1..6 : place[S[j].name] = j /\ S[j].name \in CustomerNames
  BY DEF CustomerUp, CustomerNames, create_schema, create_enum, create_table, create_index
<1> HIDE DEF place
<1>3. S[i].name \notin V
  <2>1. \A j \in 1..(i - 1) : S[j].name # S[i].name
    BY <1>2
  <2>2. CustomerNames \cap Built(5) = {}
    BY BuiltNames DEF CustomerNames, AuditNames, SessionNames, CoreNames
  <2> QED BY <1>1, <1>2, <2>1, <2>2, Fresh
<1>4. {"users", "language_code"} \subseteq V
  BY <1>1, BuiltNames DEF CoreNames
<1>5. /\ i > 1 => "customer" \in V
      /\ i > 2 => "notification_channel" \in V
      /\ i > 3 => "customer_profiles" \in V
      /\ i > 5 => "customer_preferences" \in V
  BY <1>1 DEF CreatedBy, Creates, CustomerUp, create_schema, create_enum, create_table
<1>6. /\ i = 1 => S[i] = create_schema("customer")
      /\ i = 2 => S[i] = create_enum("notification_channel")
      /\ i = 3 => S[i] = create_table("customer_profiles")
      /\ i = 4 => S[i] = create_index("idx_customer_profiles_user_id", "customer_profiles")
      /\ i = 5 => S[i] = create_table("customer_preferences")
      /\ i = 6 => S[i] = create_index("idx_customer_preferences_customer_id",
           "customer_preferences")
  BY DEF CustomerUp
<1>7. \A t, x : create_table(t).name = t /\ create_index(x, t).name = x
  BY DEF create_table, create_index
<1> SUFFICES Possible(S[i], V)
  OBVIOUS
<1> HIDE DEF S, V
<1>8. CASE i \in {1, 2}
  BY <1>5, <1>6, <1>8, SchemaFits, EnumFits, EnumHomes
<1>9. CASE i \in {3, 5}
  BY <1>3, <1>4, <1>5, <1>6, <1>7, <1>9, TableFits, TableSchemas, TableEnums, TableTargets
<1>10. CASE i \in {4, 6}
  BY <1>3, <1>5, <1>6, <1>7, <1>10, IndexFits, TableNames, IndexNames
<1> QED BY <1>8, <1>9, <1>10

LEMMA SavedAddressesUpFits ==
  ASSUME NEW i \in 1..3
  PROVE  Possible(SavedAddressesUp[i], Before(SavedAddressesUp, 6, i))
<1> DEFINE S == SavedAddressesUp
           V == Before(S, 6, i)
           place == [saved_addresses |-> 1, idx_saved_addresses_customer_id |-> 2,
                     uq_saved_addresses_customer_default |-> 3]
<1>1. V = Built(6) \cup CreatedBy(S, i - 1)
  BY UpgradesDropNothing, Upgrading DEF Before
<1>2. \A j \in 1..3 : place[S[j].name] = j /\ S[j].name \in AddressNames
  BY DEF SavedAddressesUp, AddressNames, create_table, create_index
<1> HIDE DEF place
<1>3. S[i].name \notin V
  <2>1. \A j \in 1..(i - 1) : S[j].name # S[i].name
    BY <1>2
  <2>2. AddressNames \cap Built(6) = {}
    BY BuiltNames DEF AddressNames, CustomerNames, AuditNames, SessionNames, CoreNames
  <2> QED BY <1>1, <1>2, <2>1, <2>2, Fresh
<1>4. {"customer", "users", "customer_profiles"} \subseteq V
  BY <1>1, BuiltNames DEF CoreNames, CustomerNames
<1>5. i > 1 => "saved_addresses" \in V
  BY <1>1 DEF CreatedBy, Creates, SavedAddressesUp, create_table
<1>6. /\ i = 1 => S[i] = create_table("saved_addresses")
      /\ i \in 2..3 => \E x \in IndexesOn("saved_addresses") : S[i] = create_index(x,
           "saved_addresses")
  BY IndexNames DEF SavedAddressesUp
<1>7. \A t, x : create_table(t).name = t /\ create_index(x, t).name = x
  BY DEF create_table, create_index
<1> SUFFICES Possible(S[i], V)
  OBVIOUS
<1> HIDE DEF S, V
<1>8. CASE i = 1
  BY <1>3, <1>4, <1>6, <1>7, <1>8, TableFits, TableSchemas, TableEnums, TableTargets
<1>9. CASE i \in 2..3
  <2>1. PICK x \in IndexesOn("saved_addresses") : S[i] = create_index(x, "saved_addresses")
    BY <1>6, <1>9
  <2> QED BY <1>3, <1>5, <1>7, <1>9, <2>1, IndexFits, TableNames
<1> QED BY <1>8, <1>9

\* Emails that differ from each other differ within a provider.
LEMMA EmailsPerProvider ==
  ASSUME NEW rows, Satisfied("uq_users_email", rows)
  PROVE  Satisfied("uq_users_email_provider", rows)
<1>1. /\ IndexesOf["users"]["uq_users_email"].unique
      /\ IndexesOf["users"]["uq_users_email_provider"].unique
      /\ ToSet(IndexesOf["users"]["uq_users_email"].columns) = {"email"}
      /\ ToSet(IndexesOf["users"]["uq_users_email_provider"].columns) = {"auth_provider", "email"}
  BY TupleSets DEF IndexesOf, users_indexes, uq_users_email_provider, Meta!UniqueIndex
<1> QED BY <1>1 DEF Satisfied

LEMMA EmailUniquenessUpFits ==
  ASSUME Satisfied("uq_users_email", accounts), NEW i \in 1..2
  PROVE  Possible(EmailUniquenessUp[i], Before(EmailUniquenessUp, 2, i))
<1> DEFINE V == Before(EmailUniquenessUp, 2, i)
<1>1. CASE i = 1
  <2>1. V = Built(2)
    BY <1>1, NothingYet DEF Before
  <2>2. "uq_users_email" \in V
    BY <2>1, BuiltNames
  <2>3. EmailUniquenessUp[i] = drop_index("uq_users_email", "users")
    BY <1>1 DEF EmailUniquenessUp
  <2> QED BY <2>2, <2>3, DropIndexFits
<1>2. CASE i = 2
  <2>1. DroppedBy(EmailUniquenessUp, i - 1) = {"uq_users_email"}
          /\ CreatedBy(EmailUniquenessUp, i - 1) = {}
    BY <1>2 DEF DroppedBy, CreatedBy, Drops, Creates, EmailUniquenessUp, drop_index
  <2>2. "users" \in V /\ "uq_users_email_provider" \notin V
    BY <2>1, BuiltNames DEF Before, CoreNames
  <2>3. EmailUniquenessUp[i] = create_index("uq_users_email_provider", "users")
    BY <1>2 DEF EmailUniquenessUp
  <2> HIDE DEF V
  <2>4. Possible(EmailUniquenessUp[i], V)
    BY <2>2, <2>3, IndexFits, TableNames, IndexNames, EmailsPerProvider
  <2> QED BY <2>4 DEF V
<1> QED BY <1>1, <1>2

\* The way back can only fail on rows.
LEMMA EmailUniquenessDownFits ==
  ASSUME NEW i \in 1..2
  PROVE  \/ Possible(EmailUniquenessDown[i], Before(EmailUniquenessDown, 3, i))
         \/ /\ EmailUniquenessDown[i] = create_index("uq_users_email", "users")
            /\ ~Satisfied("uq_users_email", accounts)
<1> DEFINE V == Before(EmailUniquenessDown, 3, i)
<1>1. CASE i = 1
  <2>1. V = Built(3)
    BY <1>1, NothingYet DEF Before
  <2>2. "uq_users_email_provider" \in V
    BY <2>1, BuiltNames
  <2>3. EmailUniquenessDown[i] = drop_index("uq_users_email_provider", "users")
    BY <1>1 DEF EmailUniquenessDown
  <2> QED BY <2>2, <2>3, DropIndexFits
<1>2. CASE i = 2
  <2>1. /\ DroppedBy(EmailUniquenessDown, i - 1) = {"uq_users_email_provider"}
        /\ CreatedBy(EmailUniquenessDown, i - 1) = {}
    BY <1>2 DEF DroppedBy, CreatedBy, Drops, Creates, EmailUniquenessDown, drop_index
  <2>2. "users" \in V /\ "uq_users_email" \notin V
    BY <2>1, BuiltNames DEF Before, CoreNames
  <2>3. EmailUniquenessDown[i] = create_index("uq_users_email", "users")
    BY <1>2 DEF EmailUniquenessDown
  <2> HIDE DEF V
  <2>4. Satisfied("uq_users_email", accounts) => Possible(EmailUniquenessDown[i], V)
    BY <2>2, <2>3, IndexFits, TableNames, IndexNames
  <2> QED BY <2>3, <2>4 DEF V
<1> QED BY <1>1, <1>2

LEMMA IdentityDomainDownFits ==
  ASSUME NEW i \in 1..13
  PROVE  Possible(IdentityDomainDown[i], Before(IdentityDomainDown, 2, i))
<1> DEFINE S == IdentityDomainDown
           V == Before(S, 2, i)
           tables == <<"otp_verifications", "devices", "user_roles", "role_permissions",
                       "permissions", "roles", "users">>
<1>1. V = (CoreNames \cup {"uq_users_email"}) \ DroppedBy(S, i - 1)
  BY DowngradesCreateNothing, Downgrading, BuiltNames DEF Before
<1>2. /\ \A j \in 1..7 : S[j] = drop_table(tables[j])
      /\ \A j \in 8..12 : S[j] = drop_enum(S[j].name)
      /\ S[13] = drop_schema("identity")
  BY DEF IdentityDomainDown, drop_enum
<1>3. /\ \A j \in 1..7 : Drops(S[j]) = {tables[j]} \cup IndexesOn(tables[j])
      /\ \A j \in 8..12 : Drops(S[j]) = {S[j].name}
  BY <1>2 DEF Drops, drop_table, drop_enum
<1>4. \A j \in 1..7 : j < i => tables[j] \notin V
  BY <1>1, <1>3 DEF DroppedBy
<1>5. V \cap DOMAIN Tables \subseteq {tables[j] : j \in 1..7}
  BY <1>1, TableNames DEF CoreNames
<1> SUFFICES Possible(S[i], V)
  OBVIOUS
<1>6. CASE i \in 1..7
  <2>1. tables[i] \in V
    <3>1. tables[i] \in CoreNames
      BY <1>6 DEF CoreNames
    <3>2. \A j \in 1..(i - 1) : tables[i] # tables[j] /\ tables[i] \notin IndexesOn(tables[j])
      BY <1>6, IndexNames
    <3>3. tables[i] \notin DroppedBy(S, i - 1)
      BY <1>3, <1>6, <3>2 DEF DroppedBy
    <3> QED BY <1>1, <3>1, <3>3
  <2>2. \A j \in 1..7 : j > i => tables[i] \notin Targets(tables[j])
    BY TableTargets
  <2>3. \A u \in (V \cap DOMAIN Tables) \ {tables[i]} : tables[i] \notin Targets(u)
    BY <1>4, <1>5, <1>6, <2>2
  <2> QED BY <1>2, <1>6, <2>1, <2>3, DropTableFits
<1>7. CASE i \in 8..12
  <2>1. V \cap DOMAIN Tables = {}
    BY <1>4, <1>5, <1>7
  <2> QED BY <1>2, <1>7, <2>1, DropEnumFits
<1>8. CASE i = 13
  <2>1. DroppedBy(S, 12) = (CoreNames \cup {"uq_users_email",
          "uq_users_email_provider"}) \ {"identity"}
    BY IndexNames DEF DroppedBy, Drops, IdentityDomainDown, CoreNames, drop_table, drop_enum
  <2>2. V \cap Within("identity") = {}
    BY <1>1, <1>8, <2>1, WithinNames
  <2> QED BY <1>2, <1>8, <2>2, DropSchemaFits
<1> QED BY <1>6, <1>7, <1>8

\* Who refers to whom, the other way round.
LEMMA Referrers ==
  \A u \in DOMAIN Tables :
    /\ "refresh_tokens" \in Targets(u) => u = "refresh_tokens"
    /\ "sessions" \in Targets(u) => u = "refresh_tokens"
    /\ "audit_logs" \notin Targets(u) /\ "customer_preferences" \notin Targets(u)
    /\ "saved_addresses" \notin Targets(u)
    /\ "customer_profiles" \in Targets(u) => u \in {"customer_preferences", "saved_addresses"}
    /\ "notification_channel" \in Tables[u].enums => u = "customer_preferences"
  BY TableNames, TableTargets, TableEnums

LEMMA SessionsDownFits ==
  ASSUME NEW i \in 1..2
  PROVE  Possible(SessionsDown[i], Before(SessionsDown, 4, i))
<1> DEFINE V == Before(SessionsDown, 4, i)
<1>1. /\ SessionsDown[1] = drop_table("refresh_tokens") /\ SessionsDown[2] = drop_table("sessions")
      /\ V = Built(4) \ DroppedBy(SessionsDown, i - 1)
  BY DowngradesCreateNothing, Downgrading DEF SessionsDown, Before
<1>2. /\ i = 1 => DroppedBy(SessionsDown, i - 1) = {}
      /\ i = 2 => DroppedBy(SessionsDown, i - 1) = {"refresh_tokens", "idx_refresh_tokens_user_id"}
  BY <1>1, IndexNames DEF DroppedBy, Drops, drop_table
<1>3. {"refresh_tokens", "sessions"} \subseteq Built(4)
  BY BuiltNames DEF SessionNames
<1> SUFFICES Possible(SessionsDown[i], V)
  OBVIOUS
<1> HIDE DEF V
<1>4. CASE i = 1
  BY <1>1, <1>2, <1>3, <1>4, DropTableFits, Referrers
<1>5. CASE i = 2
  BY <1>1, <1>2, <1>3, <1>5, DropTableFits, Referrers
<1> QED BY <1>4, <1>5

LEMMA AuditDownFits ==
  ASSUME NEW i \in 1..2
  PROVE  Possible(AuditDown[i], Before(AuditDown, 5, i))
<1> DEFINE V == Before(AuditDown, 5, i)
<1>1. AuditDown[1] = drop_table("audit_logs") /\ AuditDown[2] = drop_schema_cascade("audit")
  BY DEF AuditDown
<1>2. i = 1 => "audit_logs" \in V
  BY NothingYet, BuiltNames DEF Before, AuditNames
<1> SUFFICES Possible(AuditDown[i], V)
  OBVIOUS
<1> HIDE DEF V
<1> QED BY <1>1, <1>2, DropTableFits, Referrers, SchemaFits

LEMMA CustomerDownFits ==
  ASSUME NEW i \in 1..4
  PROVE  Possible(CustomerDown[i], Before(CustomerDown, 6, i))
<1> DEFINE V == Before(CustomerDown, 6, i)
<1>1. /\ CustomerDown[1] = drop_table("customer_preferences")
      /\ CustomerDown[2] = drop_table("customer_profiles")
      /\ CustomerDown[3] = drop_enum("notification_channel") /\ CustomerDown[4] =
           drop_schema("customer")
      /\ V = Built(6) \ DroppedBy(CustomerDown, i - 1)
  BY DowngradesCreateNothing, Downgrading DEF CustomerDown, Before
<1>2. /\ {"customer_preferences", "customer_profiles"} \subseteq Built(6)
      /\ AddressNames \cap Built(6) = {} /\ "saved_addresses" \in AddressNames
      /\ CustomerNames \ {"customer"} \subseteq Within("customer")
      /\ Within("customer") \subseteq (CustomerNames \cup AddressNames) \ {"customer"}
  BY BuiltNames, WithinNames DEF AddressNames, CustomerNames, AuditNames, SessionNames, CoreNames
<1>3. i = 1 => DroppedBy(CustomerDown, i - 1) = {}
  BY NothingYet
<1>4. i = 2 => DroppedBy(CustomerDown, i - 1) =
                 {"customer_preferences", "idx_customer_preferences_customer_id"}
  BY <1>1, IndexNames DEF DroppedBy, Drops, drop_table
<1>5. i > 2 => "customer_preferences" \in DroppedBy(CustomerDown, i - 1)
  BY <1>1 DEF DroppedBy, Drops, drop_table
<1>6. i = 4 => DroppedBy(CustomerDown, i - 1) = CustomerNames \ {"customer"}
  BY <1>1, IndexNames DEF DroppedBy, Drops, drop_table, drop_enum, CustomerNames
<1> SUFFICES Possible(CustomerDown[i], V)
  OBVIOUS
<1> HIDE DEF V
<1>7. CASE i = 1
  BY <1>1, <1>2, <1>3, <1>7, DropTableFits, Referrers
<1>8. CASE i = 2
  BY <1>1, <1>2, <1>4, <1>8, DropTableFits, Referrers
<1>9. CASE i = 3
  BY <1>1, <1>5, <1>9, DropEnumFits, Referrers
<1>10. CASE i = 4
  BY <1>1, <1>2, <1>6, <1>10, DropSchemaFits
<1> QED BY <1>7, <1>8, <1>9, <1>10

LEMMA SavedAddressesDownFits ==
  Possible(SavedAddressesDown[1], Before(SavedAddressesDown, 7, 1))
<1>1. SavedAddressesDown[1] = drop_table("saved_addresses")
  BY DEF SavedAddressesDown
<1>2. "saved_addresses" \in Before(SavedAddressesDown, 7, 1)
  BY NothingYet, BuiltNames DEF Before, AddressNames
<1> QED BY <1>1, <1>2, DropTableFits, Referrers

LEMMA NothingElseStops ==
  ASSUME Inv, NEW m \in Migrators, Proceeds(m), heads = {run[m].from} \ {0}
  PROVE  \/ Succeeds(m)
         \/ /\ run[m].to < run[m].from
            /\ NextStatement(m) = create_index("uq_users_email", "users")
            /\ \E a, b \in accounts : a # b /\ "email" \in DOMAIN a \cap DOMAIN b /\ a.email =
                 b.email
<1> DEFINE b == run[m]
           S == Script(b)
           k == b.at + 1
           q == NextStatement(m)
<1>1. b \in Command /\ Underway(b) /\ OnTrack(b) /\ b.rev # b.to
  BY DEF Inv, TypeOK, Proceeds, HasNext
<1>2. /\ b.from \in 0..7 /\ b.to \in 0..7 /\ b.rev \in 0..7 /\ b.at \in Nat
      /\ Len(S) \in Nat /\ b.at <= Len(S)
  BY <1>1, ScriptLeads DEF Command, Latest, Underway, Leads
<1>3. CASE q = stamp
  <2>1. NextRev(b) # b.from /\ NextRev(b) # b.rev
    BY <1>1, <1>2, GoesOneWay DEF NextRev
  <2>2. Seen(m) = {b.rev} \ {0}
    BY DEF Seen
  <2> QED BY <1>3, <2>1, <2>2 DEF Succeeds, RowFound
<1>4. version = b.from
  <2>1. b.from = 0 => heads = {}
    OBVIOUS
  <2>2. b.from # 0 => heads = {b.from}
    OBVIOUS
  <2> QED BY <2>1, <2>2, VersionIsHighest, HighestRow DEF Inv, TypeOK, version
<1>5. CASE q # stamp
  <2>1. k \in 1..Len(S) /\ q = S[k]
    BY <1>2, <1>5 DEF NextStatement
  <2>2. View(m) = Before(S, b.rev, k)
    <3>1. View(m) = (Built(b.from) \ b.removed) \cup b.added
      BY <1>4 DEF View, Inv, CatalogMatchesVersion
    <3>2. k - 1 = b.at
      BY <1>2
    <3> QED BY <1>1, <3>1, <3>2 DEF OnTrack, Reached, Before
  <2>3. Possible(S[k], Before(S, b.rev, k)) => Succeeds(m)
    BY <1>5, <2>1, <2>2 DEF Succeeds
  <2>4. IF Up(b) THEN b.from <= b.rev ELSE b.to < b.from
    BY <1>1, <1>2 DEF Underway, Up
  <2>5. version <= 1 => accounts = {}
    <3>1. version \in 0..1 => objects = {}
      BY BuiltNames DEF Inv, CatalogMatchesVersion
    <3> QED BY <1>2, <1>4, <3>1 DEF Inv, RowsSatisfyIndexes
  <2>6. version = 2 => Satisfied("uq_users_email", accounts)
    <3>1. version = 2 => "uq_users_email" \in objects
      BY BuiltNames DEF Inv, CatalogMatchesVersion
    <3> QED BY <3>1, IndexNames DEF Inv, RowsSatisfyIndexes
  <2>7. CASE Up(b)
    <3>1. CASE b.rev = 1 /\ S = IdentityDomainUp
      <4>1. accounts = {}
        BY <1>2, <1>4, <2>4, <2>5, <2>7, <3>1
      <4> QED BY <2>1, <2>3, <3>1, <4>1, ScriptLengths, IdentityDomainUpFits
    <3>2. CASE b.rev = 2 /\ S = EmailUniquenessUp
      <4>1. Satisfied("uq_users_email", accounts)
        <5>1. version \in 0..7 /\ version <= 2
          BY <1>2, <1>4, <2>4, <2>7, <3>2
        <5>2. accounts = {} => Satisfied("uq_users_email", accounts)
          BY NoRows
        <5> QED BY <2>5, <2>6, <5>1, <5>2
      <4> QED BY <2>1, <2>3, <3>2, <4>1, ScriptLengths, EmailUniquenessUpFits
    <3>3. CASE \/ b.rev = 3 /\ S = SessionsUp
               \/ b.rev = 4 /\ S = AuditUp
               \/ b.rev = 5 /\ S = CustomerUp
               \/ b.rev = 6 /\ S = SavedAddressesUp
      BY <2>1, <2>3, <3>3, ScriptLengths, SessionsUpFits, AuditUpFits, CustomerUpFits,
         SavedAddressesUpFits
    <3>4. S # <<>>
      BY <2>1
    <3>5. \/ S = <<>>
          \/ b.rev = 1 /\ S = IdentityDomainUp
          \/ b.rev = 2 /\ S = EmailUniquenessUp
          \/ b.rev = 3 /\ S = SessionsUp
          \/ b.rev = 4 /\ S = AuditUp
          \/ b.rev = 5 /\ S = CustomerUp
          \/ b.rev = 6 /\ S = SavedAddressesUp
      BY <1>1, <2>7, WhichUpgrade
    <3> HIDE DEF b, S, k, q
    <3> QED BY <3>1, <3>2, <3>3, <3>4, <3>5
  <2>8. CASE ~Up(b)
    <3>1. CASE b.rev = 3 /\ S = EmailUniquenessDown
      <4>1. \/ Possible(S[k], Before(S, b.rev, k))
            \/ q = create_index("uq_users_email", "users") /\ ~Satisfied("uq_users_email", accounts)
        BY <2>1, <3>1, ScriptLengths, EmailUniquenessDownFits
      <4>2. ~Satisfied("uq_users_email", accounts) =>
              \E a, c \in accounts : a # c /\ "email" \in DOMAIN a \cap DOMAIN c /\ a.email =
                c.email
        <5>1. ToSet(IndexesOf["users"]["uq_users_email"].columns) = {"email"}
          BY TupleSets DEF IndexesOf, users_indexes, Meta!UniqueIndex
        <5> QED BY <5>1 DEF Satisfied
      <4> QED BY <2>3, <2>4, <2>8, <4>1, <4>2
    <3>2. CASE b.rev = 2 /\ S = IdentityDomainDown
      BY <2>1, <2>3, <3>2, ScriptLengths, IdentityDomainDownFits
    <3>3. CASE \/ b.rev = 4 /\ S = SessionsDown
               \/ b.rev = 5 /\ S = AuditDown
               \/ b.rev = 6 /\ S = CustomerDown
      BY <2>1, <2>3, <3>3, ScriptLengths, SessionsDownFits, AuditDownFits, CustomerDownFits
    <3>4. CASE b.rev = 7 /\ S = SavedAddressesDown
      <4>1. k = 1
        BY <1>2, <2>1, <3>4, ScriptLengths
      <4> QED BY <2>3, <3>4, <4>1, SavedAddressesDownFits
    <3>5. S # <<>>
      BY <2>1
    <3>6. \/ S = <<>>
          \/ b.rev = 2 /\ S = IdentityDomainDown
          \/ b.rev = 3 /\ S = EmailUniquenessDown
          \/ b.rev = 4 /\ S = SessionsDown
          \/ b.rev = 5 /\ S = AuditDown
          \/ b.rev = 6 /\ S = CustomerDown
          \/ b.rev = 7 /\ S = SavedAddressesDown
      BY <1>1, <2>8, WhichDowngrade
    <3> HIDE DEF b, S, k, q
    <3> QED BY <3>1, <3>2, <3>3, <3>4, <3>5, <3>6
  <2> QED BY <2>7, <2>8
<1> QED BY <1>3, <1>5

\* A command that finds only the row it read still there can be stopped by one
\* statement only, the unique index over emails a downgrade restores, and by
\* one reason only, two accounts with the same email.
THEOREM OnlyDuplicatesStop == Spec => []OnlyDuplicatesStopACommand
<1>1. ASSUME Inv PROVE OnlyDuplicatesStopACommand
  BY <1>1, NothingElseStops DEF OnlyDuplicatesStopACommand
<1> QED BY <1>1, InvariantHolds, PTL
===============================================================================
