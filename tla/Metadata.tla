------------------------------- MODULE Metadata -------------------------------
(***************************************************************************)
(* Base.metadata: the tables the SQLAlchemy models declare, which is what  *)
(* every query of the application takes for granted.  A table has its      *)
(* schema, its columns (those that may be NULL and those that may not),    *)
(* its foreign keys as <<column, table>>, its unique constraints as sets   *)
(* of columns, the enum types of its columns and its indexes.  Column      *)
(* types, lengths and server defaults are left out.                        *)
(***************************************************************************)

\* An index over the columns; a partial one covers the rows that have the
\* column named by where (postgresql_where: that column IS NOT NULL).
Index(columns, where) == [columns |-> columns, unique |-> FALSE, where |-> where]
UniqueIndex(columns, where) == [columns |-> columns, unique |-> TRUE, where |-> where]
NoIndex == [i \in {} |-> i]

Table(schema, required, optional, refs, unique, enums, indexes) ==
  [schema |-> schema, required |-> required, optional |-> optional, refs |-> refs,
   unique |-> unique, enums |-> enums, indexes |-> indexes]

CommonColumnsMixin ==
  [required |-> {"id", "created_at", "updated_at", "is_active", "version"},
   optional |-> {"created_by", "updated_by", "deleted_at"},
   refs     |-> {<<"created_by", "users">>, <<"updated_by", "users">>}]

\* A business table: what it declares and the columns every one of them has.
Entity(schema, required, optional, refs, unique, enums, indexes) ==
  Table(schema, required \cup CommonColumnsMixin.required,
        optional \cup CommonColumnsMixin.optional, refs \cup CommonColumnsMixin.refs,
        unique, enums, indexes)

-----------------------------------------------------------------------------
(* identity/models.py *)

IdentityEnums ==
  [user_status     |-> {"active", "suspended", "deleted"},
   auth_provider   |-> {"google", "apple", "mobile_otp", "email_password"},
   device_platform |-> {"ios", "android"},
   language_code   |-> {"en", "ar"},
   otp_purpose     |-> {"registration", "login", "arrival_verification", "claim_listing"}]

User == Entity("identity", {"auth_provider", "status", "preferred_language"},
  {"email", "email_verified_at", "phone_country_code", "phone_number", "phone_verified_at",
   "password_hash", "external_auth_subject", "last_login_at"},
  {}, {}, {"auth_provider", "user_status", "language_code"},
  [uq_users_email_provider |-> UniqueIndex(<<"auth_provider", "email">>, "email"),
   uq_users_phone          |-> UniqueIndex(<<"phone_country_code", "phone_number">>, "phone_number"),
   uq_users_external_auth  |-> UniqueIndex(<<"auth_provider", "external_auth_subject">>,
                                           "external_auth_subject"),
   idx_users_email         |-> Index(<<"email">>, ""),
   idx_users_phone_number  |-> Index(<<"phone_number">>, ""),
   idx_users_status        |-> Index(<<"status">>, "")])

Role == Entity("identity", {"name"}, {"description"}, {}, {{"name"}}, {}, NoIndex)

Permission == Entity("identity", {"code"}, {"description"}, {}, {{"code"}}, {}, NoIndex)

RolePermission == Table("identity", {"role_id", "permission_id", "created_at"}, {},
  {<<"role_id", "roles">>, <<"permission_id", "permissions">>},
  {{"role_id", "permission_id"}}, {}, NoIndex)

UserRole == Table("identity", {"user_id", "role_id", "created_at"}, {},
  {<<"user_id", "users">>, <<"role_id", "roles">>}, {{"user_id", "role_id"}}, {}, NoIndex)

Device == Entity("identity", {"user_id", "platform", "is_trusted"},
  {"device_name", "push_token", "last_seen_at"}, {<<"user_id", "users">>}, {},
  {"device_platform"}, [idx_devices_user_id |-> Index(<<"user_id">>, "")])

Session == Entity("identity", {"user_id", "expires_at"},
  {"device_id", "ip_address", "user_agent", "revoked_at"},
  {<<"user_id", "users">>, <<"device_id", "devices">>}, {}, {},
  [idx_sessions_user_id    |-> Index(<<"user_id">>, ""),
   idx_sessions_expires_at |-> Index(<<"expires_at">>, "")])

RefreshToken == Entity("identity", {"user_id", "session_id", "token_hash", "expires_at"},
  {"revoked_at", "replaced_by_token_id"},
  {<<"user_id", "users">>, <<"session_id", "sessions">>,
   <<"replaced_by_token_id", "refresh_tokens">>},
  {{"token_hash"}}, {}, [idx_refresh_tokens_user_id |-> Index(<<"user_id">>, "")])

OtpVerification == Entity("identity",
  {"phone_country_code", "phone_number", "purpose", "code_hash", "attempt_count", "expires_at"},
  {"user_id", "verified_at"}, {<<"user_id", "users">>}, {}, {"otp_purpose"},
  [idx_otp_verifications_phone   |-> Index(<<"phone_country_code", "phone_number">>, ""),
   idx_otp_verifications_user_id |-> Index(<<"user_id">>, "")])

-----------------------------------------------------------------------------
(* audit/models.py and customer/models.py *)

AuditLog == Table("audit", {"id", "action", "entity_type", "created_at"},
  {"actor_user_id", "entity_id", "before_state", "after_state", "ip_address"},
  {<<"actor_user_id", "users">>}, {}, {},
  [idx_audit_logs_actor_user_id         |-> Index(<<"actor_user_id">>, ""),
   idx_audit_logs_entity_type_entity_id |-> Index(<<"entity_type", "entity_id">>, ""),
   idx_audit_logs_created_at            |-> Index(<<"created_at">>, "")])

CustomerEnums == [notification_channel |-> {"whatsapp", "sms", "email"}]

CustomerProfile == Entity("customer", {"user_id", "display_name"}, {"avatar_url"},
  {<<"user_id", "users">>}, {{"user_id"}}, {},
  [idx_customer_profiles_user_id |-> Index(<<"user_id">>, "")])

\* language reuses the enum type of the identity schema.
CustomerPreferences == Entity("customer", {"customer_id", "notification_channel", "language"}, {},
  {<<"customer_id", "customer_profiles">>}, {{"customer_id"}},
  {"notification_channel", "language_code"},
  [idx_customer_preferences_customer_id |-> Index(<<"customer_id">>, "")])

\* Its partial unique index covers the rows with is_default and is_active.
SavedAddress == Entity("customer",
  {"customer_id", "address_line", "country_code", "latitude", "longitude", "is_default"},
  {"label", "city", "region"}, {<<"customer_id", "customer_profiles">>}, {}, {},
  [idx_saved_addresses_customer_id     |-> Index(<<"customer_id">>, ""),
   uq_saved_addresses_customer_default |-> UniqueIndex(<<"customer_id">>, "is_default, is_active")])

-----------------------------------------------------------------------------
\* All that env.py imports into one metadata.
target_metadata ==
  [users |-> User, roles |-> Role, permissions |-> Permission,
   role_permissions |-> RolePermission, user_roles |-> UserRole, devices |-> Device,
   sessions |-> Session, refresh_tokens |-> RefreshToken,
   otp_verifications |-> OtpVerification, audit_logs |-> AuditLog,
   customer_profiles |-> CustomerProfile, customer_preferences |-> CustomerPreferences,
   saved_addresses |-> SavedAddress]
===============================================================================
