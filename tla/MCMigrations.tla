----------------------------- MODULE MCMigrations -----------------------------
(* Values for model-checking Migrations. *)
EXTENDS MigrationsInv

\* One person known to two providers by the same email, and an account of a
\* phone number, which has neither subject nor email.
MCAccounts == {[auth_provider |-> "google", external_auth_subject |-> "s1", email |-> "e1"],
               [auth_provider |-> "apple",  external_auth_subject |-> "s1", email |-> "e1"],
               [auth_provider |-> "mobile_otp", phone_country_code |-> "+971", phone_number |-> "p1"]}
===============================================================================
