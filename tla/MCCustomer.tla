------------------------------ MODULE MCCustomer ------------------------------
(* Values for model-checking Customer. *)
EXTENDS CustomerInv

CONSTANTS u1, u2, a1, a2

Ask(op, u, a, is_default, rest) ==
  [op |-> op, user |-> u, address |-> a, is_default |-> is_default, rest |-> rest,
   header |-> <<>>]
Register(u, header) == [Ask("register", u, a1, Absent, Absent) EXCEPT !.header = header]

\* u1 does everything; u2 registers with some header or asks for u1's address.
MCInputs ==
  {Ask("profile", u1, a1, Absent, Absent), Ask("edit", u1, a1, Absent, "changed"),
   Ask("create", u1, a1, Yes, Absent), Ask("create", u1, a1, No, Absent),
   Ask("update", u1, a1, Yes, Absent), Ask("update", u1, a2, Yes, "changed"),
   Ask("update", u1, a1, No, Absent), Ask("update", u1, a1, Absent, Null),
   Ask("delete", u1, a1, Absent, Absent), Ask("update", u2, a1, Yes, Absent),
   Register(u2, << [tag |-> "en", q |-> 10], [tag |-> "ar", q |-> Malformed] >>),
   Register(u2, << [tag |-> "fr", q |-> 10], [tag |-> "en", q |-> 5], [tag |-> "ar_AE", q |-> 8] >>)}
===============================================================================
