--------------------------- MODULE SignInContract ---------------------------
(***************************************************************************)
(* What signing in promises to the rest of the system: a code becomes      *)
(* usable once it was sent, and a sign-in takes the account of its         *)
(* identity and the device it came from, creates those it does not find,   *)
(* opens a session and uses its code up, all of it at once or nothing.     *)
(* The statements, the locks and the races by which SignIn does it are not *)
(* seen here.                                                              *)
(***************************************************************************)
CONSTANTS Phones, Identities, Emails, Devices, Requests, Codes, None

VARIABLES
  codes,     \* each code: absent, active or verified
  phone,     \* the phone number it was sent to
  accounts,  \* each with its identity and its e-mail, if any
  devices,   \* each with its account and what it is
  logins     \* each with its account, its device and the code it used, if any

vars == <<codes, phone, accounts, devices, logins>>

Init ==
  /\ codes = [n \in Codes |-> "absent"]
  /\ phone = [n \in Codes |-> None]
  /\ accounts = {} /\ devices = {} /\ logins = {}

Send(n, p) ==
  /\ codes[n] = "absent"
  /\ codes' = [codes EXCEPT ![n] = "active"]
  /\ phone' = [phone EXCEPT ![n] = p]
  /\ UNCHANGED <<accounts, devices, logins>>

\* The account of i is the row a, or there is none and r's new row becomes
\* it, with an e-mail that no account has.
FindOrRegister(r, i, a) ==
  \/ /\ \E x \in accounts : x.id = a /\ x.identity = i
     /\ UNCHANGED accounts
  \/ /\ a = r
     /\ \E e \in Emails \cup {None} :
          /\ i \in Phones => e = None
          /\ \A x \in accounts : x.identity # i /\ x.id # r /\ (e # None => x.email # e)
          /\ accounts' = accounts \cup {[id |-> a, identity |-> i, email |-> e]}

\* Likewise the device d of the account a.
FindOrCreate(r, a, d, o) ==
  \/ /\ [id |-> d, account |-> a, on |-> o] \in devices
     /\ UNCHANGED devices
  \/ /\ \A x \in devices : (x.account = a => x.on # o) /\ x.id # r
     /\ d = r
     /\ devices' = devices \cup {[id |-> d, account |-> a, on |-> o]}

\* A code is good for the phone number it was sent to.
Use(n, i) ==
  \/ n = None /\ UNCHANGED codes
  \/ /\ n \in Codes /\ codes[n] # "absent" /\ phone[n] = i
     /\ codes' = [codes EXCEPT ![n] = "verified"]

\* The sign-in r of the identity i from the device o, each at most once.
SignIn(r, i, o) ==
  /\ \A l \in logins : l.id # r
  /\ \E a \in Requests :
       /\ FindOrRegister(r, i, a)
       /\ \E d \in Requests :
            /\ FindOrCreate(r, a, d, o)
            /\ \E n \in Codes \cup {None} :
                 /\ i \in Phones <=> n # None
                 /\ Use(n, i)
                 /\ logins' = logins \cup {[id |-> r, account |-> a, device |-> d, code |-> n]}
  /\ UNCHANGED phone

Next ==
  \/ \E n \in Codes, p \in Phones : Send(n, p)
  \/ \E r \in Requests, i \in Identities, o \in Devices : SignIn(r, i, o)

Spec == Init /\ [][Next]_vars
=============================================================================
