------------------------------- MODULE SignInInv -------------------------------
(***************************************************************************)
(* The inductive invariant of SignIn: what the rows a running request works *)
(* on have to do with the committed ones, statement by statement.           *)
(***************************************************************************)
EXTENDS SignIn

\* A committed row is named by the request that committed it, and says of it
\* what the request says of itself.
RowsTell ==
  /\ \A a \in accounts : pc[a.id] = "ok" /\ a.identity = who[a.id] /\ a.email = email[a.id]
  /\ \A d \in devices  : pc[d.id] = "ok" /\ d.account = account[d.id] /\ d.on = on[d.id]
  /\ \A l \in logins   : /\ pc[l.id] = "ok" /\ kind[l.id] \in {"otp", "oauth"}
                         /\ l.account = account[l.id] /\ l.device = device[l.id]
                         /\ l.code = row[l.id]

\* The account a sign-in works on: its own new one, which nobody has
\* committed meanwhile, or the committed one of its identity.
AccountIs(r) == \E a \in accounts : a.id = account[r] /\ a.identity = who[r]
DeviceIs(r)  == \E d \in devices : d.id = device[r] /\ d.account = account[r] /\ d.on = on[r]

Locked(r) == pc[r] \in {"email", "device", "seen", "finish"}

Works(r) ==
  /\ pc[r] = "touch" => AccountIs(r)
  /\ Locked(r) => AccountIs(r) \/ (account[r] = r /\ AccountsOf(who[r]) = {})
  /\ pc[r] = "email" => account[r] = r /\ email[r] # None
  /\ HoldsEmail(r, email[r]) /\ email[r] # None => OwnersOf(email[r]) = {}
  /\ pc[r] = "seen" => DeviceIs(r)
  /\ pc[r] = "finish" => DeviceIs(r) \/ (device[r] = r /\ DevicesOf(account[r], on[r]) = {})

\* No two requests are past the lock of one account, or have one e-mail entered.
OneHolder == \A q, r \in Requests :
  \/ Locked(q) /\ Locked(r) /\ who[q] = who[r]
  \/ email[r] # None /\ HoldsEmail(q, email[r]) /\ HoldsEmail(r, email[r])
  => q = r

\* The endpoint a statement belongs to, and the arguments it came with.
Kind(r) ==
  /\ pc[r] = "idle" => row[r] = None /\ email[r] = None
  /\ kind[r] \in {"none", "oauth"} => row[r] = None
  /\ kind[r] # "oauth" => email[r] = None
  /\ kind[r] = "requestOtp" => who[r] \in Phones /\ row[r] \in Codes
  /\ kind[r] = "otp" => who[r] \in Phones
  /\ kind[r] = "oauth" => who[r] \in Subjects
  /\ kind[r] \in {"otp", "oauth"} => who[r] \in Identities /\ on[r] \in Devices
  /\ pc[r] = "sending" => kind[r] = "requestOtp"
  /\ pc[r] \in {"read", "miss", "use"} => kind[r] = "otp"
  /\ Signing(r) => kind[r] \in {"otp", "oauth"}

\* The code a sign-in works on: it was sent to that phone, was submitted, and
\* had not been used when the request arrived.
CodeOf(r) ==
  /\ kind[r] = "otp" /\ (Signing(r) \/ pc[r] \in {"miss", "use", "ok"}) =>
       /\ row[r] \in Codes /\ codes[row[r]] # "absent" /\ phone[row[r]] = who[r]
       /\ row[r] \notin before[r].used
       /\ pc[r] # "miss" => guess[r] = row[r]
  /\ pc[r] = "miss" => seen[r] < MaxAttempts

\* A row being sent is nobody else's and not committed, as are later ones.
CodesAreNew ==
  /\ \A n \in Codes : created < n => codes[n] = "absent"
  /\ \A r \in Requests : pc[r] = "sending" =>
       /\ row[r] <= created
       /\ codes[row[r]] = "absent"
       /\ \A q \in Requests : pc[q] = "sending" /\ row[q] = row[r] => q = r

\* What was committed when a request arrived still is.
HistoryKept == \A r \in Requests :
  /\ before[r].used \subseteq Used
  /\ before[r].known \subseteq Known
  /\ pc[r] \in {"insert", "email", "conflict"} => who[r] \notin before[r].known

Shape ==
  /\ \A r \in Requests : Kind(r) /\ CodeOf(r)
  /\ CodesAreNew
  /\ HistoryKept

IInv ==
  /\ TypeOK
  /\ Shape
  /\ RowsTell
  /\ OneHolder
  /\ \A r \in Requests : Works(r)
  /\ OneAccount
  /\ OneDeviceRow
  /\ LoginsMatch
  /\ CodesSpentBySignIn
=============================================================================
