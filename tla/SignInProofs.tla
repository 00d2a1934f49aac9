----------------------------- MODULE SignInProofs -----------------------------
(***************************************************************************)
(* Theorems about SignIn, for any phones, subjects, devices and requests,   *)
(* any number of codes and any attempt cap.  Types, then the statement by   *)
(* statement shape of a request, then what is committed.                    *)
(***************************************************************************)
EXTENDS SignInInv, TLAPS

\* A request that a step of another one does not touch.
Same(q) ==
  /\ pc'[q] = pc[q] /\ kind'[q] = kind[q] /\ who'[q] = who[q] /\ email'[q] = email[q] /\ guess'[q] = guess[q]
  /\ row'[q] = row[q] /\ seen'[q] = seen[q] /\ account'[q] = account[q]
  /\ device'[q] = device[q] /\ on'[q] = on[q] /\ before'[q] = before[q]

\* The committed rows only grow.
Grows ==
  /\ \A n \in Codes : /\ codes[n] = "verified" => codes'[n] = "verified"
                      /\ codes[n] # "absent" => codes'[n] # "absent" /\ phone'[n] = phone[n]
  /\ accounts \subseteq accounts' /\ devices \subseteq devices' /\ logins \subseteq logins'

AllWork == \A r \in Requests : Works(r)

\* Everything a request does or suffers.
Serves(r) == Begin(r) \/ Step(r) \/ Abort(r)

-----------------------------------------------------------------------------
(* Types *)

LEMMA InitTyped == Init => TypeOK
BY BoundAssumption DEF Init, TypeOK, Codes

LEMMA FinishTyped ==
  ASSUME TypeOK, NEW r \in Requests, NEW o \in Outcomes, Finish(r, o)
  PROVE  TypeOK'
BY DEF TypeOK, Finish, dbVars, argVars, rowVars, Outcomes

LEMMA AdvanceTyped ==
  ASSUME TypeOK, NEW r \in Requests, NEW next \in Running, Advance(r, next),
         row' \in [Requests -> Codes \cup {None}],
         seen' \in [Requests -> 0 .. MaxAttempts],
         account' \in [Requests -> Requests \cup {None}],
         device' \in [Requests -> Requests \cup {None}]
  PROVE  TypeOK'
BY DEF TypeOK, Advance, dbVars, argVars

LEMMA ArriveTyped ==
  ASSUME TypeOK, NEW r \in Requests, NEW k \in {"requestOtp", "otp", "oauth"},
         NEW i \in Identities, NEW g \in 0 .. MaxCodes, NEW d \in Devices \cup {None},
         NEW first \in Running, Arrive(r, k, i, g, d, first),
         created' \in 0 .. MaxCodes, row' \in [Requests -> Codes \cup {None}],
         email' \in [Requests -> Emails \cup {None}]
  PROVE  TypeOK'
<1>1. [used |-> Used, known |-> Known] \in [used : SUBSET Codes, known : SUBSET Identities]
  BY DEF Used, Known, TypeOK, Account
<1>2. before' \in [Requests -> [used : SUBSET Codes, known : SUBSET Identities]]
  BY <1>1 DEF Arrive, TypeOK
<1> QED BY <1>2 DEF TypeOK, Arrive, dbVars

LEMMA BeginTyped == ASSUME TypeOK, NEW r \in Requests, Begin(r) PROVE TypeOK'
<1>1. CASE BeginRequestOtp(r)
  <2>1. created' \in 1 .. MaxCodes /\ row' \in [Requests -> Codes \cup {None}]
    BY <1>1, BoundAssumption DEF BeginRequestOtp, TypeOK, Codes
  <2>2. PICK p \in Phones : Arrive(r, "requestOtp", p, 0, None, "sending")
    BY <1>1 DEF BeginRequestOtp
  <2>3. created' \in 0 .. MaxCodes /\ email' \in [Requests -> Emails \cup {None}] /\ 0 \in 0 .. MaxCodes
    BY <1>1, <2>1, BoundAssumption DEF BeginRequestOtp, TypeOK
  <2> QED BY <2>1, <2>2, <2>3, ArriveTyped DEF Running, Identities
<1>2. CASE BeginVerifyOtp(r)
  <2>1. 0 .. created \subseteq 0 .. MaxCodes
    BY BoundAssumption DEF TypeOK
  <2> QED BY <1>2, <2>1, ArriveTyped DEF BeginVerifyOtp, Running, Identities, TypeOK
<1>3. CASE BeginOAuth(r)
  <2>1. email' \in [Requests -> Emails \cup {None}]
    BY <1>3, EmailsAssumption DEF BeginOAuth, TypeOK
  <2>2. PICK i \in Subjects, d \in Devices : Arrive(r, "oauth", i, 0, d, "find")
    BY <1>3 DEF BeginOAuth
  <2>3. created' \in 0 .. MaxCodes /\ row' \in [Requests -> Codes \cup {None}] /\ 0 \in 0 .. MaxCodes
    BY <1>3, BoundAssumption DEF BeginOAuth, TypeOK
  <2> QED BY <2>1, <2>2, <2>3, ArriveTyped DEF Running, Identities
<1> QED BY <1>1, <1>2, <1>3 DEF Begin

LEMMA CommitTyped ==
  ASSUME TypeOK, Shape, AllWork, NEW r \in Requests, CommitRequestOtp(r) \/ CommitSignIn(r)
  PROVE  TypeOK'
<1>1. Kind(r) /\ Works(r)
  BY DEF Shape, AllWork
<1>2. CASE CommitRequestOtp(r)
  BY <1>1, <1>2 DEF CommitRequestOtp, TypeOK, Kind, argVars, rowVars, Outcomes
<1>3. CASE CommitSignIn(r)
  <2>1. /\ kind[r] \in {"otp", "oauth"} /\ who[r] \in Identities /\ on[r] \in Devices
        /\ row[r] \in Codes \cup {None}
    BY <1>1, <1>3 DEF CommitSignIn, Kind, Signing, TypeOK
  <2>2. account[r] \in Requests /\ device[r] \in Requests
    BY <1>1, <1>3 DEF CommitSignIn, Works, Locked, AccountIs, DeviceIs, TypeOK, Account, Device
  <2>3. accounts' \subseteq Account
    BY <1>3, <2>1 DEF CommitSignIn, TypeOK, Account
  <2>4. devices' \subseteq Device
    BY <1>3, <2>1, <2>2 DEF CommitSignIn, TypeOK, Device
  <2>5. logins' \subseteq Login
    BY <1>3, <2>1, <2>2 DEF CommitSignIn, TypeOK, Login
  <2>6. codes' \in [Codes -> {"absent", "active", "verified"}]
    BY <1>3 DEF CommitSignIn, CodesAfter, TypeOK
  <2> QED BY <1>3, <2>3, <2>4, <2>5, <2>6 DEF CommitSignIn, TypeOK, argVars, rowVars, Outcomes
<1> QED BY <1>2, <1>3

LEMMA StepTyped ==
  ASSUME TypeOK, Shape, AllWork, NEW r \in Requests, Step(r)
  PROVE  TypeOK'
<1>1. Kind(r) /\ CodeOf(r)
  BY DEF Shape
<1>2. CASE ReadCode(r)
  <2>1. ASSUME NEW n \in Newest(who[r]), attempts[n] < MaxAttempts,
               row' = [row EXCEPT ![r] = n], seen' = [seen EXCEPT ![r] = attempts[n]],
               Advance(r, IF guess[r] = n THEN "use" ELSE "miss"), UNCHANGED <<account, device>>
        PROVE  TypeOK'
    <3>1. n \in Codes
      BY DEF Newest, Active
    <3>2. row' \in [Requests -> Codes \cup {None}] /\ seen' \in [Requests -> 0 .. MaxAttempts]
      BY <2>1, <3>1 DEF TypeOK
    <3> QED BY <2>1, <3>2, AdvanceTyped DEF Running, TypeOK
  <2> QED BY <1>2, <2>1, FinishTyped DEF ReadCode, Outcomes
<1>3. CASE CountMiss(r)
  <2>1. seen[r] + 1 \in 0 .. MaxAttempts
    BY <1>1, <1>3, BoundAssumption DEF CountMiss, CodeOf, TypeOK
  <2> QED BY <1>3, <2>1 DEF CountMiss, TypeOK, argVars, rowVars, Outcomes
<1>4. CASE UseCode(r) \/ TouchAccount(r) \/ TouchDevice(r)
  BY <1>4, AdvanceTyped DEF UseCode, TouchAccount, TouchDevice, Running, TypeOK, rowVars
<1>5. CASE FindAccount(r)
  <2>1. account' \in [Requests -> Requests \cup {None}]
    BY <1>5 DEF FindAccount, AccountsOf, TypeOK, Account, rowVars
  <2>2. \E next \in Running : Advance(r, next)
    BY <1>5 DEF FindAccount, Running
  <2> QED BY <1>5, <2>1, <2>2, AdvanceTyped DEF FindAccount, TypeOK, rowVars
<1>6. CASE InsertAccount(r)
  <2>1. CASE Finish(r, "conflict")
    BY <2>1, FinishTyped DEF Outcomes
  <2>2. ASSUME NEW next \in Running, Advance(r, next), account' = [account EXCEPT ![r] = r],
               UNCHANGED <<row, seen, device>>
        PROVE  TypeOK'
    BY <2>2, AdvanceTyped DEF TypeOK
  <2> QED BY <1>6, <2>1, <2>2 DEF InsertAccount, Running
<1>7. CASE FindDevice(r)
  <2>1. device' \in [Requests -> Requests \cup {None}]
    BY <1>7 DEF FindDevice, DevicesOf, TypeOK, Device
  <2>2. \E next \in Running : Advance(r, next)
    BY <1>7 DEF FindDevice, Running
  <2> QED BY <1>7, <2>1, <2>2, AdvanceTyped DEF FindDevice, TypeOK
<1>8. CASE CommitRequestOtp(r) \/ CommitSignIn(r)
  BY <1>8, CommitTyped
<1>9. CASE EnterEmail(r)
  BY <1>9, AdvanceTyped, FinishTyped DEF EnterEmail, Running, Outcomes, TypeOK, rowVars
<1> QED BY <1>2, <1>3, <1>4, <1>5, <1>6, <1>7, <1>8, <1>9 DEF Step

LEMMA NextTyped == ASSUME TypeOK, Shape, AllWork, [Next]_vars PROVE TypeOK'
<1>1. ASSUME NEW r \in Requests, Begin(r) PROVE TypeOK'
  BY <1>1, BeginTyped
<1>2. ASSUME NEW r \in Requests, Step(r) PROVE TypeOK'
  BY <1>2, StepTyped
<1>3. ASSUME NEW r \in Requests, Abort(r) PROVE TypeOK'
  BY <1>3, FinishTyped DEF Abort, Outcomes
<1>4. ASSUME NEW n \in Codes, Expire(n) PROVE TypeOK'
  BY <1>4 DEF Expire, TypeOK, dbVars, argVars, rowVars
<1>5. CASE UNCHANGED vars
  BY <1>5 DEF vars, TypeOK
<1> QED BY <1>1, <1>2, <1>3, <1>4, <1>5 DEF Next

-----------------------------------------------------------------------------
(* What a step leaves alone *)

LEMMA OthersSame ==
  ASSUME TypeOK, NEW r \in Requests, Serves(r), NEW q \in Requests, q # r
  PROVE  Same(q)
<1>1. ASSUME NEW o, Finish(r, o) PROVE Same(q)
  BY <1>1 DEF Finish, Same, TypeOK, argVars, rowVars
<1>2. ASSUME NEW k, NEW i, NEW g, NEW d, NEW first, Arrive(r, k, i, g, d, first), row'[q] = row[q],
             email'[q] = email[q]
      PROVE  Same(q)
  BY <1>2 DEF Arrive, Same, TypeOK
<1>3. CASE Begin(r)
  BY <1>2, <1>3 DEF Begin, BeginRequestOtp, BeginVerifyOtp, BeginOAuth, TypeOK
<1>4. ASSUME NEW next, Advance(r, next), row'[q] = row[q], seen'[q] = seen[q],
             account'[q] = account[q], device'[q] = device[q]
      PROVE  Same(q)
  BY <1>4 DEF Advance, Same, TypeOK, argVars
<1>5. CASE ReadCode(r)
  BY <1>1, <1>4, <1>5 DEF ReadCode, TypeOK
<1>6. CASE UseCode(r) \/ TouchAccount(r) \/ TouchDevice(r)
  BY <1>4, <1>6 DEF UseCode, TouchAccount, TouchDevice, rowVars
<1>7. CASE FindAccount(r)
  BY <1>4, <1>7 DEF FindAccount, rowVars, TypeOK
<1>8. CASE InsertAccount(r) \/ EnterEmail(r)
  BY <1>1, <1>4, <1>8 DEF InsertAccount, EnterEmail, TypeOK, rowVars
<1>9. CASE FindDevice(r)
  BY <1>4, <1>9 DEF FindDevice, TypeOK
<1>10. CASE CountMiss(r) \/ CommitRequestOtp(r) \/ CommitSignIn(r)
  BY <1>10 DEF CountMiss, CommitRequestOtp, CommitSignIn, Same, TypeOK, argVars, rowVars
<1>11. CASE Abort(r)
  BY <1>1, <1>11 DEF Abort
<1> QED BY <1>3, <1>5, <1>6, <1>7, <1>8, <1>9, <1>10, <1>11 DEF Serves, Step

\* Only three statements write committed rows.
Writes(r) == CountMiss(r) \/ CommitRequestOtp(r) \/ CommitSignIn(r)

LEMMA OnlyWritesWrite ==
  ASSUME NEW r \in Requests, Serves(r), ~Writes(r)
  PROVE  UNCHANGED dbVars
<1>1. ASSUME NEW o, Finish(r, o) PROVE UNCHANGED dbVars
  BY <1>1 DEF Finish
<1>2. ASSUME NEW next, Advance(r, next) PROVE UNCHANGED dbVars
  BY <1>2 DEF Advance
<1>3. CASE Begin(r)
  BY <1>3 DEF Begin, BeginRequestOtp, BeginVerifyOtp, BeginOAuth, Arrive
<1>4. CASE Abort(r)
  BY <1>1, <1>4 DEF Abort
<1>5. CASE Step(r)
  BY <1>1, <1>2, <1>5 DEF Step, Writes, ReadCode, UseCode, FindAccount, InsertAccount,
     EnterEmail, TouchAccount, FindDevice, TouchDevice
<1> QED BY <1>3, <1>4, <1>5 DEF Serves

LEMMA RequestGrows ==
  ASSUME TypeOK, Shape, NEW r \in Requests, Serves(r)
  PROVE  Grows
<1>1. CASE CountMiss(r)
  BY <1>1 DEF CountMiss, Grows
<1>2. CASE CommitRequestOtp(r)
  <2>1. codes[row[r]] = "absent"
    BY <1>2 DEF CommitRequestOtp, Shape, CodesAreNew
  <2> QED BY <1>2, <2>1 DEF CommitRequestOtp, Grows, TypeOK
<1>3. CASE CommitSignIn(r)
  BY <1>3 DEF CommitSignIn, CodesAfter, Grows, TypeOK
<1>4. CASE ~Writes(r)
  BY <1>4, OnlyWritesWrite DEF dbVars, Grows
<1> QED BY <1>1, <1>2, <1>3, <1>4 DEF Writes

-----------------------------------------------------------------------------
(* The shape of a request *)

LEMMA KindKept ==
  ASSUME TypeOK, Shape, NEW r \in Requests, Serves(r), NEW q \in Requests
  PROVE  Kind(q)'
<1>1. Kind(q) /\ Kind(r)
  BY DEF Shape
<1>2. CASE q # r
  BY <1>1, <1>2, OthersSame DEF Same, Kind, Signing
<1>3. ASSUME q = r, NEW o \in Outcomes, Finish(r, o) PROVE Kind(q)'
  BY <1>1, <1>3 DEF Finish, Kind, Signing, Outcomes, TypeOK, argVars, rowVars
<1>4. ASSUME q = r, NEW next \in Running \ {"sending"}, Advance(r, next), row' = row,
             next \in {"miss", "use"} => kind[r] = "otp",
             next \notin {"miss", "use"} => kind[r] \in {"otp", "oauth"}, next # "read"
      PROVE  Kind(q)'
  BY <1>1, <1>4 DEF Advance, Kind, Signing, Running, TypeOK, argVars
<1>5. CASE q = r /\ Begin(r)
  <2>1. CASE BeginRequestOtp(r)
    <3>1. pc[r] = "idle" /\ created' \in Codes
      BY <2>1, BoundAssumption DEF BeginRequestOtp, Arrive, TypeOK, Codes
    <3> QED BY <1>1, <1>5, <2>1, <3>1 DEF BeginRequestOtp, Arrive, Kind, Signing, TypeOK
  <2>2. CASE BeginVerifyOtp(r)
    BY <1>1, <1>5, <2>2 DEF BeginVerifyOtp, Arrive, Kind, Signing, TypeOK, Identities
  <2>3. CASE BeginOAuth(r)
    BY <1>1, <1>5, <2>3 DEF BeginOAuth, Arrive, Kind, Signing, TypeOK, Identities
  <2> QED BY <1>5, <2>1, <2>2, <2>3 DEF Begin
<1>6. CASE q = r /\ ReadCode(r)
  <2>1. kind[r] = "otp"
    BY <1>1, <1>6 DEF ReadCode, Kind
  <2>2. ASSUME NEW n \in Newest(who[r]), row' = [row EXCEPT ![r] = n],
               Advance(r, IF guess[r] = n THEN "use" ELSE "miss")
        PROVE  Kind(q)'
    BY <1>1, <1>6, <2>1, <2>2 DEF Advance, Kind, Signing, TypeOK, argVars
  <2> QED BY <1>3, <1>6, <2>2 DEF ReadCode, Outcomes
<1>7. CASE q = r /\ (UseCode(r) \/ FindAccount(r) \/ TouchAccount(r) \/ FindDevice(r) \/ TouchDevice(r))
  <2>1. kind[r] \in {"otp", "oauth"} /\ row' = row
    BY <1>1, <1>7 DEF UseCode, FindAccount, TouchAccount, FindDevice, TouchDevice, Kind, Signing, rowVars
  <2> QED BY <1>4, <1>7, <2>1 DEF UseCode, FindAccount, TouchAccount, FindDevice, TouchDevice, Running
<1>8. CASE q = r /\ (InsertAccount(r) \/ EnterEmail(r))
  <2>1. kind[r] \in {"otp", "oauth"}
    BY <1>1, <1>8 DEF InsertAccount, EnterEmail, Kind, Signing
  <2> QED BY <1>3, <1>4, <1>8, <2>1 DEF InsertAccount, EnterEmail, Running, Outcomes, rowVars
<1>9. CASE q = r /\ Writes(r)
  BY <1>1, <1>9 DEF Writes, CountMiss, CommitRequestOtp, CommitSignIn, Kind, Signing, TypeOK, argVars, rowVars
<1>10. CASE q = r /\ Abort(r)
  BY <1>3, <1>10 DEF Abort, Outcomes
<1> QED BY <1>2, <1>5, <1>6, <1>7, <1>8, <1>9, <1>10 DEF Serves, Step, Writes

LEMMA CodeKept ==
  ASSUME TypeOK, Shape, NEW r \in Requests, Serves(r), NEW q \in Requests
  PROVE  CodeOf(q)'
<1>1. CodeOf(q) /\ CodeOf(r) /\ Kind(r) /\ Grows
  BY RequestGrows DEF Shape
<1>2. CASE q # r
  BY <1>1, <1>2, OthersSame DEF Same, CodeOf, Signing, Grows
\* The request goes on, or ends, with the code it has.
<1>3. ASSUME q = r, pc'[r] # "miss",
             kind'[r] = kind[r], who'[r] = who[r], guess'[r] = guess[r],
             row'[r] = row[r], before'[r] = before[r],
             kind[r] = "otp" /\ (Signing(r)' \/ pc'[r] \in {"use", "ok"}) =>
               Signing(r) \/ pc[r] \in {"use", "ok"}
      PROVE  CodeOf(q)'
  BY <1>1, <1>3 DEF CodeOf, Grows, Signing
<1>4. ASSUME NEW o \in Outcomes \ {"ok"}, Finish(r, o), q = r PROVE CodeOf(q)'
  BY <1>3, <1>4 DEF Finish, Signing, Outcomes, TypeOK, argVars, rowVars
<1>5. CASE q = r /\ Begin(r)
  BY <1>5 DEF Begin, BeginRequestOtp, BeginVerifyOtp, BeginOAuth, Arrive, CodeOf, Signing, TypeOK
<1>6. CASE q = r /\ ReadCode(r)
  <2>1. ASSUME NEW n \in Newest(who[r]), attempts[n] < MaxAttempts,
               row' = [row EXCEPT ![r] = n], seen' = [seen EXCEPT ![r] = attempts[n]],
               Advance(r, IF guess[r] = n THEN "use" ELSE "miss")
        PROVE  CodeOf(q)'
    <3>1. n \in Codes /\ codes[n] = "active" /\ phone[n] = who[r]
      BY <2>1 DEF Newest, Active
    <3>2. n \notin before[r].used
      BY <3>1 DEF Shape, HistoryKept, Used
    <3> QED BY <1>6, <2>1, <3>1, <3>2 DEF Advance, CodeOf, Signing, TypeOK, dbVars, argVars
  <2> QED BY <1>4, <1>6, <2>1 DEF ReadCode, Outcomes
<1>7. CASE q = r /\ (UseCode(r) \/ FindAccount(r) \/ TouchAccount(r) \/ FindDevice(r) \/ TouchDevice(r))
  BY <1>3, <1>7 DEF UseCode, FindAccount, TouchAccount, FindDevice, TouchDevice, Advance, Signing,
     TypeOK, argVars, rowVars
<1>8. CASE q = r /\ (InsertAccount(r) \/ EnterEmail(r))
  <2>1. CASE Finish(r, "conflict")
    BY <1>4, <1>8, <2>1 DEF Outcomes
  <2>2. ASSUME NEW next \in {"device", "email"}, Advance(r, next), UNCHANGED <<row, seen, device>>
        PROVE  CodeOf(q)'
    BY <1>3, <1>8, <2>2 DEF InsertAccount, EnterEmail, Advance, Signing, TypeOK, argVars
  <2> QED BY <1>8, <2>1, <2>2 DEF InsertAccount, EnterEmail, rowVars
<1>9. CASE q = r /\ Writes(r)
  <2>1. CASE CountMiss(r) \/ CommitSignIn(r)
    BY <1>3, <1>9, <2>1 DEF CountMiss, CommitSignIn, Signing, TypeOK, argVars, rowVars
  <2>2. CASE CommitRequestOtp(r)
    BY <1>1, <1>9, <2>2 DEF CommitRequestOtp, CodeOf, Kind, Signing, TypeOK, argVars
  <2> QED BY <1>9, <2>1, <2>2 DEF Writes
<1>10. CASE q = r /\ Abort(r)
  BY <1>4, <1>10 DEF Abort, Outcomes
<1> QED BY <1>2, <1>5, <1>6, <1>7, <1>8, <1>9, <1>10 DEF Serves, Step, Writes

LEMMA NewCodesKept ==
  ASSUME TypeOK, Shape, NEW r \in Requests, Serves(r)
  PROVE  CodesAreNew'
<1>1. CodesAreNew /\ Kind(r) /\ CodeOf(r)
  BY DEF Shape
<1>2. CASE BeginRequestOtp(r)
  <2>1. created \in Nat /\ created' = created + 1 /\ created' \in Codes /\ codes' = codes
    BY <1>2, BoundAssumption DEF BeginRequestOtp, Arrive, TypeOK, Codes, dbVars
  <2>2. /\ pc' = [pc EXCEPT ![r] = "sending"] /\ row' = [row EXCEPT ![r] = created']
        /\ pc[r] = "idle"
    BY <1>2 DEF BeginRequestOtp, Arrive
  <2>3. \A q \in Requests : pc[q] = "sending" => row[q] \in Codes /\ row[q] <= created
    BY <1>1 DEF CodesAreNew, Shape, Kind
  <2> QED BY <1>1, <2>1, <2>2, <2>3 DEF CodesAreNew, TypeOK, Codes
<1>3. CASE CommitRequestOtp(r)
  <2>1. /\ pc[r] = "sending" /\ row[r] \in Codes /\ row[r] <= created /\ created' = created /\ row' = row
        /\ codes' = [codes EXCEPT ![row[r]] = "active"] /\ pc' = [pc EXCEPT ![r] = "ok"]
    BY <1>1, <1>3 DEF CommitRequestOtp, CodesAreNew, Kind, rowVars
  <2>2. \A q \in Requests : pc'[q] = "sending" => pc[q] = "sending" /\ q # r
    BY <2>1 DEF TypeOK
  <2>3. created \in Nat /\ \A n \in Codes : created < n => n # row[r]
    BY <2>1, BoundAssumption DEF TypeOK, Codes
  <2> QED BY <1>1, <2>1, <2>2, <2>3 DEF CodesAreNew, TypeOK
<1>4. CASE CommitSignIn(r)
  <2>1. /\ pc' = [pc EXCEPT ![r] = "ok"] /\ row' = row /\ created' = created /\ codes' = CodesAfter(r)
    BY <1>4 DEF CommitSignIn, rowVars
  <2>2. \A n \in Codes : codes[n] = "absent" => codes'[n] = "absent"
    BY <1>1, <1>4, <2>1 DEF CommitSignIn, CodesAfter, CodeOf, Signing, TypeOK
  <2>3. \A q \in Requests : pc'[q] = "sending" => pc[q] = "sending"
    BY <2>1 DEF TypeOK
  <2>4. \A q \in Requests : pc[q] = "sending" => row[q] \in Codes
    BY DEF Shape, Kind
  <2> QED BY <1>1, <2>1, <2>2, <2>3, <2>4 DEF CodesAreNew
<1>5. CASE ~BeginRequestOtp(r) /\ ~CommitRequestOtp(r) /\ ~CommitSignIn(r)
  <2>1. codes' = codes
    BY <1>5, OnlyWritesWrite DEF dbVars, Writes, CountMiss
  <2>2. ASSUME NEW o, Finish(r, o) PROVE created' = created /\ row' = row
    BY <2>2 DEF Finish, rowVars
  <2>3. ASSUME NEW next, Advance(r, next) PROVE created' = created
    BY <2>3 DEF Advance
  <2>4. created' = created
    BY <1>5, <2>2, <2>3 DEF Serves, Begin, BeginVerifyOtp, BeginOAuth, Step, Abort, ReadCode, CountMiss, UseCode,
       FindAccount, InsertAccount, EnterEmail, TouchAccount, FindDevice, TouchDevice
  <2>5. pc'[r] # "sending"
    <3>1. ASSUME NEW o \in Outcomes, Finish(r, o) PROVE pc'[r] # "sending"
      BY <3>1 DEF Finish, Outcomes, TypeOK
    <3>2. ASSUME NEW next, next # "sending", Advance(r, next) PROVE pc'[r] # "sending"
      BY <3>2 DEF Advance, TypeOK
    <3>3. CASE Begin(r)
      BY <1>5, <3>3 DEF Begin, BeginVerifyOtp, BeginOAuth, Arrive, TypeOK
    <3>4. CASE Abort(r)
      BY <3>1, <3>4 DEF Abort, Outcomes
    <3>5. CASE Step(r)
      BY <1>5, <3>1, <3>2, <3>5 DEF Step, ReadCode, CountMiss, UseCode, FindAccount, InsertAccount, EnterEmail,
         TouchAccount, FindDevice, TouchDevice, Outcomes, TypeOK
    <3> QED BY <3>3, <3>4, <3>5 DEF Serves
  <2>6. \A q \in Requests : pc'[q] = "sending" => pc[q] = "sending" /\ row'[q] = row[q]
    BY <2>5, OthersSame DEF Same
  <2> QED BY <1>1, <2>1, <2>4, <2>6 DEF CodesAreNew
<1> QED BY <1>2, <1>3, <1>4, <1>5

LEMMA HistoryStays ==
  ASSUME TypeOK, Shape, NEW r \in Requests, Serves(r)
  PROVE  HistoryKept'
<1>1. HistoryKept /\ Grows
  BY RequestGrows DEF Shape
<1>2. Used \subseteq Used' /\ Known \subseteq Known'
  BY <1>1 DEF Grows, Used, Known
<1> DEFINE Keeps(q) == /\ before'[q].used \subseteq Used' /\ before'[q].known \subseteq Known'
                       /\ pc'[q] \in {"insert", "email", "conflict"} => who'[q] \notin before'[q].known
<1>3. ASSUME NEW q \in Requests, q # r PROVE Keeps(q)
  BY <1>1, <1>2, <1>3, OthersSame DEF Same, HistoryKept
<1>4. Keeps(r)
  <2>1. ASSUME before'[r] = before[r], who'[r] = who[r],
               pc'[r] \in {"insert", "email", "conflict"} => pc[r] \in {"insert", "email"} \/ who[r] \notin Known
        PROVE  Keeps(r)
    BY <1>1, <1>2, <2>1 DEF HistoryKept
  <2>2. ASSUME NEW o \in Outcomes, Finish(r, o), o = "conflict" => pc[r] \in {"insert", "email"} PROVE Keeps(r)
    BY <2>1, <2>2 DEF Finish, argVars, Outcomes, TypeOK
  <2>3. ASSUME NEW next \in Running \ {"insert"}, Advance(r, next), next = "email" => pc[r] = "insert" PROVE Keeps(r)
    BY <2>1, <2>3 DEF Advance, argVars, Running, TypeOK
  <2>4. CASE Begin(r)
    <3>1. \E k, i, g, d, first : first \in {"sending", "read", "find"} /\ Arrive(r, k, i, g, d, first)
      BY <2>4 DEF Begin, BeginRequestOtp, BeginVerifyOtp, BeginOAuth
    <3>2. before'[r] = [used |-> Used, known |-> Known] /\ pc'[r] \notin {"insert", "email", "conflict"}
      BY <3>1 DEF Arrive, TypeOK
    <3> QED BY <1>2, <3>2
  <2>5. CASE FindAccount(r)
    <3>1. CASE AccountsOf(who[r]) = {} /\ Advance(r, "insert")
      <4>1. who[r] \notin Known
        BY <3>1 DEF AccountsOf, Known
      <4> QED BY <2>1, <3>1, <4>1 DEF Advance, argVars
    <3> QED BY <2>3, <2>5, <3>1 DEF FindAccount, Running
  <2>6. CASE InsertAccount(r) \/ EnterEmail(r)
    BY <2>2, <2>3, <2>6 DEF InsertAccount, EnterEmail, Outcomes, Running
  <2>7. CASE ReadCode(r)
    BY <2>2, <2>3, <2>7 DEF ReadCode, Outcomes, Running
  <2>8. CASE UseCode(r) \/ TouchAccount(r) \/ FindDevice(r) \/ TouchDevice(r)
    BY <2>3, <2>8 DEF UseCode, TouchAccount, FindDevice, TouchDevice, Running
  <2>9. CASE Writes(r)
    BY <2>1, <2>9 DEF Writes, CountMiss, CommitRequestOtp, CommitSignIn, argVars, TypeOK
  <2>10. CASE Abort(r)
    BY <2>2, <2>10 DEF Abort, Outcomes
  <2> QED BY <2>4, <2>5, <2>6, <2>7, <2>8, <2>9, <2>10 DEF Serves, Step, Writes
<1> QED BY <1>3, <1>4 DEF HistoryKept

LEMMA NextShape == ASSUME TypeOK, Shape, [Next]_vars PROVE Shape'
<1>1. ASSUME NEW r \in Requests, Serves(r) PROVE Shape'
  BY <1>1, KindKept, CodeKept, NewCodesKept, HistoryStays DEF Shape
<1>2. CASE UNCHANGED vars \/ \E n \in Codes : Expire(n)
  <2>1. UNCHANGED <<dbVars, created, pc, argVars, rowVars>>
    BY <1>2 DEF vars, Expire, dbVars, argVars, rowVars
  <2>2. \A r \in Requests : Kind(r)'
    BY <2>1 DEF Shape, Kind, Signing, argVars, rowVars
  <2>3. \A r \in Requests : CodeOf(r)'
    BY <2>1 DEF Shape, CodeOf, Signing, dbVars, argVars, rowVars
  <2>4. CodesAreNew' /\ HistoryKept'
    BY <2>1 DEF Shape, CodesAreNew, HistoryKept, Used, Known, dbVars, argVars, rowVars
  <2> QED BY <2>2, <2>3, <2>4 DEF Shape
<1> QED BY <1>1, <1>2 DEF Next, Serves

-----------------------------------------------------------------------------
(* Committed rows and the requests that work on them *)

\* A request that is served has not committed anything yet.
LEMMA NotDone == ASSUME NEW r \in Requests, Serves(r) PROVE pc[r] # "ok"
BY DEF Serves, Begin, BeginRequestOtp, BeginVerifyOtp, BeginOAuth, Arrive, Abort, Running, Step,
   ReadCode, CountMiss, UseCode, FindAccount, InsertAccount, EnterEmail, TouchAccount, FindDevice, TouchDevice,
   CommitRequestOtp, CommitSignIn

LEMMA RowsTellKept ==
  ASSUME TypeOK, Shape, RowsTell, NEW r \in Requests, Serves(r)
  PROVE  RowsTell'
<1>1. \A q \in Requests : pc[q] = "ok" => Same(q)
  BY NotDone, OthersSame
<1>2. CASE CommitSignIn(r)
  <2>1. /\ pc'[r] = "ok" /\ UNCHANGED <<kind, who, email, account, device, on, row>>
        /\ kind[r] \in {"otp", "oauth"}
    BY <1>2 DEF CommitSignIn, TypeOK, argVars, rowVars, Shape, Kind, Signing
  <2>2. \A a \in accounts' : pc'[a.id] = "ok" /\ a.identity = who'[a.id] /\ a.email = email'[a.id]
    BY <1>1, <1>2, <2>1 DEF CommitSignIn, RowsTell, Same, TypeOK, Account
  <2>3. \A d \in devices' : pc'[d.id] = "ok" /\ d.account = account'[d.id] /\ d.on = on'[d.id]
    BY <1>1, <1>2, <2>1 DEF CommitSignIn, RowsTell, Same, TypeOK, Device
  <2>4. \A l \in logins' : /\ pc'[l.id] = "ok" /\ kind'[l.id] \in {"otp", "oauth"}
                           /\ l.account = account'[l.id] /\ l.device = device'[l.id]
                           /\ l.code = row'[l.id]
    BY <1>1, <1>2, <2>1 DEF CommitSignIn, RowsTell, Same, TypeOK, Login
  <2> QED BY <2>2, <2>3, <2>4 DEF RowsTell
<1>3. CASE ~CommitSignIn(r)
  <2>1. accounts' = accounts /\ devices' = devices /\ logins' = logins
    BY <1>3, OnlyWritesWrite DEF dbVars, Writes, CountMiss, CommitRequestOtp
  <2>2. /\ \A a \in accounts : a.id \in Requests
        /\ \A d \in devices : d.id \in Requests
        /\ \A l \in logins : l.id \in Requests
    BY DEF TypeOK, Account, Device, Login
  <2> QED BY <1>1, <2>1, <2>2 DEF RowsTell, Same
<1> QED BY <1>2, <1>3

\* Locks are taken only when nobody else has them.
LEMMA OneHolderKept ==
  ASSUME TypeOK, RowsTell, OneHolder, AllWork, NEW r \in Requests, Serves(r)
  PROVE  OneHolder'
<1> DEFINE Alone == \A q \in Requests \ {r} : ~(Locked(q) /\ who[q] = who[r])
           Entered(q) == pc[q] \in {"device", "seen", "finish"} /\ account[q] = q /\ email[q] # None
           OnlyOne == \A q \in Requests \ {r} : ~(Entered(q) /\ email[q] = email[r])
<1>1. Locked(r)' => who'[r] = who[r] /\ email'[r] = email[r] /\ (Locked(r) \/ Alone)
  <2>1. ASSUME NEW o \in Outcomes, Finish(r, o) PROVE ~Locked(r)'
    BY <2>1 DEF Finish, Locked, Outcomes, TypeOK
  <2>2. ASSUME NEW next \in Running, Advance(r, next), Locked(r) \/ next \in {"miss", "use", "find", "insert", "touch"}
        PROVE  Locked(r)' => who'[r] = who[r] /\ email'[r] = email[r] /\ Locked(r)
    BY <2>2 DEF Advance, Locked, TypeOK, argVars
  <2>3. CASE Begin(r)
    BY <2>3 DEF Begin, BeginRequestOtp, BeginVerifyOtp, BeginOAuth, Arrive, Locked, TypeOK
  <2>4. CASE ReadCode(r) \/ UseCode(r) \/ FindAccount(r) \/ EnterEmail(r) \/ FindDevice(r) \/ TouchDevice(r)
    BY <2>1, <2>2, <2>4 DEF ReadCode, UseCode, FindAccount, EnterEmail, FindDevice, TouchDevice, Locked, Running,
       Outcomes
  <2>5. ASSUME MayGo(r), pc[r] \in {"insert", "touch"}, NEW next, Advance(r, next)
        PROVE  who'[r] = who[r] /\ email'[r] = email[r] /\ Alone
    <3>1. Alone
      BY <2>5 DEF MayGo, WaitsFor, HoldsIdentity, Locked
    <3> QED BY <2>5, <3>1 DEF Advance, argVars
  <2>6. CASE InsertAccount(r) \/ TouchAccount(r)
    BY <2>1, <2>5, <2>6 DEF InsertAccount, TouchAccount, Outcomes
  <2>7. CASE Writes(r)
    BY <2>7 DEF Writes, CountMiss, CommitRequestOtp, CommitSignIn, Locked, TypeOK
  <2>8. CASE Abort(r)
    BY <2>1, <2>8 DEF Abort, Outcomes
  <2> QED BY <2>3, <2>4, <2>6, <2>7, <2>8 DEF Serves, Step, Writes
<1>2. Entered(r)' => Entered(r) \/ OnlyOne
  <2>1. ASSUME NEW o \in Outcomes, Finish(r, o) PROVE ~Entered(r)'
    BY <2>1 DEF Finish, Outcomes, TypeOK
  <2>2. ASSUME NEW next \in Running \ {"device", "seen", "finish"}, Advance(r, next) PROVE ~Entered(r)'
    BY <2>2 DEF Advance, TypeOK
  <2>3. CASE Begin(r)
    BY <2>3 DEF Begin, BeginRequestOtp, BeginVerifyOtp, BeginOAuth, Arrive, TypeOK
  <2>4. CASE ReadCode(r) \/ UseCode(r) \/ FindAccount(r)
    BY <2>1, <2>2, <2>4 DEF ReadCode, UseCode, FindAccount, Running, Outcomes
  <2>5. CASE InsertAccount(r)
    <3>1. CASE email[r] = None
      BY <2>1, <2>5, <3>1 DEF InsertAccount, Advance, argVars, Outcomes
    <3> QED BY <2>1, <2>2, <2>5, <3>1 DEF InsertAccount, Running, Outcomes
  <2>6. CASE EnterEmail(r)
    <3>1. OnlyOne
      BY <2>6 DEF EnterEmail, MayGo, WaitsFor, HoldsEmail
    <3> QED BY <3>1
  <2>7. CASE TouchAccount(r)
    <3>1. account[r] # r
      BY <2>7 DEF TouchAccount, AllWork, Works, AccountIs, RowsTell
    <3> QED BY <2>7, <3>1 DEF TouchAccount, rowVars
  <2>8. CASE FindDevice(r) \/ TouchDevice(r)
    BY <2>8 DEF FindDevice, TouchDevice, Advance, argVars, rowVars
  <2>9. CASE Writes(r)
    BY <2>9 DEF Writes, CountMiss, CommitRequestOtp, CommitSignIn, TypeOK
  <2>10. CASE Abort(r)
    BY <2>1, <2>10 DEF Abort, Outcomes
  <2> QED BY <2>3, <2>4, <2>5, <2>6, <2>7, <2>8, <2>9, <2>10 DEF Serves, Step, Writes
<1>3. Entered(r)' => email'[r] = email[r]
  BY <1>1 DEF Locked
<1>4. \A q \in Requests \ {r} : /\ (Locked(q)' <=> Locked(q)) /\ who'[q] = who[q]
                               /\ (Entered(q)' <=> Entered(q)) /\ email'[q] = email[q]
  BY OthersSame DEF Same, Locked
<1>5. ASSUME NEW p \in Requests, NEW q \in Requests, Locked(p)', Locked(q)', who'[p] = who'[q] PROVE p = q
  BY <1>1, <1>4, <1>5 DEF OneHolder
<1>6. \A p, q \in Requests : Entered(p) /\ Entered(q) /\ email[p] = email[q] => p = q
  BY DEF OneHolder, HoldsEmail
<1>7. ASSUME NEW p \in Requests, NEW q \in Requests, Entered(p)', Entered(q)', email'[p] = email'[q] PROVE p = q
  <2> HIDE DEF Entered
  <2> QED BY <1>2, <1>3, <1>4, <1>6, <1>7
<1> QED BY <1>5, <1>7 DEF OneHolder, HoldsEmail

\* Two sign-ins past the account lock work on different accounts.
LEMMA OneAtAnAccount ==
  ASSUME TypeOK, RowsTell, OneHolder, AllWork, NEW q \in Requests, NEW r \in Requests,
         Locked(q), Locked(r), account[q] = account[r]
  PROVE  q = r
<1>1. /\ AccountIs(q) \/ account[q] = q
      /\ AccountIs(r) \/ account[r] = r
  BY DEF AllWork, Works
<1>2. ASSUME AccountIs(q), AccountIs(r) PROVE q = r
  BY <1>2 DEF AccountIs, RowsTell, OneHolder
<1>3. ASSUME NEW p \in Requests, Locked(p), NEW o \in Requests, AccountIs(o) PROVE account[o] # p
  BY <1>3 DEF AccountIs, RowsTell, Locked
<1> QED BY <1>1, <1>2, <1>3

LEMMA WorksKept ==
  ASSUME TypeOK, Shape, RowsTell, OneHolder, AllWork, NEW r \in Requests, Serves(r),
         NEW q \in Requests
  PROVE  Works(q)'
<1>1. Works(q) /\ Works(r) /\ Grows
  BY RequestGrows DEF AllWork
<1>2. CASE q # r
  <2>1. Same(q)
    BY <1>2, OthersSame
  <2>2. (AccountIs(q) => AccountIs(q)') /\ (DeviceIs(q) => DeviceIs(q)')
    BY <1>1, <2>1 DEF Same, AccountIs, DeviceIs, Grows
  <2>3. ASSUME Locked(q), AccountsOf(who[q]) = {} PROVE AccountsOf(who[q])' = {}
    <3>1. CASE CommitSignIn(r)
      <4>1. who[r] # who[q]
        BY <1>2, <2>3, <3>1 DEF CommitSignIn, Locked, OneHolder
      <4> QED BY <2>1, <2>3, <3>1, <4>1 DEF CommitSignIn, AccountsOf, Same
    <3>2. CASE ~CommitSignIn(r)
      <4>1. accounts' = accounts
        BY <3>2, OnlyWritesWrite DEF dbVars, Writes, CountMiss, CommitRequestOtp
      <4> QED BY <2>1, <2>3, <4>1 DEF AccountsOf, Same
    <3> QED BY <3>1, <3>2
  <2>4. ASSUME Locked(q), DevicesOf(account[q], on[q]) = {} PROVE DevicesOf(account[q], on[q])' = {}
    <3>1. CASE CommitSignIn(r)
      <4>1. account[r] # account[q]
        BY <1>2, <2>4, <3>1, OneAtAnAccount DEF CommitSignIn, Locked
      <4> QED BY <2>1, <2>4, <3>1, <4>1 DEF CommitSignIn, DevicesOf, Same
    <3>2. CASE ~CommitSignIn(r)
      <4>1. devices' = devices
        BY <3>2, OnlyWritesWrite DEF dbVars, Writes, CountMiss, CommitRequestOtp
      <4> QED BY <2>1, <2>4, <4>1 DEF DevicesOf, Same
    <3> QED BY <3>1, <3>2
  <2>5. Locked(q)' <=> Locked(q)
    BY <2>1 DEF Same, Locked
  <2>6. ASSUME HoldsEmail(q, email[q]), email[q] # None, OwnersOf(email[q]) = {} PROVE OwnersOf(email[q])' = {}
    <3>1. CASE CommitSignIn(r) /\ account[r] = r
      <4>1. email[r] # email[q]
        BY <1>2, <2>6, <3>1 DEF CommitSignIn, HoldsEmail, OneHolder
      <4> QED BY <2>1, <2>6, <3>1, <4>1 DEF CommitSignIn, OwnersOf, Same
    <3>2. CASE ~(CommitSignIn(r) /\ account[r] = r)
      <4>1. accounts' = accounts
        BY <3>2, OnlyWritesWrite DEF dbVars, Writes, CountMiss, CommitRequestOtp, CommitSignIn
      <4> QED BY <2>1, <2>6, <4>1 DEF OwnersOf, Same
    <3> QED BY <3>1, <3>2
  <2>7. HoldsEmail(q, email[q])' <=> HoldsEmail(q, email[q])
    BY <2>1 DEF Same, HoldsEmail
  <2> QED BY <1>1, <2>1, <2>2, <2>3, <2>4, <2>5, <2>6, <2>7 DEF Same, Works, Locked
<1>3. CASE q = r
  <2>1. ASSUME pc'[r] \notin {"touch", "email", "device", "seen", "finish"} PROVE Works(q)'
    BY <1>3, <2>1 DEF Works, Locked, HoldsEmail
  <2>2. ASSUME NEW o \in Outcomes, Finish(r, o) PROVE Works(q)'
    BY <2>1, <2>2 DEF Finish, Outcomes, TypeOK
  <2>3. CASE Begin(r)
    BY <2>1, <2>3 DEF Begin, BeginRequestOtp, BeginVerifyOtp, BeginOAuth, Arrive, TypeOK
  <2>4. CASE ReadCode(r) \/ UseCode(r)
    <3>1. ASSUME NEW next \in {"miss", "use", "find"}, Advance(r, next) PROVE Works(q)'
      BY <2>1, <3>1 DEF Advance, TypeOK
    <3> QED BY <2>2, <2>4, <3>1 DEF ReadCode, UseCode, Outcomes
  <2>5. CASE FindAccount(r)
    <3>1. CASE AccountsOf(who[r]) = {} /\ Advance(r, "insert")
      BY <2>1, <3>1 DEF Advance, TypeOK
    <3>2. ASSUME NEW a \in AccountsOf(who[r]), account' = [account EXCEPT ![r] = a.id], Advance(r, "touch")
          PROVE  Works(q)'
      <4>1. accounts' = accounts /\ who'[r] = who[r] /\ account'[r] = a.id /\ pc'[r] = "touch"
        BY <3>2 DEF Advance, TypeOK, dbVars, argVars
      <4>2. AccountIs(r)'
        BY <4>1 DEF AccountsOf, AccountIs
      <4> QED BY <1>3, <4>1, <4>2 DEF Works, Locked, HoldsEmail
    <3> QED BY <2>5, <3>1, <3>2 DEF FindAccount
  <2>6. CASE InsertAccount(r)
    <3>1. ASSUME AccountsOf(who[r]) = {}, account' = [account EXCEPT ![r] = r],
                 Advance(r, IF email[r] = None THEN "device" ELSE "email")
          PROVE  Works(q)'
      <4>1. /\ account'[r] = r /\ pc'[r] = (IF email[r] = None THEN "device" ELSE "email")
            /\ accounts' = accounts /\ who'[r] = who[r] /\ email'[r] = email[r]
        BY <3>1 DEF Advance, TypeOK, dbVars, argVars
      <4>2. AccountsOf(who[r])' = {}
        BY <3>1, <4>1 DEF AccountsOf
      <4> QED BY <1>3, <4>1, <4>2 DEF Works, Locked, HoldsEmail
    <3> QED BY <2>2, <2>6, <3>1 DEF InsertAccount, Outcomes
  <2>7. CASE TouchAccount(r)
    <3>1. AccountIs(r)' /\ pc'[r] = "device" /\ account'[r] = account[r]
      BY <1>1, <2>7 DEF TouchAccount, Works, AccountIs, Advance, TypeOK, dbVars, argVars, rowVars
    <3>2. account'[r] # r
      BY <1>1, <2>7, <3>1 DEF TouchAccount, Works, AccountIs, RowsTell
    <3> QED BY <1>3, <3>1, <3>2 DEF Works, Locked, HoldsEmail
  <2> DEFINE Settled == /\ AccountIs(r) \/ (account[r] = r /\ AccountsOf(who[r]) = {})
                        /\ account[r] = r /\ email[r] # None => OwnersOf(email[r]) = {}
  <2>8. ASSUME Settled, UNCHANGED <<accounts, account, who, email>> PROVE Settled'
    BY <2>8 DEF AccountIs, AccountsOf, OwnersOf
  <2>9. CASE EnterEmail(r)
    <3>1. CASE OwnersOf(email[r]) = {} /\ Advance(r, "device") /\ UNCHANGED rowVars
      <4>1. Settled /\ UNCHANGED <<accounts, account, who, email>> /\ pc'[r] = "device"
        BY <1>1, <2>9, <3>1 DEF EnterEmail, Works, Locked, Advance, TypeOK, dbVars, argVars, rowVars
      <4> QED BY <1>3, <2>8, <4>1 DEF Works, Locked, HoldsEmail
    <3> QED BY <2>2, <2>9, <3>1 DEF EnterEmail, Outcomes
  <2>10. CASE FindDevice(r)
    <3>1. Settled /\ UNCHANGED <<accounts, account, who, email, on, devices>>
      BY <1>1, <2>10 DEF FindDevice, Works, Locked, HoldsEmail, Advance, dbVars, argVars
    <3>2. CASE DevicesOf(account[r], on[r]) = {} /\ device' = [device EXCEPT ![r] = r] /\ Advance(r, "finish")
      <4>1. device'[r] = r /\ pc'[r] = "finish" /\ DevicesOf(account[r], on[r])' = {}
        BY <3>1, <3>2 DEF Advance, TypeOK, DevicesOf
      <4> QED BY <1>3, <2>8, <3>1, <4>1 DEF Works, Locked, HoldsEmail
    <3>3. ASSUME NEW d \in DevicesOf(account[r], on[r]), device' = [device EXCEPT ![r] = d.id], Advance(r, "seen")
          PROVE  Works(q)'
      <4>1. device'[r] = d.id /\ pc'[r] = "seen"
        BY <3>3 DEF Advance, TypeOK
      <4>2. DeviceIs(r)'
        BY <3>1, <4>1 DEF DevicesOf, DeviceIs
      <4> QED BY <1>3, <2>8, <3>1, <4>1, <4>2 DEF Works, Locked, HoldsEmail
    <3> QED BY <2>10, <3>2, <3>3 DEF FindDevice
  <2>11. CASE TouchDevice(r)
    <3>1. /\ Settled /\ DeviceIs(r) /\ pc'[r] = "finish"
          /\ UNCHANGED <<account, device, who, email, on, accounts, devices>>
      BY <1>1, <2>11 DEF TouchDevice, Works, Locked, HoldsEmail, Advance, TypeOK, dbVars, argVars, rowVars
    <3>2. DeviceIs(r)'
      BY <3>1 DEF DeviceIs
    <3> QED BY <1>3, <2>8, <3>1, <3>2 DEF Works, Locked, HoldsEmail
  <2>12. CASE Writes(r)
    BY <2>1, <2>12 DEF Writes, CountMiss, CommitRequestOtp, CommitSignIn, TypeOK
  <2>13. CASE Abort(r)
    BY <2>2, <2>13 DEF Abort, Outcomes
  <2> QED BY <2>3, <2>4, <2>5, <2>6, <2>7, <2>9, <2>10, <2>11, <2>12, <2>13 DEF Serves, Step, Writes
<1> QED BY <1>2, <1>3

-----------------------------------------------------------------------------
(* The invariants of the committed rows *)

Core == TypeOK /\ Shape /\ RowsTell /\ OneHolder /\ AllWork

LEMMA InitCore == Init => Core
<1> SUFFICES ASSUME Init PROVE Core
  OBVIOUS
<1>1. Shape
  BY NameAssumption, BoundAssumption DEF Init, Shape, Kind, CodeOf, Signing, CodesAreNew, HistoryKept, Used, Known
<1>2. RowsTell /\ OneHolder /\ AllWork
  BY DEF Init, RowsTell, OneHolder, AllWork, Works, Locked, HoldsEmail
<1> QED BY <1>1, <1>2, InitTyped DEF Core

LEMMA NextCore == ASSUME Core, [Next]_vars PROVE Core'
<1>1. TypeOK' /\ Shape'
  BY NextTyped, NextShape DEF Core
<1>2. ASSUME NEW r \in Requests, Serves(r) PROVE (RowsTell /\ OneHolder /\ AllWork)'
  BY <1>2, RowsTellKept, OneHolderKept, WorksKept DEF Core, AllWork
<1>3. CASE UNCHANGED vars \/ \E n \in Codes : Expire(n)
  <2>1. UNCHANGED <<dbVars, pc, argVars, rowVars>>
    BY <1>3 DEF vars, Expire, dbVars, argVars, rowVars
  <2>2. RowsTell'
    BY <2>1 DEF Core, RowsTell, dbVars, argVars, rowVars
  <2>3. OneHolder'
    BY <2>1 DEF Core, OneHolder, Locked, HoldsEmail, argVars, rowVars
  <2>4. ASSUME NEW r \in Requests PROVE Works(r)'
    <3>1. UNCHANGED <<pc, who, email, on, account, device, accounts, devices>>
      BY <2>1 DEF dbVars, argVars, rowVars
    <3>2. /\ (AccountIs(r)' <=> AccountIs(r)) /\ (DeviceIs(r)' <=> DeviceIs(r)) /\ (Locked(r)' <=> Locked(r))
          /\ (HoldsEmail(r, email[r])' <=> HoldsEmail(r, email[r]))
      BY <3>1 DEF AccountIs, DeviceIs, Locked, HoldsEmail
    <3>3. /\ AccountsOf(who[r])' = AccountsOf(who[r])
          /\ DevicesOf(account[r], on[r])' = DevicesOf(account[r], on[r])
          /\ OwnersOf(email[r])' = OwnersOf(email[r])
      BY <3>1 DEF AccountsOf, DevicesOf, OwnersOf
    <3>4. pc'[r] = pc[r] /\ account'[r] = account[r] /\ device'[r] = device[r] /\ email'[r] = email[r] /\ Works(r)
      BY <3>1 DEF Core, AllWork
    <3> QED BY <3>2, <3>3, <3>4 DEF Works
  <2> QED BY <1>1, <2>2, <2>3, <2>4 DEF Core, AllWork
<1>4. (\E r \in Requests : Serves(r)) \/ (UNCHANGED vars \/ \E n \in Codes : Expire(n))
  BY DEF Next, Serves
<1> QED BY <1>1, <1>2, <1>3, <1>4 DEF Core

Committed == OneAccount /\ OneDeviceRow /\ LoginsMatch /\ CodesSpentBySignIn

LEMMA InitCommitted == Init => Committed
BY DEF Init, Committed, OneAccount, OneDeviceRow, LoginsMatch, CodesSpentBySignIn

LEMMA CommitSignInCommitted ==
  ASSUME Core, Committed, NEW r \in Requests, CommitSignIn(r)
  PROVE  Committed'
<1>1. /\ Works(r) /\ Kind(r) /\ CodeOf(r) /\ Locked(r) /\ Signing(r)
      /\ kind[r] \in {"otp", "oauth"}
      /\ UNCHANGED <<kind, who, email, guess, on, row, account, device, phone>>
  BY DEF Core, AllWork, Shape, CommitSignIn, Locked, Signing, Kind, argVars, rowVars
<1>2. OneAccount'
  <2>1. CASE account[r] = r /\ AccountsOf(who[r]) = {}
    <3>1. email[r] # None => OwnersOf(email[r]) = {}
      BY <1>1, <2>1 DEF Works, HoldsEmail, CommitSignIn
    <3> QED BY <2>1, <3>1 DEF CommitSignIn, Committed, OneAccount, AccountsOf, OwnersOf
  <2>2. CASE AccountIs(r)
    <3>1. account[r] # r
      BY <1>1, <2>2 DEF AccountIs, Core, RowsTell, Locked
    <3> QED BY <3>1 DEF CommitSignIn, Committed, OneAccount
  <2> QED BY <1>1, <2>1, <2>2 DEF Works
<1>3. OneDeviceRow'
  <2>1. CASE device[r] = r /\ DevicesOf(account[r], on[r]) = {}
    BY <2>1 DEF CommitSignIn, Committed, OneDeviceRow, DevicesOf
  <2>2. CASE DeviceIs(r)
    <3>1. device[r] # r
      BY <1>1, <2>2 DEF DeviceIs, Core, RowsTell, Locked
    <3> QED BY <3>1 DEF CommitSignIn, Committed, OneDeviceRow
  <2> QED BY <1>1, <2>1, <2>2 DEF Works, CommitSignIn
<1>4. LoginsMatch'
  <2> DEFINE new == [id |-> r, account |-> account[r], device |-> device[r], code |-> row[r]]
  <2>1. \E a \in accounts' : a.id = account[r] /\ a.identity = who[r]
    <3>1. CASE account[r] = r
      <4>1. [id |-> r, identity |-> who[r], email |-> email[r]] \in accounts'
        BY <3>1 DEF CommitSignIn
      <4> QED BY <3>1, <4>1
    <3>2. CASE AccountIs(r)
      BY <3>2 DEF AccountIs, CommitSignIn
    <3> QED BY <1>1, <3>1, <3>2 DEF Works
  <2>2. \E d \in devices' : d.id = device[r] /\ d.account = account[r] /\ d.on = on[r]
    <3>1. CASE device[r] = r
      <4>1. [id |-> r, account |-> account[r], on |-> on[r]] \in devices'
        BY <3>1 DEF CommitSignIn
      <4> QED BY <3>1, <4>1
    <3>2. CASE DeviceIs(r)
      BY <3>2 DEF DeviceIs, CommitSignIn
    <3> QED BY <1>1, <3>1, <3>2 DEF Works, CommitSignIn
  <2>3. row[r] # None => phone[row[r]] = who[r] /\ guess[r] = row[r]
    BY <1>1 DEF Kind, CodeOf, CommitSignIn
  <2>4. \A l \in logins' : l \in logins \/ l = new
    BY DEF CommitSignIn
  <2>5. accounts \subseteq accounts' /\ devices \subseteq devices'
    BY DEF CommitSignIn
  <2>6. \A l \in logins :
          /\ \E a \in accounts' : a.id = l.account /\ a.identity = who[l.id]
          /\ \E d \in devices' : d.id = l.device /\ d.account = l.account /\ d.on = on[l.id]
          /\ l.code # None => phone[l.code] = who[l.id] /\ guess[l.id] = l.code
    BY <2>5 DEF Committed, LoginsMatch
  <2>7. LoginsMatch' = \A l \in logins' :
          /\ \E a \in accounts' : a.id = l.account /\ a.identity = who[l.id]
          /\ \E d \in devices' : d.id = l.device /\ d.account = l.account /\ d.on = on[l.id]
          /\ l.code # None => phone[l.code] = who[l.id] /\ guess[l.id] = l.code
    BY <1>1 DEF LoginsMatch
  <2> QED BY <2>1, <2>2, <2>3, <2>4, <2>6, <2>7
<1>5. CodesSpentBySignIn'
  <2>1. None \notin Codes
    BY NameAssumption DEF Codes
  <2>2. CASE kind[r] = "otp"
    <3>1. row[r] \in Codes /\ codes' = [codes EXCEPT ![row[r]] = "verified"]
      BY <1>1, <2>2 DEF CommitSignIn, CodesAfter, CodeOf
    <3>2. \A n \in Codes : codes'[n] = "verified" <=> codes[n] = "verified" \/ n = row[r]
      BY <3>1 DEF Core, TypeOK
    <3>3. ASSUME NEW n \in Codes
          PROVE  (\E l \in logins' : l.code = n) <=> (\E l \in logins : l.code = n) \/ n = row[r]
      <4> DEFINE new == [id |-> r, account |-> account[r], device |-> device[r], code |-> row[r]]
      <4>1. logins' = logins \cup {new} /\ new.code = row[r]
        BY DEF CommitSignIn
      <4> HIDE DEF new
      <4> QED BY <4>1
    <3> QED BY <3>2, <3>3 DEF Committed, CodesSpentBySignIn
  <2>3. CASE kind[r] = "oauth"
    <3>1. row[r] = None /\ codes' = codes
      BY <1>1, <2>3 DEF CommitSignIn, CodesAfter, Kind
    <3> QED BY <2>1, <3>1 DEF CommitSignIn, Committed, CodesSpentBySignIn
  <2> QED BY <1>1, <2>2, <2>3
<1> QED BY <1>2, <1>3, <1>4, <1>5 DEF Committed

LEMMA NextCommitted == ASSUME Core, Committed, [Next]_vars PROVE Committed'
<1>1. ASSUME NEW r \in Requests, Serves(r), ~CommitSignIn(r) PROVE Committed'
  <2>1. accounts' = accounts /\ devices' = devices /\ logins' = logins
    BY <1>1, OnlyWritesWrite DEF dbVars, Writes, CountMiss, CommitRequestOtp
  <2>2. \A l \in logins : l.id \in Requests /\ Same(l.id)
    BY <1>1, NotDone, OthersSame DEF Core, RowsTell, TypeOK, Login
  <2>3. \A n \in Codes : codes'[n] = "verified" <=> codes[n] = "verified"
    BY <1>1, OnlyWritesWrite DEF dbVars, Writes, CountMiss, CommitRequestOtp, Core, TypeOK, Shape, CodesAreNew
  <2>4. \A l \in logins : l.code # None => l.code \in Codes /\ codes[l.code] = "verified"
    BY DEF Core, TypeOK, Login, Committed, CodesSpentBySignIn
  <2>5. \A l \in logins : l.code # None => phone'[l.code] = phone[l.code]
    BY <1>1, <2>4, RequestGrows DEF Core, Grows
  <2>6. LoginsMatch'
    BY <2>1, <2>2, <2>5 DEF Committed, LoginsMatch, Same
  <2> QED BY <2>1, <2>3, <2>6 DEF Committed, OneAccount, OneDeviceRow, CodesSpentBySignIn
<1>2. CASE UNCHANGED vars \/ \E n \in Codes : Expire(n)
  <2>1. UNCHANGED <<dbVars, argVars>>
    BY <1>2 DEF vars, Expire, dbVars, argVars
  <2> QED BY <2>1 DEF Committed, OneAccount, OneDeviceRow, LoginsMatch, CodesSpentBySignIn, dbVars, argVars
<1> QED BY <1>1, <1>2, CommitSignInCommitted DEF Next, Serves
-----------------------------------------------------------------------------
(* Theorems *)

LEMMA Invariance == Spec => [](Core /\ Committed)
<1>1. Init => Core /\ Committed
  BY InitCore, InitCommitted
<1>2. Core /\ Committed /\ [Next]_vars => (Core /\ Committed)'
  BY NextCore, NextCommitted
<1> QED BY <1>1, <1>2, PTL DEF Spec

\* The inductive invariant the run sign_in checks is invariant for any
\* number of requests, whatever they are about.
THEOREM InvariantHolds == Spec => []IInv
<1>1. Core /\ Committed => IInv
  BY DEF Core, Committed, AllWork, IInv
<1> QED BY <1>1, Invariance, PTL

\* Every variable keeps its type; in particular no miss takes attempt_count
\* past the cap, however stale the count it was computed from.
THEOREM TypeCorrect == Spec => []TypeOK
<1>1. Core => TypeOK
  BY DEF Core
<1> QED BY <1>1, Invariance, PTL

\* However many first sign-ins with a phone number, a provider subject or an
\* e-mail of a provider overlap, one account comes of them (the unique indexes
\* of users).
THEOREM AccountsStayUnique == Spec => []OneAccount
<1>1. Committed => OneAccount
  BY DEF Committed
<1> QED BY <1>1, Invariance, PTL

\* find_or_create never leaves two rows for a device of an account, although
\* no constraint of the table forbids it: the account's row lock orders them.
THEOREM DevicesStayUnique == Spec => []OneDeviceRow
<1>1. Committed => OneDeviceRow
  BY DEF Committed
<1> QED BY <1>1, Invariance, PTL

\* Every session was opened for the account and the device of the request
\* that asked for it, with a code sent to its phone number.
THEOREM LoginsStayMatched == Spec => []LoginsMatch
<1>1. Committed => LoginsMatch
  BY DEF Committed
<1> QED BY <1>1, Invariance, PTL

\* Using up a code and signing in with it are one transaction: neither is
\* committed without the other.
THEOREM CodesAreSpentBySignIn == Spec => []CodesSpentBySignIn
<1>1. Committed => CodesSpentBySignIn
  BY DEF Committed
<1> QED BY <1>1, Invariance, PTL

\* A request that arrives after a code was used is not signed in by it, and
\* only overlapping first sign-ins fail on a unique index.
THEOREM UsedCodesStayRefused == Spec => []UsedCodeRefused
<1>1. Core => UsedCodeRefused
  BY DEF Core, Shape, CodeOf, HistoryKept, UsedCodeRefused
<1> QED BY <1>1, Invariance, PTL

\* The order of the locks: each statement waits only for requests past it,
\* so the request furthest on may go.
LEMMA TheFurthestGoes == SomeoneCanGo
<1> SUFFICES ASSUME NEW r \in Requests, pc[r] \in Running
             PROVE  \E q \in Requests : pc[q] \in Running /\ MayGo(q)
  BY DEF SomeoneCanGo
<1>1. CASE \E q \in Requests : pc[q] \in Running \ {"miss", "use", "insert", "touch", "email", "seen"}
  BY <1>1 DEF MayGo, WaitsFor
<1>2. CASE /\ \A q \in Requests : pc[q] \notin Running \ {"miss", "use", "insert", "touch", "email", "seen"}
           /\ \E q \in Requests : pc[q] = "seen"
  BY <1>2 DEF MayGo, WaitsFor, HoldsDevice, Running
<1>5. CASE /\ \A q \in Requests : pc[q] \notin Running \ {"miss", "use", "insert", "touch", "email"}
           /\ \E q \in Requests : pc[q] = "email"
  BY <1>5 DEF MayGo, WaitsFor, HoldsEmail, Running
<1>3. CASE /\ \A q \in Requests : pc[q] \notin Running \ {"miss", "use", "insert", "touch"}
           /\ \E q \in Requests : pc[q] \in {"insert", "touch"}
  BY <1>3 DEF MayGo, WaitsFor, HoldsIdentity, Running
<1>4. CASE \A q \in Requests : pc[q] \notin Running \ {"miss", "use"}
  BY <1>4 DEF MayGo, WaitsFor, HoldsCode, Signing, Running
<1> QED BY <1>1, <1>2, <1>3, <1>4, <1>5 DEF Running

\* Sign-ins that wait for each other's rows never deadlock.
THEOREM NobodyDeadlocks == Spec => []SomeoneCanGo
BY TheFurthestGoes, PTL
-----------------------------------------------------------------------------
(* SignIn implements SignInContract *)

LEMMA ContractInit == Init => Contract!Init
BY DEF Init, Contract!Init

\* A code that was sent is committed.
LEMMA CommitSends ==
  ASSUME Core, NEW r \in Requests, CommitRequestOtp(r)
  PROVE  \E n \in Codes, p \in Phones : Contract!Send(n, p)
<1>1. pc[r] = "sending" /\ Kind(r)
  BY DEF CommitRequestOtp, Core, Shape
<1>2. row[r] \in Codes /\ who[r] \in Phones /\ codes[row[r]] = "absent"
  BY <1>1 DEF Kind, Core, Shape, CodesAreNew
<1>3. Contract!Send(row[r], who[r])
  BY <1>2 DEF CommitRequestOtp, Contract!Send
<1> QED BY <1>2, <1>3

\* The account a sign-in commits with is the one of its identity or its own
\* new one; so is the device.
LEMMA CommitRegisters ==
  ASSUME Core, NEW r \in Requests, CommitSignIn(r)
  PROVE  Contract!FindOrRegister(r, who[r], account[r])
<1>1. Works(r) /\ Locked(r) /\ pc[r] # "ok"
  BY DEF Core, AllWork, CommitSignIn, Locked
<1>2. CASE AccountIs(r)
  <2>1. PICK a \in accounts : a.id = account[r] /\ a.identity = who[r]
    BY <1>2 DEF AccountIs
  <2>3. account[r] # r
    BY <1>1, <2>1 DEF Core, RowsTell
  <2>4. accounts' = accounts
    BY <2>3 DEF CommitSignIn
  <2> QED BY <2>1, <2>4 DEF Contract!FindOrRegister
<1>3. CASE account[r] = r /\ AccountsOf(who[r]) = {}
  <2>1. email[r] # None => OwnersOf(email[r]) = {}
    BY <1>1, <1>3 DEF Works, HoldsEmail, CommitSignIn
  <2>2. \A x \in accounts : x.identity # who[r] /\ x.id # r /\ (email[r] # None => x.email # email[r])
    BY <1>1, <1>3, <2>1 DEF AccountsOf, OwnersOf, Core, RowsTell
  <2>3. email[r] \in Emails \cup {None} /\ (who[r] \in Phones => email[r] = None)
    BY NameAssumption DEF Core, TypeOK, Shape, Kind
  <2> QED BY <1>3, <2>2, <2>3 DEF Contract!FindOrRegister, CommitSignIn
<1> QED BY <1>1, <1>2, <1>3 DEF Works

LEMMA CommitCreates ==
  ASSUME Core, NEW r \in Requests, CommitSignIn(r)
  PROVE  Contract!FindOrCreate(r, account[r], device[r], on[r])
<1>1. Works(r) /\ pc[r] = "finish"
  BY DEF Core, AllWork, CommitSignIn
<1>2. CASE DeviceIs(r)
  <2>1. PICK d \in devices : d.id = device[r] /\ d.account = account[r] /\ d.on = on[r]
    BY <1>2 DEF DeviceIs
  <2>2. d = [id |-> device[r], account |-> account[r], on |-> on[r]]
    BY <2>1 DEF Core, TypeOK, Device
  <2>3. device[r] # r
    BY <1>1, <2>1 DEF Core, RowsTell
  <2>4. devices' = devices
    BY <2>3 DEF CommitSignIn
  <2> QED BY <2>1, <2>2, <2>4 DEF Contract!FindOrCreate
<1>3. CASE device[r] = r /\ DevicesOf(account[r], on[r]) = {}
  <2>1. \A x \in devices : (x.account = account[r] => x.on # on[r]) /\ x.id # r
    BY <1>1, <1>3 DEF DevicesOf, Core, RowsTell
  <2> QED BY <1>3, <2>1 DEF Contract!FindOrCreate, CommitSignIn
<1> QED BY <1>1, <1>2, <1>3 DEF Works

\* A sign-in by phone uses up its code, one by provider has none.
LEMMA CommitUses ==
  ASSUME Core, NEW r \in Requests, CommitSignIn(r)
  PROVE  /\ row[r] \in Codes \cup {None}
         /\ who[r] \in Phones <=> row[r] # None
         /\ Contract!Use(row[r], who[r])
<1>1. Kind(r) /\ CodeOf(r) /\ Signing(r) /\ kind[r] \in {"otp", "oauth"}
  BY DEF Core, Shape, CommitSignIn, Signing, Kind
<1>2. None \notin Codes
  BY NameAssumption DEF Codes
<1>3. CASE kind[r] = "otp"
  <2>1. /\ row[r] \in Codes /\ codes[row[r]] # "absent" /\ phone[row[r]] = who[r]
        /\ who[r] \in Phones
        /\ codes' = [codes EXCEPT ![row[r]] = "verified"]
    BY <1>1, <1>3 DEF Kind, CodeOf, CommitSignIn, CodesAfter
  <2> QED BY <1>2, <2>1 DEF Contract!Use
<1>4. CASE kind[r] = "oauth"
  <2>1. row[r] = None /\ who[r] \notin Phones /\ codes' = codes
    BY <1>1, <1>4, NameAssumption DEF Kind, CommitSignIn, CodesAfter
  <2> QED BY <2>1 DEF Contract!Use
<1> QED BY <1>1, <1>3, <1>4

LEMMA CommitSigns ==
  ASSUME Core, NEW r \in Requests, CommitSignIn(r)
  PROVE  \E i \in Identities, o \in Devices : Contract!SignIn(r, i, o)
<1>1. who[r] \in Identities /\ on[r] \in Devices
  BY DEF Core, Shape, Kind, CommitSignIn, Signing
<1>2. account[r] \in Requests /\ device[r] \in Requests
  BY DEF Core, AllWork, Works, Locked, CommitSignIn, AccountIs, DeviceIs, TypeOK, Account, Device
<1>3. \A l \in logins : l.id # r
  BY DEF Core, RowsTell, CommitSignIn
<1>4. /\ logins' = logins \cup {[id |-> r, account |-> account[r], device |-> device[r],
                                 code |-> row[r]]}
      /\ UNCHANGED phone
  BY DEF CommitSignIn
<1>5. Contract!SignIn(r, who[r], on[r])
  BY <1>2, <1>3, <1>4, CommitRegisters, CommitCreates, CommitUses DEF Contract!SignIn
<1> QED BY <1>1, <1>5

\* Every step is a step of the contract or is not seen.
LEMMA ContractStep ==
  ASSUME Core, [Next]_vars
  PROVE  [Contract!Next]_(Contract!vars)
<1>1. ASSUME NEW r \in Requests, CommitRequestOtp(r) PROVE Contract!Next
  BY <1>1, CommitSends DEF Contract!Next
<1>2. ASSUME NEW r \in Requests, CommitSignIn(r) PROVE Contract!Next
  BY <1>2, CommitSigns DEF Contract!Next
<1>3. ASSUME NEW r \in Requests, Serves(r), ~CommitRequestOtp(r), ~CommitSignIn(r)
      PROVE  UNCHANGED Contract!vars
  BY <1>3, OnlyWritesWrite DEF Writes, CountMiss, dbVars, Contract!vars
<1>4. CASE UNCHANGED vars \/ \E n \in Codes : Expire(n)
  BY <1>4 DEF vars, Expire, dbVars, Contract!vars
<1> QED BY <1>1, <1>2, <1>3, <1>4 DEF Next, Serves

\* However the statements of sign-ins interleave, wait for each other and
\* fail, every one is a single step of SignInContract or none at all.
THEOREM ImplementsContract == Spec => KeepsContract
<1>1. Core /\ Committed /\ [Next]_vars => [Contract!Next]_(Contract!vars)
  BY ContractStep
<1> QED BY <1>1, ContractInit, Invariance, PTL DEF Spec, KeepsContract, Contract!Spec
=============================================================================
