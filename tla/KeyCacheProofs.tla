---------------------------- MODULE KeyCacheProofs ----------------------------
(***************************************************************************)
(* Proofs about KeyCache, for any number of verifications, tokens and      *)
(* changes of the key set.  IInv is inductive: the lock makes an answer in *)
(* flight the only one, so it is no older than the cache it replaces, and  *)
(* a verification that fetches judges its token by keys published since it *)
(* began.                                                                  *)
(***************************************************************************)
EXTENDS KeyCache, TLAPS

LEMMA InitInv == Init => IInv
<1> SUFFICES ASSUME Init PROVE IInv OBVIOUS
<1>1. Idle \in Call /\ Idle.pc = "idle" /\ Idle.answer = None /\ Idle.fetches = 0 /\ Idle.began = 0
  BY KeyCacheAssumption DEF Idle, Call, Epochs
<1>2. \A v \in Verifications : calls[v] = Idle
  BY DEF Init
<1>3. TypeOK
  BY <1>1, <1>2, KeyCacheAssumption, NoneAssumption DEF Init, TypeOK, Epochs
<1>4. OneFetch /\ AcceptedIsGenuine
  BY <1>1, <1>2 DEF OneFetch, AcceptedIsGenuine
<1> QED BY <1>1, <1>2, <1>3, <1>4 DEF Init, IInv, Running

\* A token judged by keys that were published is accepted rightly.
LEMMA VerdictSound ==
  ASSUME NEW t, NEW keys, NEW e \in 0..epoch, keys \in {NoKeys, KeySets[e]},
         Verdict(t, keys) = "accepted"
  PROVE  /\ \E f \in 0..epoch : t.kid \in DOMAIN KeySets[f] /\ KeySets[f][t.kid] = t.key
         /\ t.issuer \in Issuers /\ t.audience \cap Audiences # {} /\ t.fresh /\ t.subject
<1>1. t.kid \in DOMAIN keys /\ keys[t.kid] = t.key /\ ClaimsAccepted(t)
  BY DEF Verdict
<1>2. keys = KeySets[e]
  BY <1>1 DEF NoKeys
<1> QED BY <1>1, <1>2 DEF ClaimsAccepted, _audience_is_accepted

LEMMA VerdictRange ==
  ASSUME NEW t, NEW keys PROVE Verdict(t, keys) \in {"accepted", "rejected"}
BY DEF Verdict

-----------------------------------------------------------------------------
(* One lemma for each action *)

LEMMA VerifyInv ==
  ASSUME IInv, NEW v \in Verifications, verify(v) PROVE IInv'
<1>1. PICK t \in Tokens :
        LET c == [calls[v] EXCEPT !.token = t, !.began = epoch] IN
        calls' = [calls EXCEPT ![v] =
          IF t.kid = None THEN Ended(c, "rejected")
          ELSE IF t.kid \in DOMAIN cache.keys THEN Ended(c, Verdict(t, cache.keys))
          ELSE [c EXCEPT !.pc = "waiting"]]
  BY DEF verify
<1>2. /\ calls[v] \in Call /\ calls[v].pc = "idle" /\ calls[v].answer = None /\ calls[v].fetches = 0
      /\ epoch \in Epochs /\ UNCHANGED <<epoch, cache, holder>> /\ holder # v
      /\ Epochs \subseteq Nat
  BY KeyCacheAssumption DEF verify, IInv, TypeOK, Epochs
<1> DEFINE d == calls'[v]
<1>3. /\ calls' \in [Verifications -> Call]
      /\ \A w \in Verifications \ {v} : calls'[w] = calls[w]
      /\ d.token = t /\ d.began = epoch /\ d.answer = None /\ d.fetches = 0
      /\ d.pc \in {"waiting", "accepted", "rejected"}
      /\ d.pc = "waiting" => t.kid # None
      /\ d.pc = "accepted" => Verdict(t, cache.keys) = "accepted"
  <2>1. calls \in [Verifications -> Call]
    BY DEF IInv, TypeOK
  <2>2. CASE t.kid = None
    BY <1>1, <1>2, <2>1, <2>2 DEF Ended, Call
  <2>3. CASE t.kid # None /\ t.kid \in DOMAIN cache.keys
    BY <1>1, <1>2, <2>1, <2>3, VerdictRange DEF Ended, Call
  <2>4. CASE t.kid # None /\ t.kid \notin DOMAIN cache.keys
    BY <1>1, <1>2, <2>1, <2>4 DEF Call
  <2> QED BY <2>2, <2>3, <2>4
<1>4. TypeOK'
  BY <1>2, <1>3 DEF IInv, TypeOK
<1>5. OneFetch'
  BY <1>2, <1>3 DEF IInv, OneFetch
<1>6. AcceptedIsGenuine'
  <2> SUFFICES ASSUME NEW w \in Verifications, calls'[w].pc = "accepted"
               PROVE  LET u == calls'[w].token IN
                      /\ \E e \in 0..epoch : u.kid \in DOMAIN KeySets[e] /\ KeySets[e][u.kid] = u.key
                      /\ u.issuer \in Issuers /\ u.audience \cap Audiences # {} /\ u.fresh /\ u.subject
    BY <1>2 DEF AcceptedIsGenuine
  <2>1. CASE w # v
    BY <2>1, <1>3 DEF IInv, AcceptedIsGenuine
  <2>2. CASE w = v
    <3>1. cache.epoch \in 0..epoch /\ cache.keys \in {NoKeys, KeySets[cache.epoch]}
      BY DEF IInv, TypeOK
    <3>2. Verdict(t, cache.keys) = "accepted" /\ calls'[w].token = t
      BY <2>2, <1>3
    <3> QED BY <3>1, <3>2, VerdictSound
  <2> QED BY <2>1, <2>2
<1> QED BY <1>2, <1>3, <1>4, <1>5, <1>6 DEF IInv, Running

LEMMA AcquireInv ==
  ASSUME IInv, NEW v \in Verifications, Acquire(v) PROVE IInv'
<1>1. /\ calls[v] \in Call /\ calls[v].pc = "waiting" /\ holder = None /\ holder' = v
      /\ calls[v].answer = None /\ calls[v].fetches = 0 /\ UNCHANGED <<epoch, cache>>
      /\ calls \in [Verifications -> Call] /\ v # None
  BY NoneAssumption DEF Acquire, IInv, TypeOK
<1>2. /\ calls' \in [Verifications -> Call]
      /\ \A w \in Verifications \ {v} : calls'[w] = calls[w]
      /\ calls'[v] = [calls[v] EXCEPT !.pc = "fetching", !.fetches = 1]
  BY <1>1 DEF Acquire, Call
<1>3. /\ calls'[v].pc = "fetching" /\ calls'[v].fetches = 1 /\ calls'[v].answer = None
      /\ calls'[v].token = calls[v].token /\ calls'[v].began = calls[v].began
  BY <1>1, <1>2 DEF Call
<1>4. \A w \in Verifications : calls[w].pc # "fetching"
  BY <1>1, NoneAssumption DEF IInv, TypeOK
<1>5. TypeOK'
  <2>1. /\ epoch' \in Epochs /\ holder' \in Verifications \cup {None}
        /\ cache' \in [keys: {NoKeys} \cup {KeySets[e] : e \in Epochs}, epoch: 0..epoch']
    BY <1>1 DEF IInv, TypeOK
  <2>2. calls[v].token \in Tokens /\ calls[v].began <= epoch
    BY <1>1 DEF IInv, TypeOK
  <2>3. ASSUME NEW w \in Verifications
        PROVE  /\ calls'[w].pc = "fetching" <=> holder' = w
               /\ calls'[w].pc # "idle" => calls'[w].token \in Tokens
               /\ calls'[w].began <= epoch'
               /\ calls'[w].answer # None => calls'[w].answer.epoch <= epoch' /\ calls'[w].pc = "fetching"
    <3>1. CASE w = v
      BY <1>1, <1>3, <2>2, <3>1
    <3>2. CASE w # v
      BY <1>1, <1>2, <1>4, <3>2 DEF IInv, TypeOK
    <3> QED BY <3>1, <3>2
  <2> QED BY <1>2, <2>1, <2>3 DEF TypeOK
<1>6. OneFetch'
  <2>1. \A w \in Verifications : calls'[w].fetches <= 1
    <3> SUFFICES ASSUME NEW w \in Verifications PROVE calls'[w].fetches <= 1
      OBVIOUS
    <3>1. calls[w].fetches <= 1
      BY DEF IInv, OneFetch
    <3>2. w = v => calls'[w].fetches = 1
      BY <1>3
    <3> QED BY <1>2, <3>1, <3>2
  <2>2. \A w \in Verifications : calls'[w].pc = "fetching" => w = v
    BY <1>2, <1>4
  <2> QED BY <2>1, <2>2 DEF OneFetch
<1>7. AcceptedIsGenuine'
  <2>1. \A w \in Verifications : calls'[w].pc = "accepted" => w # v /\ calls'[w] = calls[w]
    BY <1>2, <1>3
  <2> QED BY <1>1, <2>1 DEF IInv, AcceptedIsGenuine
<1>8. /\ cache'.keys \in {NoKeys, KeySets[cache'.epoch]} /\ cache' = cache
      /\ calls[v].token.kid # None
  BY <1>1 DEF IInv, Running
<1>9. ASSUME NEW w \in Verifications, w # v PROVE calls'[w] = calls[w]
  BY <1>2, <1>9
<1> QED BY <1>1, <1>3, <1>5, <1>6, <1>7, <1>8, <1>9 DEF IInv, Running

LEMMA ServeInv ==
  ASSUME IInv, NEW v \in Verifications, Serve(v) PROVE IInv'
<1>1. PICK how \in {"keys"} \cup Failures :
        calls' = [calls EXCEPT ![v].answer = [how |-> how, epoch |-> epoch]]
  BY DEF Serve
<1>2. /\ calls[v] \in Call /\ calls[v].pc = "fetching" /\ UNCHANGED <<epoch, cache, holder>>
      /\ calls \in [Verifications -> Call] /\ epoch \in Epochs /\ Epochs \subseteq Nat
  BY KeyCacheAssumption DEF Serve, IInv, TypeOK, Epochs
<1>3. /\ calls' \in [Verifications -> Call]
      /\ \A w \in Verifications \ {v} : calls'[w] = calls[w]
      /\ calls'[v] = [calls[v] EXCEPT !.answer = [how |-> how, epoch |-> epoch]]
  BY <1>1, <1>2 DEF Call, Answer
<1>4. /\ calls'[v].pc = calls[v].pc /\ calls'[v].fetches = calls[v].fetches
      /\ calls'[v].token = calls[v].token /\ calls'[v].began = calls[v].began
      /\ calls'[v].answer.epoch = epoch
  BY <1>2, <1>3 DEF Call
<1>5. TypeOK'
  <2>1. /\ epoch' \in Epochs /\ holder' \in Verifications \cup {None} /\ holder = v
        /\ cache' \in [keys: {NoKeys} \cup {KeySets[e] : e \in Epochs}, epoch: 0..epoch']
    BY <1>2 DEF IInv, TypeOK
  <2>2. calls[v].token \in Tokens /\ calls[v].began <= epoch /\ epoch <= epoch
    BY <1>2 DEF IInv, TypeOK
  <2>3. ASSUME NEW w \in Verifications
        PROVE  /\ calls'[w].pc = "fetching" <=> holder' = w
               /\ calls'[w].pc # "idle" => calls'[w].token \in Tokens
               /\ calls'[w].began <= epoch'
               /\ calls'[w].answer # None => calls'[w].answer.epoch <= epoch' /\ calls'[w].pc = "fetching"
    <3>1. CASE w = v
      BY <1>2, <1>4, <2>1, <2>2, <3>1
    <3>2. CASE w # v
      BY <1>2, <1>3, <3>2 DEF IInv, TypeOK
    <3> QED BY <3>1, <3>2
  <2> QED BY <1>3, <2>1, <2>3 DEF TypeOK
<1>6. OneFetch' /\ AcceptedIsGenuine'
  <2>1. \A w \in Verifications : /\ calls'[w].pc = calls[w].pc /\ calls'[w].token = calls[w].token
                                 /\ calls'[w].fetches = calls[w].fetches
    BY <1>3, <1>4
  <2> QED BY <1>2, <2>1 DEF IInv, OneFetch, AcceptedIsGenuine
<1>7. cache.epoch <= epoch /\ calls[v].began <= epoch
  BY <1>2 DEF IInv, TypeOK, Epochs
<1> QED BY <1>2, <1>3, <1>4, <1>5, <1>6, <1>7 DEF IInv, Running

LEMMA ReceiveFacts ==
  ASSUME IInv, NEW v \in Verifications, Receive(v)
  PROVE  /\ calls[v].answer \in Answer /\ calls[v].answer.epoch \in 0..epoch
         /\ cache.epoch <= calls[v].answer.epoch
         /\ cache'.epoch \in {cache.epoch, calls[v].answer.epoch}
         /\ cache'.keys \in {NoKeys, KeySets[cache'.epoch]}
         /\ cache' \in [keys: {NoKeys} \cup {KeySets[e] : e \in Epochs}, epoch: 0..epoch]
<1> DEFINE a == calls[v].answer
<1>1. calls[v] \in Call /\ a # None /\ epoch \in Epochs /\ Epochs \subseteq Nat
  BY KeyCacheAssumption DEF Receive, IInv, TypeOK, Epochs
<1>2. a \in Answer /\ a.epoch \in 0..epoch /\ cache.epoch <= a.epoch /\ a.epoch \in Epochs
  BY <1>1 DEF IInv, TypeOK, Call, Answer, Epochs
<1>3. cache' = Replaced(a)
  BY DEF Receive
<1>4. CASE a.how = "keys"
  BY <1>2, <1>3, <1>4 DEF Replaced
<1>5. CASE a.how = "no_keys"
  BY <1>2, <1>3, <1>5 DEF Replaced
<1>6. CASE a.how \notin {"keys", "no_keys"}
  BY <1>2, <1>3, <1>6 DEF Replaced, IInv, TypeOK
<1> QED BY <1>2, <1>4, <1>5, <1>6

LEMMA ReceiveInv ==
  ASSUME IInv, NEW v \in Verifications, Receive(v) PROVE IInv'
<1> DEFINE a == calls[v].answer
           verdict == IF a.how \in {"http_error", "malformed"} THEN "rejected"
                      ELSE Verdict(calls[v].token, cache'.keys)
<1>1. /\ calls[v] \in Call /\ calls[v].pc = "fetching" /\ holder = v /\ holder' = None
      /\ UNCHANGED epoch /\ calls \in [Verifications -> Call] /\ v # None
      /\ epoch \in Epochs /\ Epochs \subseteq Nat /\ calls[v].token \in Tokens
  BY NoneAssumption, KeyCacheAssumption DEF Receive, IInv, TypeOK, Epochs
<1>2. verdict \in {"accepted", "rejected"}
  BY VerdictRange
<1>3. /\ calls' \in [Verifications -> Call]
      /\ \A w \in Verifications \ {v} : calls'[w] = calls[w]
      /\ calls'[v] = [calls[v] EXCEPT !.pc = verdict, !.answer = None]
  BY <1>1, <1>2 DEF Receive, Ended, Call
<1>4. /\ calls'[v].pc = verdict /\ calls'[v].answer = None
      /\ calls'[v].token = calls[v].token /\ calls'[v].began = calls[v].began
      /\ calls'[v].fetches = calls[v].fetches
  BY <1>1, <1>3 DEF Call
<1>5. \A w \in Verifications \ {v} : calls[w].pc # "fetching" /\ calls[w].answer = None
  BY <1>1 DEF IInv, TypeOK
<1>6. TypeOK'
  <2>1. /\ epoch' \in Epochs /\ holder' \in Verifications \cup {None}
        /\ cache' \in [keys: {NoKeys} \cup {KeySets[e] : e \in Epochs}, epoch: 0..epoch']
    BY <1>1, ReceiveFacts
  <2>2. calls[v].began <= epoch
    BY <1>1 DEF IInv, TypeOK
  <2>3. ASSUME NEW w \in Verifications
        PROVE  /\ calls'[w].pc = "fetching" <=> holder' = w
               /\ calls'[w].pc # "idle" => calls'[w].token \in Tokens
               /\ calls'[w].began <= epoch'
               /\ calls'[w].answer # None => calls'[w].answer.epoch <= epoch' /\ calls'[w].pc = "fetching"
    <3>0. w # None
      BY NoneAssumption
    <3>1. CASE w = v
      BY <1>1, <1>2, <1>4, <2>2, <3>0, <3>1
    <3>2. CASE w # v
      BY <1>1, <1>3, <1>5, <3>0, <3>2 DEF IInv, TypeOK
    <3> QED BY <3>1, <3>2
  <2> QED BY <1>3, <2>1, <2>3 DEF TypeOK
<1>7. OneFetch'
  BY <1>2, <1>3, <1>4, <1>5 DEF IInv, OneFetch
<1>8. AcceptedIsGenuine'
  <2> SUFFICES ASSUME NEW w \in Verifications, calls'[w].pc = "accepted"
               PROVE  LET u == calls'[w].token IN
                      /\ \E e \in 0..epoch : u.kid \in DOMAIN KeySets[e] /\ KeySets[e][u.kid] = u.key
                      /\ u.issuer \in Issuers /\ u.audience \cap Audiences # {} /\ u.fresh /\ u.subject
    BY <1>1 DEF AcceptedIsGenuine
  <2>1. CASE w # v
    BY <2>1, <1>3 DEF IInv, AcceptedIsGenuine
  <2>2. CASE w = v
    <3>1. Verdict(calls[v].token, cache'.keys) = "accepted" /\ calls'[w].token = calls[v].token
      BY <2>2, <1>4
    <3>2. cache'.epoch \in 0..epoch /\ cache'.keys \in {NoKeys, KeySets[cache'.epoch]}
      BY ReceiveFacts
    <3> QED BY <3>1, <3>2, VerdictSound
  <2> QED BY <2>1, <2>2
<1>9. cache'.keys \in {NoKeys, KeySets[cache'.epoch]}
  BY ReceiveFacts
<1>10. ASSUME NEW w \in Verifications
       PROVE  /\ calls'[w].pc \in {"idle", "waiting"} => calls'[w].fetches = 0
              /\ calls'[w].pc \in {"waiting", "fetching"} => calls'[w].token.kid # None
              /\ calls'[w].answer = None
  <2>1. CASE w = v
    BY <1>2, <1>4, <2>1
  <2>2. CASE w # v
    BY <1>3, <1>5, <2>2 DEF IInv, Running
  <2> QED BY <2>1, <2>2
<1> QED BY <1>6, <1>7, <1>8, <1>9, <1>10 DEF IInv, Running

LEMMA RotateInv == ASSUME IInv, Rotate PROVE IInv'
<1>1. /\ epoch \in Nat /\ epoch' = epoch + 1 /\ epoch' \in Epochs /\ UNCHANGED <<cache, holder, calls>>
      /\ \A n : n \in 0..epoch => n \in 0..epoch'
      /\ Epochs \subseteq Nat
  BY KeyCacheAssumption DEF Rotate, IInv, TypeOK, Epochs
<1>2. \A v \in Verifications : calls[v].began \in Nat /\ (calls[v].answer # None => calls[v].answer.epoch \in Nat)
  BY <1>1 DEF IInv, TypeOK, Call, Answer
<1>3. TypeOK'
  BY <1>1, <1>2 DEF IInv, TypeOK
<1>4. OneFetch' /\ AcceptedIsGenuine'
  BY <1>1 DEF IInv, OneFetch, AcceptedIsGenuine
<1> QED BY <1>1, <1>3, <1>4 DEF IInv, Running

LEMMA NextInv == IInv /\ [Next]_vars => IInv'
<1> SUFFICES ASSUME IInv, [Next]_vars PROVE IInv'
  OBVIOUS
<1>1. CASE \E v \in Verifications : verify(v) \/ Acquire(v) \/ Serve(v) \/ Receive(v)
  BY <1>1, VerifyInv, AcquireInv, ServeInv, ReceiveInv
<1>2. CASE Rotate
  BY <1>2, RotateInv
<1>3. CASE UNCHANGED vars
  BY <1>3 DEF vars, IInv, TypeOK, OneFetch, AcceptedIsGenuine, Running
<1> QED BY <1>1, <1>2, <1>3 DEF Next

-----------------------------------------------------------------------------
(* Theorems *)

\* The inductive invariant of the key cache (id_token_verifier.py:144-164).
THEOREM InvariantHolds == Spec => []IInv
BY InitInv, NextInv, PTL DEF Spec

\* Types, and the refresh lock is held by the one verification that fetches.
THEOREM TypeCorrect == Spec => []TypeOK
<1>1. IInv => TypeOK
  BY DEF IInv
<1> QED BY <1>1, InvariantHolds, PTL

\* However many verifications miss the cache at once, one fetch runs at a time
\* and each makes at most one (_refresh_keys).
THEOREM OneFetchAtATime == Spec => []OneFetch
<1>1. IInv => OneFetch
  BY DEF IInv
<1> QED BY <1>1, InvariantHolds, PTL

\* No token is accepted with a key its provider never published under its key
\* id, or for another issuer or audience (verify).
THEOREM AcceptedTokensAreGenuine == Spec => []AcceptedIsGenuine
<1>1. IInv => AcceptedIsGenuine
  BY DEF IInv
<1> QED BY <1>1, InvariantHolds, PTL

\* Fetches that overlap never put an older key set over a newer one
\* (_refresh_keys replaces the dictionary under the lock).
THEOREM CacheMovesForward == Spec => CacheNeverGoesBack
<1>1. ASSUME IInv, [Next]_vars
      PROVE  [/\ cache'.epoch >= cache.epoch
              /\ cache'.keys \in {cache.keys, NoKeys, KeySets[cache'.epoch]}]_vars
  <2>0. cache.epoch \in Nat
    BY <1>1, KeyCacheAssumption DEF IInv, TypeOK, Epochs
  <2>1. CASE \E v \in Verifications : Receive(v)
    <3>1. PICK v \in Verifications : Receive(v)
      BY <2>1
    <3> QED BY <1>1, <3>1, <2>0, ReceiveFacts
  <2>2. CASE cache' = cache
    BY <2>2, <2>0
  <2>3. CASE UNCHANGED vars
    BY <2>3 DEF vars
  <2> QED BY <1>1, <2>1, <2>2, <2>3 DEF Next, verify, Acquire, Serve, Rotate
<1> QED BY <1>1, InvariantHolds, PTL DEF Spec, CacheNeverGoesBack

\* A good token whose key is published from before its verification on is
\* refused only if its fetch failed or the cache has another key of its id
\* (_get_key fetches once itself and never relies on a fetch begun before).
THEOREM GenuineTokensAreAccepted == Spec => GenuineIsAccepted
<1> DEFINE A == \A v \in Verifications :
       LET t == calls'[v].token IN
       (/\ calls[v].pc \in {"idle", "waiting", "fetching"} /\ calls'[v].pc = "rejected"
        /\ ClaimsAccepted(t) /\ t.kid # None
        /\ \A e \in calls'[v].began..epoch : t.kid \in DOMAIN KeySets[e] /\ KeySets[e][t.kid] = t.key)
       => \/ calls[v].pc = "fetching" /\ calls[v].answer.how # "keys"
          \/ calls[v].pc = "idle" /\ t.kid \in DOMAIN cache.keys /\ cache.keys[t.kid] # t.key
<1>1. ASSUME IInv, [Next]_vars PROVE [A]_vars
  <2>1. SUFFICES ASSUME Next, NEW v \in Verifications,
                        calls[v].pc \in {"idle", "waiting", "fetching"}, calls'[v].pc = "rejected",
                        ClaimsAccepted(calls'[v].token), calls'[v].token.kid # None,
                        \A e \in calls'[v].began..epoch :
                          /\ calls'[v].token.kid \in DOMAIN KeySets[e]
                          /\ KeySets[e][calls'[v].token.kid] = calls'[v].token.key
                 PROVE  \/ calls[v].pc = "fetching" /\ calls[v].answer.how # "keys"
                        \/ /\ calls[v].pc = "idle" /\ calls'[v].token.kid \in DOMAIN cache.keys
                           /\ cache.keys[calls'[v].token.kid] # calls'[v].token.key
    BY <1>1
  <2>2. calls \in [Verifications -> Call] /\ calls[v] \in Call
    BY <1>1 DEF IInv, TypeOK
  <2>3. CASE verify(v)
    <3>1. PICK t \in Tokens :
            LET c == [calls[v] EXCEPT !.token = t, !.began = epoch] IN
            calls' = [calls EXCEPT ![v] =
              IF t.kid = None THEN Ended(c, "rejected")
              ELSE IF t.kid \in DOMAIN cache.keys THEN Ended(c, Verdict(t, cache.keys))
              ELSE [c EXCEPT !.pc = "waiting"]]
      BY <2>3 DEF verify
    <3>2. calls'[v].token = t
      BY <3>1, <2>2 DEF Ended, Call
    <3>3. t.kid \in DOMAIN cache.keys /\ Verdict(t, cache.keys) = "rejected"
      BY <2>1, <3>1, <3>2, <2>2 DEF Ended, Call
    <3> QED BY <2>1, <2>3, <3>2, <3>3 DEF Verdict, verify
  <2>4. CASE Receive(v)
    <3> DEFINE a == calls[v].answer
    <3>1. SUFFICES ASSUME a.how = "keys" PROVE FALSE
      BY <2>4 DEF Receive
    <3>2. cache' = [keys |-> KeySets[a.epoch], epoch |-> a.epoch]
      BY <2>4, <3>1 DEF Receive, Replaced
    <3>3. calls'[v] = Ended(calls[v], Verdict(calls[v].token, cache'.keys))
      BY <2>2, <2>4, <3>1 DEF Receive
    <3>4. calls'[v].token = calls[v].token /\ calls'[v].began = calls[v].began
          /\ calls'[v].pc = Verdict(calls[v].token, cache'.keys)
      BY <2>2, <3>3 DEF Ended, Call
    <3>5. a.epoch \in calls[v].began..epoch
      <4>1. a # None
        BY <2>4 DEF Receive
      <4>2. a \in Answer /\ calls[v].began <= a.epoch /\ a.epoch <= epoch
        BY <1>1, <2>2, <4>1 DEF IInv, TypeOK, Call
      <4>3. calls[v].began \in Nat /\ a.epoch \in Nat /\ epoch \in Nat
        BY <1>1, <2>2, <4>2, KeyCacheAssumption DEF IInv, TypeOK, Call, Answer, Epochs
      <4> QED BY <4>2, <4>3
    <3>6. Verdict(calls[v].token, cache'.keys) = "accepted"
      BY <2>1, <3>2, <3>4, <3>5 DEF Verdict
    <3> QED BY <2>1, <3>4, <3>6
  <2>5. ASSUME NEW w \in Verifications, w # v, verify(w) \/ Acquire(w) \/ Serve(w) \/ Receive(w)
        PROVE  calls'[v] = calls[v]
    BY <2>2, <2>5 DEF verify, Acquire, Serve, Receive
  <2>6. CASE Acquire(v) \/ Serve(v)
    BY <2>1, <2>2, <2>6 DEF Acquire, Serve, Call
  <2>7. CASE Rotate
    BY <2>1, <2>7 DEF Rotate
  <2> QED BY <2>1, <2>3, <2>4, <2>5, <2>6, <2>7 DEF Next
<1> QED BY <1>1, InvariantHolds, PTL DEF Spec, GenuineIsAccepted
===============================================================================
