------------------------------- MODULE KeyCache -------------------------------
(***************************************************************************)
(* Verification of provider ID tokens (JwksIdTokenVerifier behind          *)
(* OAuthService): the verifications that run at once in a worker share one *)
(* cache of the provider's public keys and one asyncio.Lock around its     *)
(* refetch.  Between two awaits a coroutine runs alone, so what verify     *)
(* does between the answer of the fetch and its own return is one step.    *)
(* The provider changes the key set it publishes; a fetch is served with   *)
(* the set of that moment and answered later, or fails.                    *)
(***************************************************************************)
EXTENDS Naturals

CONSTANTS
  Verifications,  \* calls of verify_identity that may run at the same time
  Tokens,         \* ID tokens presented
  KeySets,        \* KeySets[e]: the keys published in epoch e, by key id
  MaxEpoch,       \* changes of the key set: the bound of a check
  Issuers, Audiences, \* accepted ones
  None

ASSUME KeyCacheAssumption ==
  /\ MaxEpoch \in Nat
  /\ \A t \in Tokens : DOMAIN t = {"kid", "key", "issuer", "audience", "fresh", "subject"}
  /\ None \notin Tokens

Epochs == 0..MaxEpoch
NoKeys == [k \in {} |-> None]

VARIABLES
  epoch,   \* of the provider
  cache,   \* _keys_by_kid, and the epoch it was served in
  holder,  \* who holds _refresh_lock, or None
  calls    \* each verification: token, progress, answer in flight, outcome

vars == <<epoch, cache, holder, calls>>

\* What a fetch may be answered with besides the key set: an error status, a
\* timeout or no JSON at all; JSON without a list of keys; a list that is null
\* or has keys that cannot be stored.
Failures == {"http_error", "no_keys", "malformed"}
Answer == [how: {"keys"} \cup Failures, epoch: Epochs]
Call == [pc: {"idle", "waiting", "fetching", "accepted", "rejected"}, token: Tokens \cup {None},
         began: Epochs, answer: Answer \cup {None}, fetches: Nat]
ASSUME NoneAssumption == None \notin Answer /\ None \notin Verifications
Idle == [pc |-> "idle", token |-> None, began |-> 0, answer |-> None, fetches |-> 0]

-----------------------------------------------------------------------------
_audience_is_accepted(t) == t.audience \cap Audiences # {}
ClaimsAccepted(t) == t.issuer \in Issuers /\ t.fresh /\ _audience_is_accepted(t) /\ t.subject

\* (slip: a token is tried with every key)
VerdictAnyKey(t, keys) ==
  IF (\E k \in DOMAIN keys : keys[k] = t.key) /\ ClaimsAccepted(t) THEN "accepted" ELSE "rejected"
\* What verify returns once it has the keys: the signature and the claims.
Verdict(t, keys) ==
  IF /\ t.kid \in DOMAIN keys
     /\ keys[t.kid] = t.key
     /\ ClaimsAccepted(t)
  THEN "accepted" ELSE "rejected"

Ended(c, verdict) == [c EXCEPT !.pc = verdict, !.answer = None]

\* verify: from the cache, or on to _refresh_keys.
verify(v) ==
  /\ calls[v].pc = "idle"
  /\ \E t \in Tokens :
       LET c == [calls[v] EXCEPT !.token = t, !.began = epoch] IN
       calls' = [calls EXCEPT ![v] =
         IF t.kid = None THEN Ended(c, "rejected")
         ELSE IF t.kid \in DOMAIN cache.keys THEN Ended(c, Verdict(t, cache.keys))
         ELSE [c EXCEPT !.pc = "waiting"]]
  /\ UNCHANGED <<epoch, cache, holder>>

\* (slip: no lock)
AcquireAnyway(v) ==
  /\ calls[v].pc = "waiting"
  /\ holder' = v
  /\ calls' = [calls EXCEPT ![v].pc = "fetching", ![v].fetches = @ + 1]
  /\ UNCHANGED <<epoch, cache>>

\* (slip: who waited takes what the one before fetched)
AcquireRechecked(v) ==
  /\ calls[v].pc = "waiting" /\ holder = None
  /\ IF cache.keys # NoKeys
     THEN /\ calls' = [calls EXCEPT ![v] = Ended(@, Verdict(@.token, cache.keys))]
          /\ UNCHANGED holder
     ELSE /\ calls' = [calls EXCEPT ![v].pc = "fetching", ![v].fetches = @ + 1]
          /\ holder' = v
  /\ UNCHANGED <<epoch, cache>>

\* async with _refresh_lock, and the request is sent.
Acquire(v) ==
  /\ calls[v].pc = "waiting" /\ holder = None
  /\ holder' = v
  /\ calls' = [calls EXCEPT ![v].pc = "fetching", ![v].fetches = @ + 1]
  /\ UNCHANGED <<epoch, cache>>

\* The provider serves its current key set, or something goes wrong.
Serve(v) ==
  /\ calls[v].pc = "fetching" /\ calls[v].answer = None
  /\ \E how \in {"keys"} \cup Failures :
       calls' = [calls EXCEPT ![v].answer = [how |-> how, epoch |-> epoch]]
  /\ UNCHANGED <<epoch, cache, holder>>

\* What the cache is replaced by.  A failed fetch leaves it; JSON without keys
\* empties it.
Replaced(a) ==
  CASE a.how = "keys"    -> [keys |-> KeySets[a.epoch], epoch |-> a.epoch]
    [] a.how = "no_keys" -> [keys |-> NoKeys, epoch |-> a.epoch]
    [] OTHER             -> cache

\* (slip: the lock is released by a successful fetch only)
ReceiveKeepsLock(v) ==
  LET a == calls[v].answer IN
  /\ calls[v].pc = "fetching" /\ a # None
  /\ cache' = Replaced(a)
  /\ holder' = IF a.how = "malformed" THEN holder ELSE None
  /\ calls' = [calls EXCEPT ![v] = Ended(@, IF a.how \in {"http_error", "malformed"} THEN "rejected"
                                            ELSE Verdict(@.token, cache'.keys))]
  /\ UNCHANGED epoch

\* The answer arrives: the cache is replaced, the lock released, the token
\* verified with what is now in the cache; every error is a rejection.
Receive(v) ==
  LET a == calls[v].answer IN
  /\ calls[v].pc = "fetching" /\ a # None
  /\ cache' = Replaced(a)
  /\ holder' = None
  /\ calls' = [calls EXCEPT ![v] = Ended(@, IF a.how \in {"http_error", "malformed"} THEN "rejected"
                                            ELSE Verdict(@.token, cache'.keys))]
  /\ UNCHANGED epoch

Rotate ==
  /\ epoch < MaxEpoch
  /\ epoch' = epoch + 1
  /\ UNCHANGED <<cache, holder, calls>>

-----------------------------------------------------------------------------
Init ==
  /\ epoch = 0 /\ cache = [keys |-> NoKeys, epoch |-> 0] /\ holder = None
  /\ calls = [v \in Verifications |-> Idle]

Next == \/ \E v \in Verifications : verify(v) \/ Acquire(v) \/ Serve(v) \/ Receive(v)
        \/ Rotate

\* The lock is handed to those who wait, the client gives a fetch a timeout.
Fairness == \A v \in Verifications : WF_vars(Acquire(v)) /\ WF_vars(Serve(v)) /\ WF_vars(Receive(v))
Spec == Init /\ [][Next]_vars /\ Fairness

-----------------------------------------------------------------------------
(* Properties *)

Running(v) == calls[v].pc \in {"waiting", "fetching"}

\* Nothing refers to a key set that is not published yet; the lock is held by
\* the verification that fetches, and only while it does.
TypeOK ==
  /\ epoch \in Epochs
  /\ cache \in [keys: {NoKeys} \cup {KeySets[e] : e \in Epochs}, epoch: 0..epoch]
  /\ holder \in Verifications \cup {None}
  /\ calls \in [Verifications -> Call]
  /\ \A v \in Verifications :
       /\ calls[v].pc = "fetching" <=> holder = v
       /\ calls[v].pc # "idle" => calls[v].token \in Tokens
       /\ calls[v].began <= epoch
       /\ calls[v].answer # None => calls[v].answer.epoch <= epoch /\ calls[v].pc = "fetching"

\* One fetch at a time, and one for a verification: Checkpoint_S02_AUTH-002.md
\* asks for "at most one refetch".
OneFetch ==
  /\ \A v \in Verifications : calls[v].fetches <= 1
  /\ \A v, w \in Verifications : calls[v].pc = "fetching" /\ calls[w].pc = "fetching" => v = w

\* The cache is a key set the provider published, or empty, and never goes back
\* to an older one.
CacheNeverGoesBack ==
  [][/\ cache'.epoch >= cache.epoch
     /\ cache'.keys \in {cache.keys, NoKeys, KeySets[cache'.epoch]}]_vars

\* A token is accepted only if the provider has published its key under its key
\* id, and its claims are for this application.
AcceptedIsGenuine ==
  \A v \in Verifications : calls[v].pc = "accepted" =>
    LET t == calls[v].token IN
    /\ \E e \in 0..epoch : t.kid \in DOMAIN KeySets[e] /\ KeySets[e][t.kid] = t.key
    /\ t.issuer \in Issuers /\ t.audience \cap Audiences # {} /\ t.fresh /\ t.subject

\* (inductive invariant)  An answer in flight is no older than the cache it will
\* replace nor than the verification that asked for it.
IInv ==
  /\ TypeOK /\ OneFetch /\ AcceptedIsGenuine
  /\ cache.keys \in {NoKeys, KeySets[cache.epoch]}
  /\ \A v \in Verifications :
       /\ calls[v].pc \in {"idle", "waiting"} => calls[v].fetches = 0
       /\ Running(v) => calls[v].token.kid # None
       /\ calls[v].answer # None => /\ cache.epoch <= calls[v].answer.epoch
                                    /\ calls[v].began <= calls[v].answer.epoch

\* A good token whose key is published from before its verification on is
\* refused only when the key could not be fetched, or another key had its id.
GenuineIsAccepted ==
  [][\A v \in Verifications :
       LET t == calls'[v].token IN
       (/\ calls[v].pc \in {"idle", "waiting", "fetching"} /\ calls'[v].pc = "rejected"
        /\ ClaimsAccepted(t) /\ t.kid # None
        /\ \A e \in calls'[v].began..epoch : t.kid \in DOMAIN KeySets[e] /\ KeySets[e][t.kid] = t.key)
       => \/ calls[v].pc = "fetching" /\ calls[v].answer.how # "keys"
          \/ calls[v].pc = "idle" /\ t.kid \in DOMAIN cache.keys /\ cache.keys[t.kid] # t.key]_vars

\* Every verification ends, whatever the fetches before its own met.
EveryVerificationEnds == \A v \in Verifications : Running(v) ~> ~Running(v)
===============================================================================
