------------------------------ MODULE KeyCache ------------------------------
(***************************************************************************)
(* The public key that a process verifies JWTs with                        *)
(* (src/app/auth/jwt_verifier.py, one verifier per process).  It is        *)
(* fetched from the platform when there is none or its TTL is over.        *)
(* Nothing keeps two requests from fetching at once, and nothing compares  *)
(* the key that arrives with the one that is there.  Verifying a token is  *)
(* cryptography and left out: a token passes if it was signed with the key *)
(* the process holds, and its claims are in order.                         *)
(***************************************************************************)
EXTENDS Clock, Sequences

CONSTANTS
  Verifiers,     \* requests with a token, concurrent, in one process
  KEY_TTL,       \* pandora_core_public_key_ttl
  Latency,       \* an answer of the platform is under way for at most this long
  MaxRotations   \* bound of the model

ASSUME KeyAssumption ==
  KEY_TTL \in Nat /\ Latency \in Nat /\ MaxRotations \in Nat

VARIABLES
  rotatedAt,    \* when the platform replaced each of its keys, the first not counted
  pem,          \* _public_key_pem: the number of a key, or NoKey
  fetchedAt,    \* _fetched_at
  fetch         \* by verifier: NoFetch, or the refresh it waits for

keyVars == <<now, rotatedAt, pem, fetchedAt, fetch>>

NoKey == -1
NoFetch == [phase |-> "none"]

\* Keys are numbered from 0 in the order of their use.
CurrentKey == Len(rotatedAt)

\* Mutant of Fresh: a key that is there is good.
FreshOnceFetched == pem # NoKey

\* The key may be used without a fetch (_get_public_key).
Fresh == pem # NoKey /\ now - fetchedAt <= KEY_TTL

Rotate ==
  /\ CurrentKey < MaxRotations
  /\ rotatedAt' = Append(rotatedAt, now)
  /\ UNCHANGED <<now, pem, fetchedAt, fetch>>

\* A request needs a key.  When Fresh holds it is decoded at once.
Ask(v) ==
  /\ fetch[v] = NoFetch
  /\ ~Fresh
  /\ fetch' = [fetch EXCEPT ![v] = [phase |-> "asked"]]
  /\ UNCHANGED <<now, rotatedAt, pem, fetchedAt>>

\* The platform puts its key into an answer.
PlatformAnswers(v) ==
  /\ fetch[v].phase = "asked"
  /\ fetch' = [fetch EXCEPT ![v] = [phase |-> "answered", key |-> CurrentKey, at |-> now]]
  /\ UNCHANGED <<now, rotatedAt, pem, fetchedAt>>

\* The answer arrives; the request goes on with its key.
Install(v) ==
  /\ fetch[v].phase = "answered"
  /\ pem' = fetch[v].key
  /\ fetchedAt' = now
  /\ fetch' = [fetch EXCEPT ![v] = NoFetch]
  /\ UNCHANGED <<now, rotatedAt>>

\* No answer, an error or an answer without a key: the request fails, with the
\* old key, if any, left as it is.
FetchFails(v) ==
  /\ fetch[v] # NoFetch
  /\ fetch' = [fetch EXCEPT ![v] = NoFetch]
  /\ UNCHANGED <<now, rotatedAt, pem, fetchedAt>>

\* The process is started again.
ForgetKey ==
  /\ pem' = NoKey
  /\ fetchedAt' = 0
  /\ fetch' = [v \in Verifiers |-> NoFetch]
  /\ UNCHANGED <<now, rotatedAt>>

\* Answers do not stay under way for longer than Latency.
KeyTick ==
  /\ \A v \in Verifiers : fetch[v].phase = "answered" => now - fetch[v].at < Latency
  /\ Tick
  /\ UNCHANGED <<rotatedAt, pem, fetchedAt, fetch>>

KeyCacheInit ==
  /\ ClockInit
  /\ rotatedAt = <<>>
  /\ pem = NoKey /\ fetchedAt = 0
  /\ fetch = [v \in Verifiers |-> NoFetch]

KeyCacheNext ==
  \/ Rotate \/ ForgetKey \/ KeyTick
  \/ \E v \in Verifiers : Ask(v) \/ PlatformAnswers(v) \/ Install(v) \/ FetchFails(v)

KeyCacheSpec == KeyCacheInit /\ [][KeyCacheNext]_keyVars

-----------------------------------------------------------------------------

\* Key k was the platform's at time t or later.
InUseSince(k, t) == k = CurrentKey \/ rotatedAt[k + 1] >= t

\* "Caches it in-process for pandora_core_public_key_ttl seconds"
\* (jwt_verifier.py:3-4): a key that the platform has replaced passes no token,
\* and a new key is refused to no token, for longer than the TTL and the time an
\* answer is under way, even if a slow refresh overwrites the key of a faster
\* one.
KeyWithinWindow == Fresh => InUseSince(pem, now - KEY_TTL - Latency)

=============================================================================
