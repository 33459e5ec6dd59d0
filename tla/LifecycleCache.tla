--------------------------- MODULE LifecycleCache ---------------------------
(***************************************************************************)
(* The lifecycle together with one consumer App that keeps each user's     *)
(* stage in a cache (src/app/conversion/cache_invalidator.py: the consumer *)
(* itself is outside the repository).  The App fills its cache from        *)
(* GET /users/{uuid}/lifecycle, forgets an entry when the webhook of       *)
(* cache_invalidator arrives, and otherwise when the entry's TTL is over.  *)
(* The webhook is sent once, best effort, and is scheduled as soon as the  *)
(* new row is flushed: before the commit.                                  *)
(***************************************************************************)
EXTENDS Lifecycle

VARIABLES
  cache,     \* by user: the stage the App serves, or NoEntry
  answer,    \* by user: the answer on its way to the App, or NoEntry
  lost,      \* by user: an invalidation was lost
  early      \* by user: an invalidation arrived before the commit it announced

cvars == <<vars, cache, answer, lost, early>>

NoEntry == "no entry"

\* What GET /users/{uuid}/lifecycle answers.
Served(u) == IF CurrentStatus(u) = NoStatus THEN "visitor" ELSE CurrentStatus(u)

Fetch(u) ==
  /\ cache[u] = NoEntry /\ answer[u] = NoEntry
  /\ answer' = [answer EXCEPT ![u] = Served(u)]
  /\ UNCHANGED <<vars, cache, lost, early>>

Fill(u) ==
  /\ answer[u] # NoEntry
  /\ cache' = [cache EXCEPT ![u] = answer[u]]
  /\ answer' = [answer EXCEPT ![u] = NoEntry]
  /\ UNCHANGED <<vars, lost, early>>

Expire(u) ==
  /\ cache[u] # NoEntry
  /\ cache' = [cache EXCEPT ![u] = NoEntry]
  /\ UNCHANGED <<vars, answer, lost, early>>

\* An invalidation of u leaves the event loop.
TakeNotice(u) ==
  /\ notices[u] > 0
  /\ notices' = [notices EXCEPT ![u] = @ - 1]
  /\ UNCHANGED <<events, transitions, nextId, clock, txn, vouched>>

\* A row of u is flushed and not yet committed.
Flushed(u) ==
  \E w \in Workers : /\ txn[w].phase = "flushed" /\ "row" \in DOMAIN txn[w]
                     /\ txn[w].row.user = u

\* _post_one reaches the consumer.  The App is modelled as careful as can be: it
\* also drops the answer it is waiting for.  Nothing older matters from then on.
Invalidate(u) ==
  /\ TakeNotice(u)
  /\ cache' = [cache EXCEPT ![u] = NoEntry]
  /\ answer' = [answer EXCEPT ![u] = NoEntry]
  /\ lost' = [lost EXCEPT ![u] = FALSE]
  /\ early' = [early EXCEPT ![u] = Flushed(u)]

\* _post_one fails: logged, never repeated.
LoseInvalidate(u) ==
  /\ TakeNotice(u)
  /\ lost' = [lost EXCEPT ![u] = TRUE]
  /\ UNCHANGED <<cache, answer, early>>

CacheInit ==
  /\ Init
  /\ cache = [u \in Users |-> NoEntry]
  /\ answer = [u \in Users |-> NoEntry]
  /\ lost = [u \in Users |-> FALSE]
  /\ early = [u \in Users |-> FALSE]

CacheNext ==
  \/ /\ Tick \/ \E w \in Workers : Begin(w) \/ Work(w)
     /\ UNCHANGED <<cache, answer, lost, early>>
  \/ \E u \in Users :
       Fetch(u) \/ Fill(u) \/ Expire(u) \/ Invalidate(u) \/ LoseInvalidate(u)

CacheSpec == CacheInit /\ [][CacheNext]_cvars

-----------------------------------------------------------------------------

Agrees(u) == cache[u] \in {NoEntry, Served(u)}

\* "Losing an invalidate at most delays freshness" (cache_invalidator.py:133):
\* an App serves a stage the user has left only while an invalidation is under
\* way, after one was lost, or after one overtook the commit it announced.
\* Every row that moves a user, by rule or by override, is covered.
StaleForCause ==
  \A u \in Users : ~Agrees(u) => notices[u] > 0 \/ lost[u] \/ early[u]

=============================================================================
