----------------------------- MODULE QueryCache -----------------------------
(***************************************************************************)
(* The query cache of the web client (services/api/core.ts) with the hook  *)
(* that mounts it in components (hooks/useApiQuery.ts) and the copy it      *)
(* keeps in localStorage (utils/persistentCache.ts), for one cache key.    *)
(* JavaScript runs one callback at a time: an action is everything that a  *)
(* callback does until it returns.  Data is the version of the resource    *)
(* that the server answered with.  Points in time are kept as ticks: those *)
(* left until staleAt and expiresAt, those since updatedAt and savedAt.    *)
(***************************************************************************)
EXTENDS Integers, FiniteSets

CONSTANTS
  Components,   \* components that may mount the query
  Entries,      \* identities of ApiQueryEntry objects (bound: alive at once)
  Requests,     \* bound: requests that run at once
  Nothing,      \* undefined, null
  Never,        \* no age: a null updatedAt
  StaleTime,    \* staleTimeMs
  CacheTime,    \* cacheTimeMs
  MaxAge,       \* persist.maxAgeMs
  RetryDelay,   \* retryDelayMs
  Retries,      \* retry
  MaxVersion    \* bound: changes of the resource

ASSUME QueryAssumption ==
  /\ {StaleTime, CacheTime, MaxAge, RetryDelay, Retries, MaxVersion} \subseteq Nat
  /\ CacheTime >= StaleTime
  /\ Never \in Int /\ Never < 0
  /\ Nothing \notin Nat \cup Entries \cup Requests

VARIABLES
  server,    \* the version of the resource
  persists,  \* whether the query's options have persist
  entry,     \* the ApiQueryEntry objects
  current,   \* the one that queryCache has under the key, or Nothing
  saved,     \* the envelope in localStorage, or Nothing; with it whether the
             \* request that it came from was the one the cache waited for
  request,   \* the requests: those of startQueryFetch, and page loads that
             \* end in primeApiQuery (they belong to no entry)
  shown,     \* the snapshot each component renders; Nothing: not mounted
  asked      \* history: the request that a component's refetch waits for and
             \* the version it must bring; the request is Nothing in the state
             \* in which the refetch resolves

outside == <<server, persists>>
vars == <<outside, entry, current, saved, request, shown, asked>>

Blank == [data |-> Nothing, error |-> FALSE, updated |-> Never, stale |-> 0, expires |-> 0,
          inflight |-> Nothing, fetching |-> FALSE, listeners |-> {}, timer |-> FALSE]
Free == [phase |-> "free", entry |-> Nothing, tries |-> 0, version |-> Nothing]

Init ==
  /\ server = 0 /\ persists \in BOOLEAN
  /\ entry = [e \in Entries |-> Blank] /\ current = Nothing
  /\ saved = Nothing
  /\ request = [f \in Requests |-> Free]
  /\ shown = [c \in Components |-> Nothing]
  /\ asked = [c \in Components |-> Nothing]

Running(f) == request[f].phase # "free"

\* The current entry waits for f.
Tracked(f) == current # Nothing /\ entry[current].inflight = f

\* Refetches that have resolved leave the history with the next step.
Pending == [c \in Components |->
             IF asked[c] # Nothing /\ asked[c].of = Nothing THEN Nothing ELSE asked[c]]
Later(a, b) == IF a < b THEN b ELSE a

-----------------------------------------------------------------------------
(* The parts of a callback.  q is the cache while the callback runs: its   *)
(* entries and the current one; s is what localStorage holds then.         *)

Cache == [entry |-> entry, current |-> current]
Entry(q) == q.entry[q.current]

\* getOrCreateQueryEntry.
Unused(e) == entry[e] = Blank /\ e # current /\ \A f \in Requests : request[f].entry # e
GetOrCreate(q) ==
  IF q.current # Nothing THEN q
  ELSE [entry |-> q.entry, current |-> CHOOSE e \in Entries : Unused(e)]

\* Mutant: what localStorage has is taken without a look at its age.
HydrateAnyway(e, s) ==
  IF persists /\ s # Nothing /\ s.age <= MaxAge
    THEN [e EXCEPT !.data = s.value, !.error = FALSE, !.updated = s.age,
                   !.stale = Later(StaleTime - s.age, 0), !.expires = CacheTime,
                   !.inflight = Nothing, !.fetching = FALSE, !.timer = TRUE]
    ELSE e

\* hydrateQueryEntryFromPersistence; getPersistentCacheEntry hides what is
\* older than MaxAge.
Hydrate(e, s) ==
  IF persists /\ s # Nothing /\ s.age <= MaxAge /\ (e.updated = Never \/ e.updated > s.age)
    THEN [e EXCEPT !.data = s.value, !.error = FALSE, !.updated = s.age,
                   !.stale = Later(StaleTime - s.age, 0), !.expires = CacheTime,
                   !.inflight = Nothing, !.fetching = FALSE, !.timer = TRUE]
    ELSE e

Hydrated(q, s) == [q EXCEPT !.entry[q.current] = Hydrate(@, s)]

\* getApiQuerySnapshot: what it does to the cache, and what it returns.
Look(q, s) == IF persists THEN Hydrated(GetOrCreate(q), s) ELSE q

Snapshot(q) ==
  IF q.current = Nothing THEN [data |-> Nothing, error |-> FALSE, loading |-> TRUE]
  ELSE LET e == Entry(q)
       IN [data |-> e.data, error |-> e.error,
           loading |-> e.data = Nothing /\ ~e.error /\ (e.fetching \/ e.updated = Never)]

\* notifyQueryListeners of entry e: each listener takes a snapshot of the key.
Notify(q, e, s) == IF q.entry[e].listeners = {} THEN q ELSE Look(q, s)
Renders(q, e, s) ==
  shown' = [c \in Components |-> IF c \in q.entry[e].listeners
                                 THEN Snapshot(Look(q, s)) ELSE shown[c]]

\* A callback ends.  Of an entry that is not the current one only the
\* listeners matter: nobody reads the rest again.
Commit(q) ==
  /\ current' = q.current
  /\ entry' = [e \in Entries |->
       IF e = q.current THEN q.entry[e] ELSE [Blank EXCEPT !.listeners = q.entry[e].listeners]]

\* A current entry can be had within the bounds.
Room == current # Nothing \/ \E e \in Entries : Unused(e)
Idle == {f \in Requests : ~Running(f)}
NewRequest == CHOOSE f \in Idle : TRUE
Issue(f, e) == request' = [request EXCEPT ![f] = [Free EXCEPT !.phase = "sent", !.entry = e]]

\* runApiQuery, after the look at the entry: whether it gets to startQueryFetch
\* and that starts a request.
Starts(q, force) ==
  /\ Entry(q).inflight = Nothing
  /\ force \/ Entry(q).data = Nothing \/ Entry(q).stale = 0

\* startQueryFetch, of the current entry: its listeners are told before the
\* promise is kept in the entry.
Start(q, f) ==
  LET told == Notify([q EXCEPT !.entry[q.current].fetching = TRUE,
                               !.entry[q.current].error = FALSE], q.current, saved)
  IN [told EXCEPT !.entry[q.current].inflight = f]

StartOrServe(q, force) ==
  IF Starts(q, force)
    THEN /\ Idle # {}
         /\ Issue(NewRequest, q.current)
         /\ Commit(Start(q, NewRequest))
         /\ Renders(Start(q, NewRequest), q.current, saved)
    ELSE /\ UNCHANGED request
         /\ Commit(q)

-----------------------------------------------------------------------------
(* useApiQuery *)

Mounted(c) == shown[c] # Nothing

\* The effect: snapshot, subscribe, run.
Mount(c) ==
  LET seen == GetOrCreate(Look(Cache, saved))
      q == Hydrated([seen EXCEPT !.entry[seen.current].listeners = @ \cup {c}], saved)
  IN /\ ~Mounted(c) /\ Room
     /\ StartOrServe(q, FALSE)
     /\ ~Starts(q, FALSE) => shown' = [shown EXCEPT ![c] = Snapshot(Look(Cache, saved))]
     /\ UNCHANGED <<outside, saved>> /\ asked' = Pending

Unmount(c) ==
  /\ Mounted(c)
  /\ UNCHANGED request
  /\ LET e == CHOOSE e \in Entries : c \in entry[e].listeners
         left == entry[e].listeners \ {c}
     IN Commit([Cache EXCEPT !.entry[e].listeners = left,
                             !.entry[e].timer = @ \/ left = {}])
  /\ shown' = [shown EXCEPT ![c] = Nothing]
  /\ asked' = [Pending EXCEPT ![c] = Nothing]
  /\ UNCHANGED <<outside, saved>>

\* Mutant: a forced run serves fresh data.
RefetchLazily(c) ==
  LET q == Hydrated(GetOrCreate(Cache), saved)
  IN /\ Mounted(c) /\ Room
     /\ StartOrServe(q, FALSE)
     /\ ~Starts(q, FALSE) => UNCHANGED shown
     /\ asked' = [Pending EXCEPT ![c] =
          IF ~Starts(q, TRUE) THEN Nothing
          ELSE [of |-> IF Starts(q, FALSE) THEN entry'[current'].inflight ELSE Nothing,
                version |-> server]]
     /\ UNCHANGED <<outside, saved>>

\* refetch: a forced run.  One that finds a request in flight waits for that.
Refetch(c) ==
  LET q == Hydrated(GetOrCreate(Cache), saved)
  IN /\ Mounted(c) /\ Room
     /\ StartOrServe(q, TRUE)
     /\ ~Starts(q, TRUE) => UNCHANGED shown
     /\ asked' = [Pending EXCEPT ![c] =
          IF Starts(q, TRUE) THEN [of |-> entry'[current'].inflight, version |-> server]
          ELSE Nothing]
     /\ UNCHANGED <<outside, saved>>

-----------------------------------------------------------------------------
(* Requests *)

\* The server reads the resource; the answer is under way.  (One that gets
\* lost, or is not ok, is not distinguished from one that was never given.)
Serve(f) ==
  /\ request[f].phase = "sent"
  /\ request' = [request EXCEPT ![f].phase = "answered", ![f].version = server, ![f].tries = 0]
  /\ UNCHANGED <<outside, entry, current, saved, shown>> /\ asked' = Pending

\* updateQuerySuccess of entry e, and writePersistentCache, which may fail.
Succeed(q, e, version, tracked) ==
  LET done == [q EXCEPT !.entry[e].data = version, !.entry[e].error = FALSE,
                        !.entry[e].updated = 0, !.entry[e].stale = StaleTime,
                        !.entry[e].expires = CacheTime,
                        !.entry[e].inflight = Nothing, !.entry[e].fetching = FALSE]
  IN /\ \/ persists /\ saved' = [age |-> 0, value |-> version, tracked |-> tracked]
        \/ UNCHANGED saved
     /\ Commit([Notify(done, e, saved') EXCEPT !.entry[e].timer = TRUE])
     /\ Renders(done, e, saved')

\* A component's refetch is over, with or without data.
Awaited(f, ok) ==
  asked' = [c \in Components |->
    IF asked[c] # Nothing /\ asked[c].of = f
      THEN IF ok THEN [asked[c] EXCEPT !.of = Nothing] ELSE Nothing
      ELSE Pending[c]]

Arrive(f) ==
  /\ request[f].phase = "answered" /\ request[f].entry # Nothing
  /\ Room
  /\ request' = [request EXCEPT ![f] = Free]
  /\ Succeed(Cache, request[f].entry, request[f].version, Tracked(f))
  /\ Awaited(f, TRUE)
  /\ UNCHANGED outside

\* Mutant: the error is kept for entries that have data, and for no others.
FailedSwapped(e) ==
  [e EXCEPT !.error = e.data # Nothing, !.stale = Later(e.stale, RetryDelay),
            !.expires = Later(e.expires, CacheTime),
            !.inflight = Nothing, !.fetching = FALSE]

\* updateQueryError, before its listeners are told.
Failed(e) ==
  [e EXCEPT !.error = e.data = Nothing, !.stale = Later(e.stale, RetryDelay),
            !.expires = Later(e.expires, CacheTime),
            !.inflight = Nothing, !.fetching = FALSE]

\* Mutant: the loop goes one round too far.
FailAndRetryOnceMore(f) ==
  /\ request[f].phase = "sent" /\ request[f].tries <= Retries
  /\ request' = [request EXCEPT ![f].phase = "asleep", ![f].tries = @ + 1]
  /\ UNCHANGED <<outside, entry, current, saved, shown>> /\ asked' = Pending

\* requestWithRetry: fetch() rejects, or the answer is not ok.
FailAndRetry(f) ==
  /\ request[f].phase = "sent" /\ request[f].tries < Retries
  /\ request' = [request EXCEPT ![f].phase = "asleep", ![f].tries = @ + 1]
  /\ UNCHANGED <<outside, entry, current, saved, shown>> /\ asked' = Pending

Retry(f) ==
  /\ request[f].phase = "asleep"
  /\ request' = [request EXCEPT ![f].phase = "sent"]
  /\ UNCHANGED <<outside, entry, current, saved, shown>> /\ asked' = Pending

FailForGood(f) ==
  LET e == request[f].entry
      failed == [Cache EXCEPT !.entry[e] = Failed(@)]
      told == Notify(failed, e, saved)
  IN /\ request[f].phase = "sent" /\ request[f].tries = Retries
     /\ e # Nothing /\ Room
     /\ request' = [request EXCEPT ![f] = Free]
     /\ Commit([told EXCEPT !.entry[e].timer = TRUE])
     /\ Renders(failed, e, saved)
     /\ Awaited(f, FALSE)
     /\ UNCHANGED <<outside, saved>>

-----------------------------------------------------------------------------
(* Page loads that prime the query, invalidation, other tabs, the gc timer *)

\* A page asks for a payload that holds this query's data too.
LoadPage ==
  /\ Idle # {}
  /\ Issue(NewRequest, Nothing)
  /\ UNCHANGED <<outside, entry, current, saved, shown>> /\ asked' = Pending

\* primeApiQuery.
Prime(f) ==
  LET q == GetOrCreate(Cache)
  IN /\ request[f].phase = "answered" /\ request[f].entry = Nothing
     /\ Room
     /\ request' = [request EXCEPT ![f] = Free]
     /\ Succeed(q, q.current, request[f].version, FALSE)
     /\ UNCHANGED outside /\ asked' = Pending

PageFails(f) ==
  /\ request[f].phase = "sent" /\ request[f].entry = Nothing
  /\ request' = [request EXCEPT ![f] = Free]
  /\ UNCHANGED <<outside, entry, current, saved, shown>> /\ asked' = Pending

\* invalidateApiQueries.  The entry's listeners stay with it; their snapshot
\* may create another one, that nothing listens to.
Invalidate ==
  LET e == current
      gone == [entry |-> [entry EXCEPT ![e].inflight = Nothing, ![e].fetching = FALSE,
                                       ![e].timer = FALSE],
               current |-> Nothing]
  IN /\ e # Nothing /\ \E n \in Entries : Unused(n)
     /\ saved' = IF persists THEN Nothing ELSE saved
     /\ UNCHANGED <<outside, request>> /\ asked' = Pending
     /\ Commit(Notify(gone, e, saved'))
     /\ Renders(gone, e, saved')

\* Another tab of the browser, with a cache of its own, saves what it got.
OtherTabSaves ==
  /\ persists
  /\ saved' = [age |-> 0, value |-> server, tracked |-> TRUE]
  /\ UNCHANGED <<outside, entry, current, request, shown>> /\ asked' = Pending

\* Mutant: listeners do not keep an entry.
InUseByRequest(e) == e.inflight # Nothing

InUse(e) == e.listeners # {} \/ e.inflight # Nothing

\* The callback of the current entry's timer, which sets another one while the
\* entry is in use; an entry that is not the current one is left alone.
CollectGarbage ==
  /\ current # Nothing /\ entry[current].timer /\ entry[current].expires = 0
  /\ ~InUse(entry[current])
  /\ UNCHANGED <<outside, saved, request, shown>> /\ asked' = Pending
  /\ Commit([Cache EXCEPT !.current = Nothing])

\* Ages above MaxAge are all alike.
Age(a) == IF a = Never \/ a > MaxAge THEN a ELSE a + 1

Tick ==
  /\ entry' = [e \in Entries |-> [entry[e] EXCEPT
       !.updated = Age(@), !.stale = Later(@ - 1, 0), !.expires = Later(@ - 1, 0)]]
  /\ saved' = IF saved = Nothing \/ saved.age = MaxAge THEN Nothing
               ELSE [saved EXCEPT !.age = @ + 1]
  /\ UNCHANGED <<outside, current, request, shown>> /\ asked' = Pending

ServerMoves ==
  /\ server < MaxVersion /\ server' = server + 1
  /\ UNCHANGED <<persists, entry, current, saved, request, shown>> /\ asked' = Pending

Next ==
  \/ Tick
  \/ ServerMoves
  \/ OtherTabSaves
  \/ Invalidate
  \/ LoadPage
  \/ CollectGarbage
  \/ \E c \in Components : Mount(c) \/ Unmount(c) \/ Refetch(c)
  \/ \E f \in Requests :
       \/ Serve(f)
       \/ Arrive(f)
       \/ FailAndRetry(f)
       \/ Retry(f)
       \/ FailForGood(f)
       \/ Prime(f)
       \/ PageFails(f)

Spec == Init /\ [][Next]_vars

-----------------------------------------------------------------------------
(* Properties *)

Value == 0..MaxVersion \cup {Nothing}

TypeOK ==
  /\ server \in 0..MaxVersion /\ persists \in BOOLEAN
  /\ entry \in [Entries -> [data : Value, error : BOOLEAN, updated : Int, stale : 0..StaleTime + RetryDelay,
                 expires : 0..CacheTime, inflight : Requests \cup {Nothing}, fetching : BOOLEAN,
                 listeners : SUBSET Components, timer : BOOLEAN]]
  /\ current \in Entries \cup {Nothing}
  /\ saved \in [age : 0..MaxAge, value : 0..MaxVersion, tracked : BOOLEAN] \cup {Nothing}
  /\ request \in [Requests -> [phase : {"free", "sent", "answered", "asleep"},
                   entry : Entries \cup {Nothing}, tries : 0..Retries, version : Value]]
  /\ shown \in [Components -> [data : Value, error : BOOLEAN, loading : BOOLEAN] \cup {Nothing}]

\* A request runs that the current entry does not wait for (a page load, or
\* one that hydration, priming or invalidation made the cache forget), or the
\* answer to one lies in localStorage.
Untracked ==
  \/ \E f \in Requests : Running(f) /\ ~Tracked(f)
  \/ saved # Nothing /\ ~saved.tracked

Data == IF current = Nothing THEN Nothing ELSE entry[current].data

\* The cache keeps its promise about answers that come in any order, retries,
\* other tabs' copies, garbage collection and remounts.
Promise == INSTANCE QueryPromise WITH value <- Data, excused <- Untracked
KeepsPromise == Promise!Spec

\* A mounted component listens to the entry that later requests will fill,
\* unless an invalidation took that from under it: garbage collection, which
\* runs whenever a timer happens to fire, never does.
ListensOn(c) == current # Nothing /\ c \in entry[current].listeners
StaysSubscribed ==
  [][\A c \in Components : ListensOn(c) /\ Mounted(c)' /\ ~Invalidate => ListensOn(c)']_vars

\* When a refetch() that found no request in flight resolves, the component
\* shows data no older than what the server had when it was called: the answer
\* it waited for, however many requests, retries and tabs there were meanwhile.
RefetchSeesWrites ==
  \A c \in Components :
    asked[c] # Nothing /\ asked[c].of = Nothing /\ ListensOn(c)
      => shown[c].data # Nothing /\ shown[c].data >= asked[c].version

\* While a component shows "loading", a request runs that will end it when it
\* settles, however often the query was hydrated, primed, collected or failed;
\* only an invalidated entry's components may be left waiting.
LoadingIsBacked ==
  \A c \in Components :
    ListensOn(c) /\ shown[c].loading
      => \E f \in Requests : Running(f) /\ request[f].entry = current
=============================================================================
