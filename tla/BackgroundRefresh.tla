------------------------- MODULE BackgroundRefresh --------------------------
(***************************************************************************)
(* The background work that requests of the API queue, at most one job for *)
(* each key: refreshes of stock profiles and of stock basics in two thread *)
(* pools (services/live_market/core.py), refreshes of cached calls         *)
(* (core/typed_cache.py) and event backfills (event_feed_service.py) in    *)
(* threads of their own.  A request claims keys under a lock, hands a job  *)
(* over, and the job releases them when it is over.  The four kinds share  *)
(* nothing: a behaviour is about one of them.                              *)
(***************************************************************************)
EXTENDS Naturals, Sequences, FiniteSets, SequencesExt

CONSTANTS
  Keys,      \* symbols, cache keys, date ranges
  Callers,   \* request threads
  Workers,   \* max_workers of each pool
  MaxRows    \* max_symbols: rows of a page whose basics are refreshed

Pools == {"profile", "basics"}
Threads == {"call", "backfill"}

ASSUME RefreshAssumption == Workers \in [Pools -> Nat \ {0}] /\ MaxRows \in Nat \ {0}

VARIABLES
  kind,     \* what the behaviour is about
  claimed,  \* the keys in the kind's _REFRESH_SYMBOLS, _KEYS or _INFLIGHT set
  jobs,     \* the jobs in the order they were handed over, each with its keys
            \* and whether only their release is left
  caller,   \* what each request thread is at, and with which keys
  value,    \* call: the cached value of each key: "none", "fresh", "stale", or
            \* "unstamped" without a saved_at
  rows,     \* backfill: the ranges whose events the database has
  leaked    \* history: claims whose thread could not be started

vars == <<kind, claimed, jobs, caller, value, rows, leaked>>

Idle == [at |-> "idle", keys |-> {}]

Init ==
  /\ kind \in Pools \cup Threads
  /\ claimed = {} /\ jobs = <<>> /\ rows = {} /\ leaked = {}
  /\ caller = [c \in Callers |-> Idle]
  /\ value \in [Keys -> IF kind = "call" THEN {"none", "unstamped"} ELSE {"none"}]

Goes(c, at, keys) == caller' = [caller EXCEPT ![c] = [at |-> at, keys |-> keys]]

-----------------------------------------------------------------------------
(* Requests *)

\* Mutant: the request does not look whether the keys are claimed.
ClaimBlind(c, wanted) ==
  /\ claimed' = claimed \cup wanted
  /\ Goes(c, "claimed", wanted)

\* The block under the lock: what nobody has claimed yet is this request's; it
\* returns if that is nothing.
Claim(c, wanted) ==
  LET free == wanted \ claimed
  IN /\ claimed' = claimed \cup free
     /\ IF free = {} THEN Goes(c, "idle", {}) ELSE Goes(c, "claimed", free)

\* _queue_background_profile_refresh.
WantProfile(c, k) ==
  /\ kind = "profile" /\ caller[c] = Idle
  /\ Claim(c, {k})
  /\ UNCHANGED <<kind, jobs, value, rows, leaked>>

\* _queue_background_profile_refresh_for_rows of a page, and
\* _queue_background_stock_basics_refresh.
WantBasics(c, keys) ==
  /\ kind = "basics" /\ caller[c] = Idle
  /\ keys # {} /\ Cardinality(keys) <= MaxRows
  /\ Claim(c, keys)
  /\ UNCHANGED <<kind, jobs, value, rows, leaked>>

\* cached_call serves what is cached; with a refresher it queues a refresh of
\* what it knows to be stale.
ServeStale(c, k) ==
  /\ kind = "call" /\ caller[c] = Idle /\ value[k] = "stale"
  /\ Claim(c, {k})
  /\ UNCHANGED <<kind, jobs, value, rows, leaked>>

\* cached_call loads what is not cached, or not usable.
Miss(c, k) ==
  /\ kind = "call" /\ caller[c] = Idle
  /\ Goes(c, "loading", {k})
  /\ UNCHANGED <<kind, claimed, jobs, value, rows, leaked>>

Refreshed(keys) == [k \in Keys |-> IF k \in keys THEN "fresh" ELSE value[k]]

\* The loader and the setter succeed, or one fails.
Loaded(c) ==
  /\ caller[c].at = "loading"
  /\ Goes(c, "idle", {})
  /\ value' \in {value, Refreshed(caller[c].keys)}
  /\ UNCHANGED <<kind, claimed, jobs, rows, leaked>>

\* load_or_backfill_event_feed of a range without events: mode "async" is
\* _schedule_remote_backfill; in mode "sync" the request runs the job.
WantBackfill(c, k) ==
  /\ kind = "backfill" /\ caller[c] = Idle /\ k \notin rows
  /\ \/ Claim(c, {k})
     \/ Goes(c, "backfilling", {k}) /\ UNCHANGED claimed
  /\ UNCHANGED <<kind, jobs, value, rows, leaked>>

Backfilled(c) ==
  /\ caller[c].at = "backfilling"
  /\ Goes(c, "idle", {})
  /\ rows' \in {rows, rows \cup caller[c].keys}
  /\ UNCHANGED <<kind, claimed, jobs, value, leaked>>

\* submit(), or the start of a thread.
HandOver(c) ==
  /\ caller[c].at = "claimed"
  /\ jobs' = Append(jobs, [keys |-> caller[c].keys, over |-> FALSE])
  /\ Goes(c, "idle", {})
  /\ UNCHANGED <<kind, claimed, value, rows, leaked>>

\* The pool refuses the job (it is shut down, or can start no thread).
SubmitRaises(c) ==
  /\ caller[c].at = "claimed" /\ kind \in Pools
  /\ claimed' = claimed \ caller[c].keys
  /\ Goes(c, "idle", {})
  /\ UNCHANGED <<kind, jobs, value, rows, leaked>>

\* Thread.start raises; the request fails and its claim stays.
StartRaises(c) ==
  /\ caller[c].at = "claimed" /\ kind \in Threads
  /\ leaked' = leaked \cup caller[c].keys
  /\ Goes(c, "idle", {})
  /\ UNCHANGED <<kind, claimed, jobs, value, rows>>

-----------------------------------------------------------------------------
(* Jobs *)

\* A pool runs the oldest jobs, threads run at once.
Runs(i) == i \in DOMAIN jobs /\ (kind \in Pools => i <= Workers[kind])

\* The refresher, get_cached_stock_basic or run_events_job returns or raises;
\* the job's finally clause is next.
Work(i) ==
  /\ Runs(i) /\ ~jobs[i].over
  /\ jobs' = [jobs EXCEPT ![i].over = TRUE]
  /\ value' \in IF kind = "call" THEN {value, Refreshed(jobs[i].keys)} ELSE {value}
  /\ rows' \in IF kind = "backfill" THEN {rows, rows \cup jobs[i].keys} ELSE {rows}
  /\ UNCHANGED <<kind, claimed, caller, leaked>>

\* Mutant: the release is not in a finally clause, and the job raises.
ReleaseOnSuccess(i) ==
  /\ Runs(i) /\ jobs[i].over
  /\ claimed' \in {claimed, claimed \ jobs[i].keys}
  /\ jobs' = RemoveAt(jobs, i)
  /\ UNCHANGED <<kind, caller, value, rows, leaked>>

Release(i) ==
  /\ Runs(i) /\ jobs[i].over
  /\ claimed' = claimed \ jobs[i].keys
  /\ jobs' = RemoveAt(jobs, i)
  /\ UNCHANGED <<kind, caller, value, rows, leaked>>

\* Cached values pass stale_after_seconds, and their ttl.
Tick(k) ==
  /\ value[k] # "none"
  /\ value' = [value EXCEPT ![k] = IF @ = "fresh" THEN "stale" ELSE "none"]
  /\ UNCHANGED <<kind, claimed, jobs, caller, rows, leaked>>

Next ==
  \/ \E c \in Callers :
       \/ \E k \in Keys : WantProfile(c, k) \/ ServeStale(c, k) \/ Miss(c, k) \/ WantBackfill(c, k)
       \/ \E keys \in SUBSET Keys : WantBasics(c, keys)
       \/ Loaded(c)
       \/ Backfilled(c)
       \/ HandOver(c)
       \/ SubmitRaises(c)
       \/ StartRaises(c)
  \/ \E i \in DOMAIN jobs : Work(i) \/ Release(i)
  \/ \E k \in Keys : Tick(k)

\* Threads with something to do are scheduled; the oldest job is one of those
\* that run.
Proceeds(c) == HandOver(c) \/ SubmitRaises(c) \/ StartRaises(c)
OldestProceeds == jobs # <<>> /\ (Work(1) \/ Release(1))

Spec == /\ Init /\ [][Next]_vars
        /\ WF_vars(OldestProceeds) /\ \A c \in Callers : WF_vars(Proceeds(c))

-----------------------------------------------------------------------------
(* Properties *)

TypeOK ==
  /\ kind \in Pools \cup Threads
  /\ claimed \subseteq Keys /\ leaked \subseteq Keys /\ rows \subseteq Keys
  /\ \A i \in DOMAIN jobs : jobs[i] \in [keys : SUBSET Keys, over : BOOLEAN]
  /\ caller \in [Callers -> [at : {"idle", "claimed", "loading", "backfilling"}, keys : SUBSET Keys]]
  /\ value \in [Keys -> {"none", "fresh", "stale", "unstamped"}]

\* Those who answer for claims: requests about to hand a job over, and jobs.
Claimers == {c \in Callers : caller[c].at = "claimed"}

\* Each claimed key has one holder, whatever requests overlap, whatever part
\* of a batch was claimed before, whatever submission is refused and whatever
\* job raises; and no job works on a key that is not claimed.  Only a thread
\* that cannot be started leaves a claim without a holder.
ClaimsBacked ==
  /\ claimed = leaked \cup (UNION {caller[c].keys : c \in Claimers})
                      \cup (UNION {jobs[i].keys : i \in DOMAIN jobs})
  /\ \A c \in Claimers :
       /\ caller[c].keys \cap leaked = {}
       /\ \A d \in Claimers \ {c} : caller[c].keys \cap caller[d].keys = {}
       /\ \A i \in DOMAIN jobs : caller[c].keys \cap jobs[i].keys = {}
  /\ \A i \in DOMAIN jobs :
       /\ jobs[i].keys \cap leaked = {}
       /\ \A j \in DOMAIN jobs \ {i} : jobs[i].keys \cap jobs[j].keys = {}

\* Whatever is claimed can be claimed again later, unless its claim leaked: no
\* symbol, cached call or range is left out of refreshes for good.
ClaimsReleased ==
  \A k \in Keys : k \in claimed ~> k \notin claimed \/ k \in leaked
=============================================================================
