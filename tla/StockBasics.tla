----------------------------- MODULE StockBasics -----------------------------
(***************************************************************************)
(* The list of stocks (etl/fetchers/market_client.py): get_stock_basic     *)
(* answers from the cache file, the database or remote sources, and while  *)
(* Hong Kong stocks are few it first loads them in batches, with a         *)
(* checkpoint.  Callers are ETL jobs and API requests, in processes of     *)
(* their own.  Rows are their symbols: names and sectors are left out, and *)
(* with them what enrich them.  A save of the cache is one step here.      *)
(***************************************************************************)
EXTENDS Naturals, FiniteSets, FiniteSetsExt

CONSTANTS
  Callers,
  Symbols,   \* numbers
  HongKong,  \* those of Hong Kong
  Requests,  \* sets of symbols that are asked for
  MinHk,     \* HK_UNIVERSE_MIN_COUNT
  BatchSize,
  Nothing    \* no checkpoint; no symbols asked for: all of them

VARIABLES
  cache,       \* the symbols in the cache file
  db,          \* the symbols in the table stocks
  checkpoint,  \* the rest of an interrupted load: its symbols, and how many are done
  cooling,     \* processes that tried to load Hong Kong stocks of late, or on a host
               \* that was started of late: the clock of the last try begins at 0
  call,        \* what each caller is at
  replaced     \* history: callers during whose call another's rows replaced the cache

vars == <<cache, db, checkpoint, cooling, call, replaced>>

\* asked, rows: of the request; after: where a load goes on; load: the symbols
\* of a load and how many are done; had: as history, the request could be
\* answered at its begin.
Idle == [at |-> "idle", asked |-> Nothing, rows |-> {}, after |-> "idle",
         load |-> {}, next |-> 0, had |-> FALSE]

Init ==
  /\ cache \in SUBSET Symbols /\ db \in SUBSET Symbols
  /\ checkpoint = Nothing /\ cooling \in SUBSET Callers
  /\ call = [c \in Callers |-> Idle]
  /\ replaced = {}

-----------------------------------------------------------------------------
(* Operators *)

Of(asked, rows) == IF asked = Nothing THEN rows ELSE rows \cap asked

\* What the request asks for is there.
Covers(rows, asked) == IF asked = Nothing THEN rows # {} ELSE asked \subseteq rows

\* _needs_hk_universe_sync: with no symbols asked for (HK_UNIVERSE_SYNC_ON_REQUEST
\* is off).
NeedsLoad(c, rows) == call[c].asked = Nothing /\ Cardinality(rows \cap HongKong) < MinHk

\* save_stock_basics_cache: nothing for no rows.
Saves(c, rows, merge) ==
  /\ cache' = IF merge THEN cache \cup rows ELSE IF rows = {} THEN cache ELSE rows
  /\ replaced' = IF cache \subseteq cache' THEN replaced
                 ELSE replaced \cup {d \in Callers \ {c} : call[d].at # "idle"}

Goes(c, at, rows) == call' = [call EXCEPT ![c].at = at, ![c].rows = rows]

\* _maybe_sync_hk_universe, and then on.
SyncThen(c, rows, at) ==
  call' = [call EXCEPT ![c].rows = rows, ![c].after = at,
                       ![c].at = IF NeedsLoad(c, rows) THEN "load" ELSE at]

-----------------------------------------------------------------------------
(* get_stock_basic *)

Begin(c, asked, force) ==
  /\ call[c].at = "idle"
  /\ call' = [call EXCEPT ![c] = [Idle EXCEPT !.at = IF force THEN "remote" ELSE "look",
                                              !.asked = asked,
                                              !.had = ~force /\ (Covers(cache, asked) \/ Covers(db, asked))]]
  /\ replaced' = replaced \ {c}
  /\ UNCHANGED <<cache, db, checkpoint, cooling>>

Look(c) ==
  /\ call[c].at = "look"
  /\ SyncThen(c, Of(call[c].asked, cache), "cached")
  /\ UNCHANGED <<cache, db, checkpoint, cooling, replaced>>

\* Cached rows are saved again, and answered.
ServeCached(c) ==
  /\ call[c].at = "cached" /\ call[c].rows # {} /\ Covers(call[c].rows, call[c].asked)
  /\ Saves(c, call[c].rows, call[c].asked # Nothing)
  /\ Goes(c, "answered", call[c].rows)
  /\ UNCHANGED <<db, checkpoint, cooling>>

\* The database's rows become the cache.
LookInDatabase(c) ==
  /\ call[c].at = "cached" /\ ~Covers(call[c].rows, call[c].asked)
  /\ Saves(c, db, FALSE)
  /\ Goes(c, IF db = {} THEN "remote" ELSE "reload", {})
  /\ UNCHANGED <<db, checkpoint, cooling>>

Reload(c) ==
  /\ call[c].at = "reload"
  /\ SyncThen(c, Of(call[c].asked, cache), "stored")
  /\ UNCHANGED <<cache, db, checkpoint, cooling, replaced>>

\* Mutant: one row is enough.
ServeStoredPartly(c) ==
  /\ call[c].at = "stored"
  /\ Saves(c, call[c].rows, call[c].asked # Nothing)
  /\ Goes(c, IF call[c].rows # {} THEN "answered" ELSE "remote", call[c].rows)
  /\ UNCHANGED <<db, checkpoint, cooling>>

\* Without symbols asked for, what the database had is answered at the least.
ServeStored(c) ==
  /\ call[c].at = "stored"
  /\ Saves(c, call[c].rows, call[c].asked # Nothing)
  /\ LET rows == IF call[c].asked = Nothing /\ call[c].rows = {} THEN db ELSE call[c].rows
     IN Goes(c, IF Covers(rows, call[c].asked) THEN "answered" ELSE "remote", rows)
  /\ UNCHANGED <<db, checkpoint, cooling>>

Fetch(c, fetched) ==
  /\ call[c].at = "remote" /\ fetched \subseteq Of(call[c].asked, Symbols)
  /\ SyncThen(c, fetched, "fetched")
  /\ UNCHANGED <<cache, db, checkpoint, cooling, replaced>>

ServeFetched(c) ==
  /\ call[c].at = "fetched"
  /\ Saves(c, call[c].rows, call[c].asked # Nothing)
  /\ Goes(c, "answered remotely", call[c].rows)
  /\ UNCHANGED <<db, checkpoint, cooling>>

Return(c) ==
  /\ call[c].at \in {"answered", "answered remotely"}
  /\ call' = [call EXCEPT ![c] = Idle]
  /\ UNCHANGED <<cache, db, checkpoint, cooling, replaced>>

-----------------------------------------------------------------------------
(* sync_hk_stock_universe.  Its checkpoint has no date: a later load goes on *)
(* with the symbols of the interrupted one.                                  *)

Resume(c) ==
  /\ call[c].at = "load" /\ checkpoint # Nothing
  /\ call' = [call EXCEPT ![c].at = "batch", ![c].load = checkpoint.load, ![c].next = checkpoint.next]
  /\ UNCHANGED <<cache, db, checkpoint, cooling, replaced>>

\* No load is tried again soon, unless by force or for all stocks from remote.
LoadHongKong(c, fetched) ==
  /\ call[c].at = "load" /\ checkpoint = Nothing
  /\ IF (c \in cooling /\ call[c].after # "fetched") \/ fetched = {}
     THEN call' = [call EXCEPT ![c].at = call[c].after] /\ UNCHANGED checkpoint
     ELSE /\ checkpoint' = [load |-> fetched, next |-> 0]
          /\ call' = [call EXCEPT ![c].at = "batch", ![c].load = fetched, ![c].next = 0]
  /\ cooling' = cooling \cup {c}
  /\ UNCHANGED <<cache, db, replaced>>

Batch(c) ==
  {s \in call[c].load : Cardinality({t \in call[c].load : t < s})
                          \in call[c].next..(call[c].next + BatchSize - 1)}

Store(c) ==
  /\ call[c].at = "batch" /\ Batch(c) # {}
  /\ db' = db \cup Batch(c)
  /\ Goes(c, "batch stored", call[c].rows)
  /\ UNCHANGED <<cache, checkpoint, cooling, replaced>>

SaveBatch(c) ==
  /\ call[c].at = "batch stored"
  /\ Saves(c, Batch(c), TRUE)
  /\ Goes(c, "batch saved", call[c].rows)
  /\ UNCHANGED <<db, checkpoint, cooling>>

\* Two loads may write the file in turns.
Checkpoint(c) ==
  /\ call[c].at = "batch saved"
  /\ LET next == call[c].next + Cardinality(Batch(c))
     IN /\ checkpoint' = [load |-> call[c].load, next |-> next]
        /\ call' = [call EXCEPT ![c].at = "batch", ![c].next = next]
  /\ UNCHANGED <<cache, db, cooling, replaced>>

\* What the cache has now is served, or what was there before.
Loaded(c) ==
  /\ call[c].at = "batch" /\ Batch(c) = {}
  /\ checkpoint' = Nothing
  /\ LET rows == Of(call[c].asked, cache)
     IN call' = [call EXCEPT ![c].at = call[c].after, ![c].load = {}, ![c].next = 0,
                             ![c].rows = IF rows = {} THEN @ ELSE rows]
  /\ UNCHANGED <<cache, db, cooling, replaced>>

-----------------------------------------------------------------------------
(* What else happens *)

\* The database or a file fails, or the process is killed.
Fail(c) ==
  /\ call[c].at # "idle"
  /\ call' = [call EXCEPT ![c] = Idle]
  /\ UNCHANGED <<cache, db, checkpoint, cooling, replaced>>

\* HK_UNIVERSE_REFRESH_COOLDOWN_SECONDS pass.
Cool(c) ==
  /\ c \in cooling
  /\ cooling' = cooling \ {c}
  /\ UNCHANGED <<cache, db, checkpoint, call, replaced>>

Next ==
  \E c \in Callers :
    \/ \E asked \in Requests \cup {Nothing}, force \in BOOLEAN : Begin(c, asked, force)
    \/ Look(c) \/ ServeCached(c) \/ LookInDatabase(c) \/ Reload(c) \/ ServeStored(c)
    \/ \E fetched \in SUBSET Symbols :
         \/ Fetch(c, fetched)
         \/ fetched \subseteq HongKong /\ LoadHongKong(c, fetched)
    \/ ServeFetched(c) \/ Return(c)
    \/ Resume(c) \/ Store(c) \/ SaveBatch(c) \/ Checkpoint(c) \/ Loaded(c)
    \/ Fail(c)
    \/ Cool(c)

Spec == Init /\ [][Next]_vars

-----------------------------------------------------------------------------
(* Properties *)

TypeOK ==
  /\ {cache, db} \subseteq SUBSET Symbols /\ {cooling, replaced} \subseteq SUBSET Callers
  /\ checkpoint \in {Nothing} \cup [load : SUBSET HongKong, next : 0..Cardinality(HongKong)]
  /\ \A c \in Callers : call[c].rows \subseteq Symbols /\ call[c].load \subseteq HongKong

\* The checkpoint of a load passes over no stock that is not in the table.
LoadedIsStored ==
  checkpoint # Nothing =>
    {s \in checkpoint.load : Cardinality({t \in checkpoint.load : t < s}) < checkpoint.next} \subseteq db

\* A request that the cache or the database could answer in full when it began
\* is answered in full, and not from remote, though it reads the cache again
\* after it has written the database's rows there - unless another replaced
\* the cache meanwhile.
AnsweredInFull ==
  \A c \in Callers \ replaced :
    /\ call[c].had => call[c].at \notin {"remote", "fetched", "answered remotely"}
    /\ call[c].at = "answered" => Covers(call[c].rows, call[c].asked)
=============================================================================
