------------------------------ MODULE UserRows ------------------------------
(***************************************************************************)
(* The rows that requests write through the API's services: accounts,      *)
(* watched and bought targets, portfolios, alert rules, saved filters, and *)
(* the records of stocks, financials, funds, scores, indices and macro     *)
(* series.  A request reads the rows it is about, decides, and commits a   *)
(* transaction (PostgreSQL, read committed); the key of a row is unique.   *)
(* Reports on a user's rows are cached; a change of targets drops them.    *)
(* The caches' two levels are in ApiCache.                                 *)
(***************************************************************************)
EXTENDS Naturals

CONSTANTS
  Rows,      \* keys of one user's rows: symbols, accounts, dates
  Callers,   \* request threads
  Values,    \* contents of a row: a position, a password
  Nothing    \* no row, no report

VARIABLES
  kind,    \* the table the behaviour is about
  rows,    \* the content of each row, or Nothing
  cached,  \* the rows that the cached report shows, or Nothing
  missed,  \* history: the cached report is stale, and no request will drop it
  call     \* what each thread is at, the rows it read and the content to write

vars == <<kind, rows, cached, missed, call>>

Kinds == {"watched", "bought", "portfolio", "record"}
Targets == {"watched", "bought"}
Idle == [at |-> "idle", keys |-> {}, read |-> Nothing, value |-> Nothing]

Init ==
  /\ kind \in Kinds
  /\ rows = [k \in Rows |-> Nothing]
  /\ cached = Nothing /\ missed = FALSE
  /\ call = [c \in Callers |-> Idle]

\* A watched row has no content beside its key.
Watched == CHOOSE v \in Values : TRUE

\* The rows of keys, as far as they are there.
Read(keys) == [k \in Rows |-> IF k \in keys THEN rows[k] ELSE Nothing]

Goes(c, at, keys, read, value) ==
  call' = [call EXCEPT ![c] = [at |-> at, keys |-> keys, read |-> read, value |-> value]]

-----------------------------------------------------------------------------
(* Requests *)

\* Rows that are there or not.
Upsert(c, keys, value) ==
  /\ call[c] = Idle /\ keys # {}
  /\ Goes(c, "commit", keys, Read(keys), value)
  /\ UNCHANGED <<kind, rows, cached, missed>>

\* A row, without a look at what is there.
Create(c, k, value) ==
  /\ call[c] = Idle
  /\ Goes(c, "commit", {k}, Read({}), value)
  /\ UNCHANGED <<kind, rows, cached, missed>>

\* A row that is there.
Update(c, k, value) == rows[k] # Nothing /\ Upsert(c, {k}, value)
Delete(c, k) == rows[k] # Nothing /\ Upsert(c, {k}, Nothing)

Record(c, k, value) == Create(c, k, value) \/ Update(c, k, value) \/ Delete(c, k)

\* The operations of each service on its rows.
WatchTargets(c, keys, k) == kind = "watched" /\ (Upsert(c, keys, Watched) \/ Delete(c, k))
BoughtTargets(c, keys, k, value) == kind = "bought" /\ (Upsert(c, keys, value) \/ Delete(c, k))
Portfolios(c, keys, k, value) == kind = "portfolio" /\ (Upsert(c, keys, value) \/ Record(c, k, value))
MacroRows(c, k, value) == kind = "record" /\ Record(c, k, value)
MergeMacro(c, keys, value) == kind = "record" /\ Upsert(c, keys, value)
MergeFactors(c, keys, value) == kind = "record" /\ Upsert(c, keys, value)
Stocks(c, k, value) == kind = "record" /\ Record(c, k, value)
Financials(c, k, value) == kind = "record" /\ Record(c, k, value)
Scores(c, k, value) == kind = "record" /\ Record(c, k, value)
IndexRows(c, k, value) == kind = "record" /\ Record(c, k, value)
FundHoldings(c, k, value) == kind = "record" /\ Record(c, k, value)

\* Rows whose key is an id of their own.
AlertRules(c, k, value) == kind = "record" /\ Record(c, k, value)
SavedFilters(c, k, value) == kind = "record" /\ Record(c, k, value)

\* register_user looks first; the admin's row is made or mended.
Register(c, k, value) == kind = "record" /\ rows[k] = Nothing /\ Create(c, k, value)
EnsureAdmin(c, k, value) == kind = "record" /\ Upsert(c, {k}, value)

\* What the flush emits: attributes that keep their value are not written.
Inserted(c) == {k \in call[c].keys : call[c].value # Nothing /\ call[c].read[k] = Nothing}
Updated(c) == {k \in call[c].keys : call[c].read[k] \notin {Nothing, call[c].value}}

\* A row that another request inserted violates the key; one that another
\* deleted cannot be updated.
Possible(c) ==
  /\ \A k \in Inserted(c) : rows[k] = Nothing
  /\ call[c].value # Nothing => \A k \in Updated(c) : rows[k] # Nothing

Written(c) == [k \in Rows |-> IF k \in Inserted(c) \cup Updated(c) THEN call[c].value ELSE rows[k]]

\* Mutant: a deletion of targets leaves their reports.
CommitQuietly(c) ==
  /\ call[c].at = "commit" /\ Possible(c)
  /\ rows' = Written(c)
  /\ call' = [call EXCEPT ![c] = IF kind \in Targets /\ call[c].value # Nothing
                                   THEN [Idle EXCEPT !.at = "drop"] ELSE Idle]
  /\ UNCHANGED <<kind, cached, missed>>

\* db.commit(): all of the request's rows.
Commit(c) ==
  /\ call[c].at = "commit" /\ Possible(c)
  /\ rows' = Written(c)
  /\ call' = [call EXCEPT ![c] = IF kind \in Targets THEN [Idle EXCEPT !.at = "drop"] ELSE Idle]
  /\ UNCHANGED <<kind, cached, missed>>

\* The commit raises and the session rolls back: none of them.
Fail(c) ==
  /\ call[c].at = "commit"
  /\ call' = [call EXCEPT ![c] = Idle]
  /\ UNCHANGED <<kind, rows, cached, missed>>

\* invalidate_target_report_cache.
DropReports(c) ==
  /\ call[c].at = "drop"
  /\ cached' = Nothing /\ missed' = FALSE
  /\ call' = [call EXCEPT ![c] = Idle]
  /\ UNCHANGED <<kind, rows>>

\* A report that is not cached reads the rows and is made of them.
Report(c) ==
  /\ call[c] = Idle /\ cached = Nothing
  /\ Goes(c, "store", {}, rows, Nothing)
  /\ UNCHANGED <<kind, rows, cached, missed>>

Diagnostics(c) == kind \in Targets /\ Report(c)
StressTest(c) == kind \in Targets /\ Report(c)
PortfolioList(c) == kind = "portfolio" /\ Report(c)
PortfolioAnalysis(c) == kind = "portfolio" /\ Report(c)

StoreReport(c) ==
  /\ call[c].at = "store"
  /\ cached' = call[c].read /\ missed' = (call[c].read # rows)
  /\ call' = [call EXCEPT ![c] = Idle]
  /\ UNCHANGED <<kind, rows>>

\* The ttl of the report is over, or an administrator clears the cache.
Expire ==
  /\ cached # Nothing /\ cached' = Nothing /\ missed' = FALSE
  /\ UNCHANGED <<kind, rows, call>>

\* The API restarts; Redis keeps the report.
Restart ==
  /\ call' = [c \in Callers |-> Idle]
  /\ missed' = (missed \/ cached \notin {Nothing, rows})
  /\ UNCHANGED <<kind, rows, cached>>

Next ==
  \/ \E c \in Callers :
       \/ \E keys \in SUBSET Rows, k \in Rows, v \in Values :
            \/ WatchTargets(c, keys, k)
            \/ BoughtTargets(c, keys, k, v)
            \/ Portfolios(c, keys, k, v)
            \/ MergeMacro(c, keys, v)
            \/ MergeFactors(c, keys, v)
       \/ \E k \in Rows, v \in Values :
            \/ MacroRows(c, k, v) \/ Stocks(c, k, v) \/ Financials(c, k, v) \/ Scores(c, k, v)
            \/ IndexRows(c, k, v) \/ FundHoldings(c, k, v)
            \/ AlertRules(c, k, v) \/ SavedFilters(c, k, v)
            \/ Register(c, k, v) \/ EnsureAdmin(c, k, v)
       \/ Commit(c)
       \/ Fail(c)
       \/ DropReports(c)
       \/ Diagnostics(c) \/ StressTest(c)
       \/ PortfolioList(c) \/ PortfolioAnalysis(c)
       \/ StoreReport(c)
  \/ Expire
  \/ Restart

Spec == Init /\ [][Next]_vars

-----------------------------------------------------------------------------
(* Properties *)

Tables == [Rows -> Values \cup {Nothing}]

TypeOK ==
  /\ kind \in Kinds /\ rows \in Tables /\ cached \in Tables \cup {Nothing} /\ missed \in BOOLEAN
  /\ \A c \in Callers : call[c].at \in {"idle", "commit", "drop", "store"} /\ call[c].keys \subseteq Rows

\* A cached report on a user's targets shows the targets as they are, or a
\* request is about to drop it, unless the report was stored late or the API
\* restarted before the drop: whatever requests overlap, no accepted change of
\* targets is left out of the reports for longer than that.
ReportsFollowTargets ==
  kind \in Targets /\ cached # Nothing /\ ~missed =>
    cached = rows \/ \E c \in Callers : call[c].at = "drop"
=============================================================================
