----------------------------- MODULE EtlTables -------------------------------
(***************************************************************************)
(* PgLoader (etl/loaders/pg_loader.py): the tables that the ETL's jobs and *)
(* the API's background work fill.  A batch is one transaction of chunks   *)
(* of 500 rows, which holds the rows it has written until it commits; a    *)
(* step writes one row.  A behaviour is of one table.  PostgreSQL, read    *)
(* committed.                                                              *)
(***************************************************************************)
EXTENDS Naturals

CONSTANTS
  Writers,     \* threads of different processes
  Keys,        \* keys, by date
  Undated,     \* those with a null
  Tables,
  MaxBatches,  \* bound: batches that are committed
  Nothing      \* a row without its key

OfStocks == {"stocks", "indices", "daily_prices", "financials", "fundamental_score"}
OfMarkets == {"buyback", "index_constituents"}
OfSectors == {"sector_exposure_daily", "sector_exposure_summary", "stock_valuation_snapshots"}
OfDetails == {"stock_live_snapshots", "stock_research_items", "stock_intraday_kline"}
OfFutures == {"futures_prices", "futures_weekly_prices"}

\* An upsert finds the row of its key; events and insider_trade have none.
Replaces(table, k) ==
  /\ table \in OfStocks \cup OfMarkets \cup OfSectors \cup OfDetails \cup OfFutures
               \cup {"macro", "fund_holdings"}
  /\ ~(table = "stock_research_items" /\ k \in Undated)

\* Tables that an upsert makes sure of first.
Ensured == OfSectors \cup OfDetails \cup OfFutures

\* Tables that are cleaned up.
Retained == {"macro", "events", "buyback", "insider_trade", "index_constituents"}

VARIABLES
  kind,    \* the table
  rows,    \* the batches whose rows are there for each key, committed or not
  made,    \* the table exists
  ready,   \* threads whose process knows that it does
  call,    \* what each writer is at: the rows that are left to write, those it
           \* inserts and those it found to delete; the keys it has written,
           \* and what was there
  batches, \* how many batches were committed
  whole    \* history: what these leave of each key, each applied as a whole,
           \* one after the other

vars == <<kind, rows, made, ready, call, batches, whole>>

NoRows == [k \in Keys |-> {}]
Idle == [at |-> "idle", left |-> {}, new |-> NoRows, gone |-> NoRows, held |-> {}, was |-> NoRows]

Init ==
  /\ kind \in Tables /\ rows = NoRows
  /\ made \in (IF kind \in Ensured THEN BOOLEAN ELSE {TRUE})
  /\ ready = {} /\ call = [w \in Writers |-> Idle] /\ batches = 0 /\ whole = NoRows

-----------------------------------------------------------------------------
(* Transactions *)

Locked(w, k) == \E v \in Writers \ {w} : k \in call[v].held

\* A row after the batch's statement: its own in place of, or beside, what is
\* there; without what a deletion found.
Stored(c, k, there) ==
  IF Replaces(kind, k) THEN c.new[k] ELSE (there \ c.gone[k]) \cup c.new[k]

\* A row as others see it, and as a rollback leaves it.
Undone(c, k, there) ==
  IF k \notin c.held THEN there
  ELSE IF Replaces(kind, k) THEN c.was[k]
  ELSE (there \ c.new[k]) \cup c.gone[k]

\* What is committed of a key.
Committed(k) ==
  LET holders == {w \in Writers : k \in call[w].held} IN
    IF Replaces(kind, k)
    THEN IF holders = {} THEN rows[k] ELSE call[CHOOSE w \in holders : TRUE].was[k]
    ELSE (rows[k] \ UNION {call[w].new[k] : w \in holders}) \cup (UNION {call[w].gone[k] : w \in holders})

Ends(w) == call' = [call EXCEPT ![w] = Idle]

\* execute_many: rows without their key are dropped, and no rows end it.
ExecuteMany(w, given) ==
  LET payload == given \ {Nothing} IN
    /\ payload # {} /\ batches < MaxBatches
    /\ call' = [call EXCEPT ![w] =
         [Idle EXCEPT !.at = IF kind \in Ensured /\ w \notin ready THEN "look" ELSE "write",
                      !.left = payload,
                      !.new = [k \in Keys |-> IF k \in payload THEN {<<w, batches>>} ELSE {}]]]
    /\ UNCHANGED <<kind, rows, made, ready, batches, whole>>

Upsert(w, given) == call[w].at = "idle" /\ ExecuteMany(w, given)

\* Mutant: another that is making the table is relied on.
LookForTableLazily(w) ==
  /\ call[w].at = "look"
  /\ call' = [call EXCEPT ![w].at = IF made \/ \E v \in Writers : call[v].at = "create"
                                   THEN "ensured" ELSE "create"]
  /\ UNCHANGED <<kind, rows, made, ready, batches, whole>>

\* CREATE TABLE IF NOT EXISTS looks, ...
LookForTable(w) ==
  /\ call[w].at = "look"
  /\ call' = [call EXCEPT ![w].at = IF made THEN "ensured" ELSE "create"]
  /\ UNCHANGED <<kind, rows, made, ready, batches, whole>>

\* ... and raises if another has made the table since.
CreateTable(w) ==
  /\ call[w].at = "create"
  /\ made' = TRUE
  /\ IF made THEN Ends(w) ELSE call' = [call EXCEPT ![w].at = "ensured"]
  /\ UNCHANGED <<kind, rows, ready, batches, whole>>

Ensure(w) ==
  /\ call[w].at = "ensured"
  /\ ready' = ready \cup {w}
  /\ call' = [call EXCEPT ![w].at = "write"]
  /\ UNCHANGED <<kind, rows, made, batches, whole>>

\* The next row, which waits for who holds it.
WriteRow(w, k) ==
  /\ call[w].at = "write" /\ k \in call[w].left
  /\ Replaces(kind, k) => ~Locked(w, k)
  /\ rows' = [rows EXCEPT ![k] = Stored(call[w], k, @)]
  /\ call' = [call EXCEPT ![w].left = @ \ {k}, ![w].held = @ \cup {k}, ![w].was[k] = rows[k]]
  /\ UNCHANGED <<kind, made, ready, batches, whole>>

Applied(w) ==
  /\ batches' = batches + 1
  /\ whole' = [k \in Keys |-> IF k \in call[w].held THEN Stored(call[w], k, whole[k]) ELSE whole[k]]

\* Mutant: each chunk is a transaction.
CommitChunks(w) ==
  /\ call[w].at = "write" /\ call[w].held # {}
  /\ IF call[w].left = {} THEN Applied(w) /\ Ends(w)
     ELSE call' = [call EXCEPT ![w].held = {}] /\ UNCHANGED <<batches, whole>>
  /\ UNCHANGED <<kind, rows, made, ready>>

Commit(w) ==
  /\ call[w].at = "write" /\ call[w].left = {}
  /\ Applied(w)
  /\ Ends(w)
  /\ UNCHANGED <<kind, rows, made, ready>>

\* delete_..._before: one statement, over the rows it saw at its begin.  One
\* run of the ETL cleans up at a time.
Delete(w, cutoff) ==
  LET old == {k \in Keys : k < cutoff /\ Committed(k) # {}} IN
    /\ call[w].at = "idle" /\ kind \in Retained /\ old # {} /\ batches < MaxBatches
    /\ \A v \in Writers : call[v].gone = NoRows
    /\ call' = [call EXCEPT ![w] = [Idle EXCEPT !.at = "write", !.left = old,
                  !.gone = [k \in Keys |-> IF k \in old THEN Committed(k) ELSE {}]]]
    /\ UNCHANGED <<kind, rows, made, ready, batches, whole>>

\* A statement fails, also one of two transactions that wait for each other, or
\* the process is killed: the batch is rolled back.
Fail(w) ==
  /\ call[w].at # "idle"
  /\ rows' = [k \in Keys |-> Undone(call[w], k, rows[k])]
  /\ Ends(w)
  /\ ready' \in {ready, ready \ {w}}
  /\ UNCHANGED <<kind, made, batches, whole>>

Next ==
  \E w \in Writers :
    \/ \E given \in SUBSET (Keys \cup {Nothing}) : Upsert(w, given)
    \/ LookForTable(w) \/ CreateTable(w) \/ Ensure(w)
    \/ \E k \in Keys : WriteRow(w, k)
    \/ Commit(w)
    \/ \E cutoff \in Keys : Delete(w, cutoff)
    \/ Fail(w)

Spec == Init /\ [][Next]_vars

-----------------------------------------------------------------------------
(* Properties *)

Batches == Writers \X (0..MaxBatches)

TypeOK ==
  /\ kind \in Tables /\ rows \in [Keys -> SUBSET Batches] /\ made \in BOOLEAN
  /\ ready \subseteq Writers
  /\ \A w \in Writers : call[w].left \subseteq Keys /\ call[w].held \subseteq Keys
  /\ \A w \in Writers : call[w].at = "write" => made

\* A reader finds what whole batches leave that are applied one after the
\* other: each is there with all its rows or none, also when one fails after
\* many of its rows were written; and of two that write the same rows in
\* different orders, the later replaces the other's altogether.
BatchesWhole == \A k \in Keys : Committed(k) = whole[k]
=============================================================================
