----------------------------- MODULE StockPools -----------------------------
(***************************************************************************)
(* A user's stock pool (services/user_workspace_service.py).  Its symbols  *)
(* are rows of a table that the first request makes, and fills with the    *)
(* symbols that pools kept as JSON before; a pool without rows shows its   *)
(* JSON.  _table_checked only spares the look for the table, which is      *)
(* never dropped.                                                          *)
(***************************************************************************)
EXTENDS Naturals

CONSTANTS
  Callers,  \* request threads
  Symbols,
  Nothing   \* no pool

VARIABLES
  table,   \* whether user_stock_pool_items is there
  json,    \* the pool's symbols_json, or Nothing without a pool
  items,   \* the symbols of the pool's rows
  wish,    \* history: what the user last stored
  mixed,   \* history: a commit met other rows than its request had read
  call     \* what each thread is at, what it read, and the symbols to store

vars == <<table, json, items, wish, mixed, call>>

Idle == [at |-> "idle", json |-> Nothing, items |-> {}, symbols |-> {}]

Init ==
  /\ table \in BOOLEAN
  /\ json \in (SUBSET Symbols) \cup {Nothing}
  /\ items \in IF table /\ json # Nothing THEN SUBSET Symbols ELSE {{}}
  /\ items # {} => json = {}
  /\ wish = IF items # {} THEN items ELSE json
  /\ mixed = FALSE
  /\ call = [c \in Callers |-> Idle]

\* Mutant: pools show their rows alone.
RowsOnly(text, rows) == IF text = Nothing THEN Nothing ELSE rows

\* UserStockPool.symbols.
Shown(text, rows) == IF rows # {} THEN rows ELSE text

Met(c) == mixed' = (mixed \/ json # call[c].json \/ items # call[c].items)
Reads(c, at, symbols) ==
  call' = [call EXCEPT ![c] = [at |-> at, json |-> json, items |-> items, symbols |-> symbols]]
Done(c) == call' = [call EXCEPT ![c] = Idle]

-----------------------------------------------------------------------------
(* _ensure_stock_pool_item_table *)

\* The table is missing.
FindMissing(c) ==
  /\ call[c].at = "idle" /\ ~table
  /\ call' = [call EXCEPT ![c].at = "create"]
  /\ UNCHANGED <<table, json, items, wish, mixed>>

\* It is made in a transaction of its own, or another thread just made it.
CreateTable(c) ==
  /\ call[c].at = "create"
  /\ table' = TRUE
  /\ call' = [call EXCEPT ![c].at = "read"]
  /\ UNCHANGED <<json, items, wish, mixed>>

ReadPools(c) ==
  /\ call[c].at = "read"
  /\ Reads(c, "migrate", IF json = Nothing THEN {} ELSE json)
  /\ UNCHANGED <<table, json, items, wish, mixed>>

\* Rows for the symbols of the JSON: all that were read, if none is there and
\* the pool still is.
Migrate(c) ==
  /\ call[c].at = "migrate" /\ call[c].symbols \cap items = {}
  /\ call[c].symbols = {} \/ json # Nothing
  /\ items' = items \cup call[c].symbols
  /\ Met(c) /\ Done(c)
  /\ UNCHANGED <<table, json, wish>>

-----------------------------------------------------------------------------
(* Requests *)

\* create_stock_pool.  A pool that is made later has an id of its own, which no
\* request for the former one touches.
CreatePool(c, symbols) ==
  /\ call[c].at = "idle" /\ table /\ json = Nothing
  /\ \A d \in Callers : call[d].json = Nothing
  /\ json' = {} /\ items' = symbols /\ wish' = symbols
  /\ UNCHANGED <<table, mixed, call>>

\* update_stock_pool and delete_stock_pool load the pool with its rows.
Load(c, at, symbols) ==
  /\ call[c].at = "idle" /\ table /\ json # Nothing
  /\ Reads(c, at, symbols)
  /\ UNCHANGED <<table, json, items, wish, mixed>>

\* Mutant: the JSON stays.
UpdateKeepsJson(c) ==
  /\ call[c].at = "update" /\ json # Nothing
  /\ (call[c].symbols \ call[c].items) \cap items = {}
  /\ call[c].symbols \cap call[c].items \subseteq items
  /\ items' = (items \ call[c].items) \cup call[c].symbols
  /\ wish' = call[c].symbols
  /\ Met(c) /\ Done(c)
  /\ UNCHANGED <<table, json>>

\* Rows that were read and are not wanted go, wanted ones that were not read
\* are inserted; the JSON is emptied.
Update(c) ==
  /\ call[c].at = "update" /\ json # Nothing
  /\ (call[c].symbols \ call[c].items) \cap items = {}
  /\ call[c].symbols \cap call[c].items \subseteq items
  /\ json' = {} /\ items' = (items \ call[c].items) \cup call[c].symbols
  /\ wish' = call[c].symbols
  /\ Met(c) /\ Done(c)
  /\ UNCHANGED table

\* The pool goes, and its rows with it.
Delete(c) ==
  /\ call[c].at = "delete"
  /\ json' = Nothing /\ items' = {} /\ wish' = Nothing
  /\ Met(c) /\ Done(c)
  /\ UNCHANGED table

\* A commit raises: a row's key or its pool is not as it must be, or the
\* database fails.
Fail(c) ==
  /\ call[c].at # "idle"
  /\ Done(c)
  /\ UNCHANGED <<table, json, items, wish, mixed>>

\* The API restarts between any two of these steps.
Restart ==
  /\ call' = [c \in Callers |-> Idle]
  /\ UNCHANGED <<table, json, items, wish, mixed>>

Next ==
  \/ \E c \in Callers :
       \/ FindMissing(c)
       \/ CreateTable(c)
       \/ ReadPools(c)
       \/ Migrate(c)
       \/ \E symbols \in SUBSET Symbols : CreatePool(c, symbols) \/ Load(c, "update", symbols)
       \/ Load(c, "delete", {})
       \/ Update(c)
       \/ Delete(c)
       \/ Fail(c)
  \/ Restart

Spec == Init /\ [][Next]_vars

-----------------------------------------------------------------------------
(* Properties *)

Pools == SUBSET Symbols

TypeOK ==
  /\ {table, mixed} \subseteq BOOLEAN
  /\ {json, wish} \subseteq Pools \cup {Nothing} /\ items \in Pools
  /\ \A c \in Callers : call[c].at \in {"idle", "create", "read", "migrate", "update", "delete"}

\* A pool shows what its user last stored in it, before, while and after the
\* JSON is moved to rows, wherever the move is cut off, unless two requests
\* for the pool overlapped: then the migration may bring symbols back, and two
\* updates may add up.
PoolShowsWish == ~mixed => Shown(json, items) = wish
=============================================================================
