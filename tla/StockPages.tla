----------------------------- MODULE StockPages -----------------------------
(***************************************************************************)
(* Pages of the stock list (services/live_market/core.py).  A page comes   *)
(* from the database, or from the stock basics file when the database has  *)
(* nothing; its missing names and sectors are filled from the basics and   *)
(* from cached profiles, and it is cached.  A name or a sector is known or *)
(* a placeholder.  A behaviour is about one query.                         *)
(***************************************************************************)
EXTENDS Naturals, Sequences, FiniteSets

CONSTANTS
  Callers,    \* requests for the page
  Symbols,    \* stocks and others, numbered in their order
  Foreign,    \* the symbols of HK and US
  Indices,    \* symbols that _looks_like_equity_symbol refuses
  Limit,      \* rows of a page
  Databases,  \* bound: what the database may have
  MaxSourced, \* bound: rows that the basics and the profiles have at a time
  MaxBeside,  \* bound: requests in flight while those change
  Nothing     \* no row, no page

VARIABLES
  query,     \* the market is a foreign one, and a keyword asks for a known name
  db,        \* the row of each symbol in the database, or Nothing
  basics,    \* its row in the basics file, or Nothing
  profile,   \* its profile in the cache, or Nothing
  page,      \* the cached page, or Nothing
  call       \* for each request Nothing, or where it is, the page that it read,
             \* and the rows and the total that it will answer

vars == <<query, db, basics, profile, page, call>>

Row(s, name, sector) == [symbol |-> s, name |-> name, sector |-> sector]

\* What a source may have: a sector comes with a name, an index with both.
Known(s) == IF s \in Indices THEN {Row(s, TRUE, TRUE)}
            ELSE {Row(s, FALSE, FALSE), Row(s, TRUE, FALSE), Row(s, TRUE, TRUE)}
Tables == {t \in [Symbols -> (UNION {Known(s) : s \in Symbols}) \cup {Nothing}] :
             \A s \in Symbols : t[s] \in Known(s) \cup {Nothing}}

-----------------------------------------------------------------------------
(* Rows *)

\* A set of numbers as a sequence in their order, and the rows there.
InOrder(S) == [i \in 1..Cardinality(S) |-> CHOOSE s \in S : Cardinality({t \in S : t <= s}) = i]
At(rows, S) == [i \in 1..Cardinality(S) |-> rows[InOrder(S)[i]]]

\* _dedupe_stock_rows.
Dedupe(rows) ==
  At(rows, {i \in DOMAIN rows : /\ rows[i].symbol \notin Indices
                               /\ \A j \in 1..(i - 1) : rows[j].symbol # rows[i].symbol})

Matches(row) == /\ query.foreign => row.symbol \in Foreign
                /\ query.keyword => row.name
Matching(rows) == At(rows, {i \in DOMAIN rows : Matches(rows[i])})

\* _filter_stock_rows.
Filter(rows) == Matching(Dedupe(rows))

\* A table's rows in the order of the symbols.
Ordered(table) == At(table, {s \in Symbols : table[s] # Nothing})

Page(rows) == SubSeq(rows, 1, IF Len(rows) < Limit THEN Len(rows) ELSE Limit)

\* Mutant: names are not merged.
MergeSectors(primary, fallback) ==
  [i \in DOMAIN Dedupe(primary) |->
     LET row == Dedupe(primary)[i]
     IN Row(row.symbol, row.name,
            row.sector \/ \E j \in DOMAIN fallback : fallback[j].symbol = row.symbol /\ fallback[j].sector)]

\* Mutant: a row merged in replaces what the page says.
MergeOver(primary, fallback) ==
  [i \in DOMAIN Dedupe(primary) |->
     LET row == Dedupe(primary)[i]
         found == {j \in DOMAIN fallback : fallback[j].symbol = row.symbol}
     IN IF found = {} THEN row ELSE fallback[CHOOSE j \in found : TRUE]]

\* _merge_stock_rows of rows with rows for the same symbols.
Merge(primary, fallback) ==
  LET rows == Dedupe(primary)
      Of(s) == {fallback[j] : j \in {j \in DOMAIN fallback : fallback[j].symbol = s}}
      Filled(row) == Row(row.symbol, row.name \/ \E f \in Of(row.symbol) : f.name,
                         row.sector \/ \E f \in Of(row.symbol) : f.sector)
  IN [i \in DOMAIN rows |-> Filled(rows[i])]

\* The rows of a table for the symbols of other rows.
For(rows, table) ==
  LET unique == Dedupe(rows)
      found == [i \in DOMAIN unique |-> table[unique[i].symbol]]
  IN At(found, {i \in DOMAIN found : found[i] # Nothing})

\* _needs_local_name_hydration.
NeedsNames(rows) == \E i \in DOMAIN rows : rows[i].symbol \notin Foreign /\ ~rows[i].name

-----------------------------------------------------------------------------
(* list_live_stocks, by requests that hold no lock *)

\* _list_stock_rows_from_db, and _fallback_stock_rows.
Listed(available) ==
  LET found == IF available THEN Matching(Ordered(db)) ELSE <<>>
  IN IF found = <<>> THEN Filter(Ordered(basics)) ELSE found

\* A request goes on from one step to the next with these rows and this total.
Proceeds(c, from, to, items, total) ==
  /\ call[c] # Nothing /\ call[c].at = from
  /\ call' = [call EXCEPT ![c] = [at |-> to, read |-> @.read, items |-> items, total |-> total]]
  /\ UNCHANGED <<query, db, basics, profile, page>>

\* get_json: a hit goes on with the page's rows, a miss with a list.
Look(c) ==
  /\ call[c] = Nothing
  /\ call' = [call EXCEPT ![c] =
       IF page = Nothing THEN [at |-> "list", read |-> Nothing, items |-> <<>>, total |-> 0]
       ELSE [at |-> "names", read |-> page, items |-> page.items, total |-> page.total]]
  /\ UNCHANGED <<query, db, basics, profile, page>>

List(c) ==
  \E available \in BOOLEAN :
    LET rows == Listed(available) IN Proceeds(c, "list", "names", Page(rows), Len(rows))

\* _hydrate_stock_rows_from_local_basics, if a name is missing.
FillNames(c) ==
  LET rows == call[c].items
  IN Proceeds(c, "names", "profiles", IF NeedsNames(rows) THEN Merge(rows, For(rows, basics)) ELSE rows,
              call[c].total)

\* _hydrate_stock_rows_from_profile_cache.
FillProfiles(c) ==
  Proceeds(c, "profiles", "store", Merge(call[c].items, For(call[c].items, profile)), call[c].total)

\* set_json: on a miss, and on a hit whose rows were filled.  The page may be
\* another one by now.
Store(c) ==
  /\ call[c] # Nothing /\ call[c].at = "store"
  /\ page' = IF call[c].read # Nothing /\ call[c].read.items = call[c].items THEN page
             ELSE [items |-> call[c].items, total |-> call[c].total]
  /\ call' = [call EXCEPT ![c] = Nothing]
  /\ UNCHANGED <<query, db, basics, profile>>

Sourced(table) == Cardinality({s \in Symbols : table[s] # Nothing})

\* The background refreshes, the ETL and expiry change the sources.  A profile
\* without a name fills nothing, as no profile does.
SourceChanges ==
  /\ \E s \in Symbols, row \in (UNION {Known(t) : t \in Symbols}) \cup {Nothing} :
       /\ row # Nothing => row.symbol = s
       /\ \/ basics' = [basics EXCEPT ![s] = row] /\ UNCHANGED profile
          \/ s \notin Indices /\ (row # Nothing => row.name)
             /\ profile' = [profile EXCEPT ![s] = row] /\ UNCHANGED basics
  /\ Cardinality({c \in Callers : call[c] # Nothing}) <= MaxBeside
  /\ Sourced(basics') + Sourced(profile') <= MaxSourced
  /\ UNCHANGED <<query, db, page, call>>

Expire ==
  /\ page # Nothing /\ page' = Nothing
  /\ UNCHANGED <<query, db, basics, profile, call>>

Init ==
  /\ query \in [foreign : BOOLEAN, keyword : BOOLEAN]
  /\ db \in Tables \cap Databases /\ \A s \in Indices : db[s] = Nothing
  /\ basics = [s \in Symbols |-> Nothing] /\ profile = basics
  /\ page = Nothing
  /\ call = [c \in Callers |-> Nothing]

Next ==
  \/ \E c \in Callers : Look(c) \/ List(c) \/ FillNames(c) \/ FillProfiles(c) \/ Store(c)
  \/ SourceChanges
  \/ Expire

Spec == Init /\ [][Next]_vars

-----------------------------------------------------------------------------
(* Properties *)

ShowsKnown(items) == \A i \in DOMAIN items : items[i] \in Known(items[i].symbol)

TypeOK ==
  /\ query \in [foreign : BOOLEAN, keyword : BOOLEAN]
  /\ {db, basics, profile} \subseteq Tables
  /\ page # Nothing => ShowsKnown(page.items)
  /\ \A c \in Callers : call[c] # Nothing =>
       /\ call[c].at \in {"list", "names", "profiles", "store"}
       /\ ShowsKnown(call[c].items)
       /\ call[c].read # Nothing => ShowsKnown(call[c].read.items)

\* The same page, with no known name or sector replaced by a placeholder.
Fills(new, old) ==
  /\ new.total = old.total /\ Len(new.items) = Len(old.items)
  /\ \A i \in DOMAIN old.items :
       /\ new.items[i].symbol = old.items[i].symbol
       /\ old.items[i].name => new.items[i].name
       /\ old.items[i].sector => new.items[i].sector

\* However the basics and the profiles change between its steps, a request
\* answers with nothing less than the page that it read: the same symbols in the
\* same order, and every name and sector known there.  A page is only replaced
\* by one that fills it, unless the request that stores did not read that page
\* but looked before it was there: then known names may be lost.
PagesImproveStep ==
  \A c \in Callers : call[c] # Nothing /\ call'[c] = Nothing =>
    /\ call[c].read # Nothing => Fills([items |-> call[c].items, total |-> call[c].total], call[c].read)
    /\ page # Nothing /\ page' # page => call[c].read # page \/ Fills(page', page)
PagesImprove == [][PagesImproveStep]_vars
=============================================================================
