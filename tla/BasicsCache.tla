----------------------------- MODULE BasicsCache -----------------------------
(***************************************************************************)
(* The file of stock basics (etl/utils/stock_basics_cache.py), which the   *)
(* API and the ETL, processes of their own, save and merge into.  A save   *)
(* writes a temporary file, which it then renames; the temporary file has  *)
(* the same name for all.  A row is worth 0 without a name, and 1.         *)
(***************************************************************************)
EXTENDS Naturals, FiniteSets, FiniteSetsExt

CONSTANTS
  Savers,   \* processes and threads that save
  Symbols,
  Torn,     \* a file that does not parse
  Nothing   \* no file, no row

NoRows == [s \in Symbols |-> Nothing]

VARIABLES
  cache,  \* the cache file: its rows, Torn or Nothing
  temp,   \* the temporary file
  save,   \* what each saver is at, the rows it writes, and the file it has
          \* open; as history, the rows it is meant to leave
  wish,   \* history: the rows that the last save was meant to leave
  mixed   \* history: two saves overlapped

vars == <<cache, temp, save, wish, mixed>>

Idle == [at |-> "idle", rows |-> NoRows, open |-> Nothing, meant |-> NoRows]

Init ==
  /\ cache \in {Nothing, Torn} /\ temp = Nothing
  /\ save = [p \in Savers |-> Idle]
  /\ wish = NoRows /\ mixed = FALSE

-----------------------------------------------------------------------------
(* Operators *)

\* _normalize_rows: of the rows of a symbol, one of the best.
Normalized(rows) ==
  [s \in Symbols |-> LET worths == {r.worth : r \in {q \in rows : q.symbol = s}}
                     IN IF worths = {} THEN Nothing ELSE Max(worths)]

\* load_stock_basics_cache: no rows without a file that parses.
Loaded(file) == IF file \in {Nothing, Torn} THEN NoRows ELSE file

Over(new, old) == [s \in Symbols |-> IF new[s] = Nothing THEN old[s] ELSE new[s]]

-----------------------------------------------------------------------------
(* save_stock_basics_cache *)

Overlaps(p) == mixed' = (mixed \/ \E q \in Savers \ {p} : save[q].at # "idle")

\* The rows to write: those that are given, over those in the file in a merge.
Begin(p, rows, merge) ==
  LET given == Normalized(rows)
      made(old) == IF merge THEN Over(given, old) ELSE given
  IN /\ save[p].at = "idle" /\ given # NoRows
     /\ Overlaps(p)
     /\ save' = [save EXCEPT ![p] = [at |-> "open", rows |-> made(Loaded(cache)), open |-> Nothing,
                                     meant |-> IF mixed' THEN NoRows ELSE made(wish)]]
     /\ UNCHANGED <<cache, temp, wish>>

\* Mutant: the file is written in place.
OpenInPlace(p) ==
  /\ save[p].at = "open"
  /\ cache' = Torn /\ temp' = Torn
  /\ save' = [save EXCEPT ![p].at = "write", ![p].open = "temp"]
  /\ UNCHANGED <<wish, mixed>>

\* The temporary file is made, or emptied.
Open(p) ==
  /\ save[p].at = "open"
  /\ temp' = Torn
  /\ save' = [save EXCEPT ![p].at = "write", ![p].open = "temp"]
  /\ UNCHANGED <<cache, wish, mixed>>

\* Another saver may have renamed the file that is open, or replaced it since.
\* Over what another wrote, the text may be torn.
Write(p) ==
  /\ save[p].at = "write"
  /\ LET text(file) == {save[p].rows} \cup (IF file = Torn THEN {} ELSE {Torn})
     IN CASE save[p].open = "temp" -> temp' \in text(temp) /\ UNCHANGED cache
          [] save[p].open = "cache" -> cache' \in text(cache) /\ UNCHANGED temp
          [] OTHER -> UNCHANGED <<cache, temp>>
  /\ save' = [save EXCEPT ![p].at = "rename"]
  /\ UNCHANGED <<wish, mixed>>

\* Without a temporary file the renaming raises.
Rename(p) ==
  /\ save[p].at = "rename" /\ temp # Nothing
  /\ cache' = temp /\ temp' = Nothing /\ wish' = IF mixed THEN NoRows ELSE save[p].meant
  /\ save' = [q \in Savers |->
       IF q = p THEN Idle
       ELSE [save[q] EXCEPT !.open = CASE @ = "temp" -> "cache" [] @ = "cache" -> "gone" [] OTHER -> @]]
  /\ UNCHANGED mixed

\* The process is killed, or a step raises.
Cut(p) ==
  /\ save[p].at # "idle"
  /\ save' = [save EXCEPT ![p] = Idle]
  /\ UNCHANGED <<cache, temp, wish, mixed>>

Next ==
  \E p \in Savers :
    \/ \E rows \in SUBSET [symbol : Symbols, worth : {0, 1}], merge \in BOOLEAN : Begin(p, rows, merge)
    \/ Open(p) \/ Write(p) \/ Rename(p) \/ Cut(p)

Spec == Init /\ [][Next]_vars

-----------------------------------------------------------------------------
(* Properties *)

Rows == [Symbols -> {Nothing, 0, 1}]

TypeOK ==
  /\ {cache, temp} \subseteq Rows \cup {Nothing, Torn} /\ wish \in Rows /\ mixed \in BOOLEAN
  /\ \A p \in Savers :
       /\ save[p].at \in {"idle", "open", "write", "rename"} /\ {save[p].rows, save[p].meant} \subseteq Rows
       /\ save[p].open \in {Nothing, "temp", "cache", "gone"}

\* Unless two saves overlapped, readers find the rows that the last save was
\* meant to leave, while the next is under way and after it was cut off at any
\* step: never a partly written file, nor a merge that dropped what was there.
FileKeepsRows == ~mixed => Loaded(cache) = wish
=============================================================================
