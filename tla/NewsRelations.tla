---------------------------- MODULE NewsRelations ----------------------------
(***************************************************************************)
(* The symbols that a news item is related to: a text in its row, which    *)
(* items show when they have no rows of relations, and rows of a table of  *)
(* relations, by which items are found.  The ETL inserts and relabels      *)
(* items (etl/loaders/pg_loader.py), the API creates, updates and deletes  *)
(* them (services/news_service.py), and old items go.  Sectors are kept    *)
(* the same way.  PostgreSQL, read committed.                              *)
(***************************************************************************)
EXTENDS Naturals

CONSTANTS
  Writers,  \* processes and threads
  Items,
  Symbols,
  Nothing   \* no item

VARIABLES
  text,   \* the symbols in each item's row, or Nothing
  rows,   \* the symbols in its rows of relations
  used,   \* ids that were given away
  call,   \* what each writer is at: its item, the symbols it writes, what it read
  wish,   \* history: the symbols that each item was last given
  mixed   \* history: items of which a commit met other rows than it had read

vars == <<text, rows, used, call, wish, mixed>>

Idle == [at |-> "idle", item |-> Nothing, symbols |-> {}, text |-> {}, rows |-> {}]

\* Items from before the table of relations had rows for them.
Init ==
  /\ used \in SUBSET Items
  /\ text \in [Items -> {{}} \cup {{s} : s \in Symbols} \cup {Nothing}]
  /\ \A i \in Items : text[i] = Nothing <=> i \notin used
  /\ rows = [i \in Items |-> {}]
  /\ call = [w \in Writers |-> Idle]
  /\ wish = text /\ mixed = {}

Exists(i) == text[i] # Nothing

\* News.related_symbols.
Shown(shownText, shownRows) == IF shownRows # {} THEN shownRows ELSE shownText

\* A writer's UPDATE holds the item's row until it commits.
Free(i) == \A w \in Writers : ~(call[w].at = "relabel" /\ call[w].item = i)

Done(w) == call' = [call EXCEPT ![w] = Idle]

\* The item has the symbols now.  A writer that met what it had read leaves
\* the item in order.
Writes(w, i, newText, newRows, symbols) ==
  /\ text' = [text EXCEPT ![i] = newText] /\ rows' = [rows EXCEPT ![i] = newRows]
  /\ wish' = [wish EXCEPT ![i] = symbols]
  /\ mixed' = IF rows[i] = call[w].rows /\ text[i] = call[w].text THEN mixed \ {i} ELSE mixed \cup {i}

-----------------------------------------------------------------------------
(* The ETL *)

\* upsert_news and create_news: the item and its rows, in one transaction.
upsert_news(i, symbols) ==
  /\ i \notin used
  /\ used' = used \cup {i}
  /\ text' = [text EXCEPT ![i] = symbols] /\ rows' = [rows EXCEPT ![i] = symbols]
  /\ wish' = [wish EXCEPT ![i] = symbols]
  /\ UNCHANGED <<call, mixed>>

create_news(i, symbols) == upsert_news(i, symbols)

\* update_news_metadata updates the item's row, and deletes the rows it sees.
\* Of an item that is gone no row is updated.
UpdateMetadata(w, i, symbols) ==
  /\ call[w].at = "idle" /\ i \in used /\ Free(i)
  /\ call' = [call EXCEPT ![w] = [at |-> "relabel", item |-> i, symbols |-> symbols,
                                  text |-> text[i], rows |-> rows[i]]]
  /\ UNCHANGED <<text, rows, used, wish, mixed>>

\* Mutant: the rows that were there stay.
SyncRelationsKeeping(w) ==
  LET i == call[w].item IN
    /\ call[w].at = "relabel" /\ Exists(i)
    /\ Writes(w, i, call[w].symbols, rows[i] \cup call[w].symbols, call[w].symbols)
    /\ Done(w)
    /\ UNCHANGED used

\* _sync_news_relation_rows inserts the rows that are missing, and the
\* transaction is committed.  The rows of an item that is gone are refused,
\* and the batch with them.
SyncRelations(w) ==
  LET i == call[w].item IN
    /\ call[w].at = "relabel" /\ Exists(i)
    /\ Writes(w, i, call[w].symbols, (rows[i] \ call[w].rows) \cup call[w].symbols, call[w].symbols)
    /\ Done(w)
    /\ UNCHANGED used

\* delete_news_before and delete_news: the rows of relations go with the item.
Delete(i) ==
  /\ Exists(i) /\ Free(i)
  /\ text' = [text EXCEPT ![i] = Nothing] /\ rows' = [rows EXCEPT ![i] = {}]
  /\ wish' = [wish EXCEPT ![i] = Nothing] /\ mixed' = mixed \ {i}
  /\ UNCHANGED <<used, call>>

\* 20260324_002_news_relation_tables.sql, and again: rows for the texts.
Migrate ==
  /\ \A i \in Items : Free(i)
  /\ rows' = [i \in Items |-> IF Exists(i) THEN rows[i] \cup text[i] ELSE {}]
  /\ UNCHANGED <<text, used, call, wish, mixed>>

-----------------------------------------------------------------------------
(* The API *)

\* update_news loads the item, ...
LoadItem(w, i) ==
  /\ call[w].at = "idle" /\ Exists(i)
  /\ call' = [call EXCEPT ![w] = [at |-> "update", item |-> i, symbols |-> {},
                                  text |-> text[i], rows |-> rows[i]]]
  /\ UNCHANGED <<text, rows, used, wish, mixed>>

\* ... and writes what changed: a text that differs from the one it read, rows
\* it read and does not want, and rows it wants and did not read, of which none
\* may be there by now.  symbols are the request's, or the item's if the
\* request only names sectors.
Update(w, symbols) ==
  LET i == call[w].item
      c == call[w]
  IN /\ c.at = "update" /\ Exists(i) /\ Free(i)
     /\ (symbols \ c.rows) \cap rows[i] = {}
     /\ Writes(w, i, IF symbols = c.text THEN text[i] ELSE symbols,
               (rows[i] \ (c.rows \ symbols)) \cup (symbols \ c.rows), symbols)
     /\ Done(w)
     /\ UNCHANGED used

\* A statement fails, and the transaction is rolled back.
Fail(w) ==
  /\ call[w].at # "idle"
  /\ Done(w)
  /\ UNCHANGED <<text, rows, used, wish, mixed>>

Next ==
  \/ \E i \in Items, symbols \in SUBSET Symbols : upsert_news(i, symbols) \/ create_news(i, symbols)
  \/ \E i \in Items : Delete(i)
  \/ Migrate
  \/ \E w \in Writers :
       \/ \E i \in Items :
            \/ \E symbols \in SUBSET Symbols : UpdateMetadata(w, i, symbols)
            \/ LoadItem(w, i)
       \/ SyncRelations(w)
       \/ \E symbols \in SUBSET Symbols : Update(w, symbols)
       \/ Fail(w)

Spec == Init /\ [][Next]_vars

-----------------------------------------------------------------------------
(* Properties *)

TypeOK ==
  /\ \A i \in Items :
       /\ {text[i], wish[i]} \subseteq (SUBSET Symbols) \cup {Nothing} /\ rows[i] \subseteq Symbols
       /\ Exists(i) => i \in used
       /\ ~Exists(i) => rows[i] = {}
  /\ mixed \subseteq Items

\* An item shows the symbols it was last given, and is found by no other,
\* whoever of the ETL and the API wrote it, unless two of them wrote it at
\* once.
RelationsMatch ==
  \A i \in Items \ mixed :
    Exists(i) => Shown(text[i], rows[i]) = wish[i] /\ rows[i] \subseteq wish[i]
=============================================================================
