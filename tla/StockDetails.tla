---------------------------- MODULE StockDetails ----------------------------
(***************************************************************************)
(* run_stock_detail_job (etl/jobs/stock_detail_job.py): batches of symbols *)
(* are collected, stored and recorded in a status file, and a checkpoint   *)
(* file remembers how far a run over a list of symbols came.  Both files   *)
(* are rewritten in place, and a run that is started by hand may overlap   *)
(* another.  A list of symbols is its set, in ascending order.             *)
(***************************************************************************)
EXTENDS Naturals, FiniteSets

CONSTANTS
  Runs,       \* processes that run the job
  Symbols,    \* numbers
  BatchSize,
  MaxStarts,  \* bound: runs
  Torn,       \* a checkpoint file that does not parse
  NoPayload,  \* a symbol whose collection raised
  Nothing     \* no file; no entry, or an empty one

Sections == {"snapshot", "research", "intraday"}

VARIABLES
  checkpoint,  \* the checkpoint file
  status,      \* the sections of each symbol that the status file shows as
               \* checked of late and filled, or Nothing
  run,         \* what each run is at
  starts,      \* how many runs were started
  reached,     \* history: how many of each list's symbols were stored in turn
  loaded       \* history: the symbols whose intraday rows were stored of late

vars == <<checkpoint, status, run, starts, reached, loaded>>

Idle == [at |-> "idle", symbols |-> {}, next |-> 0, resume |-> FALSE, got |-> <<>>, old |-> <<>>]

Init ==
  /\ checkpoint = Nothing
  /\ status \in [Symbols -> {Nothing, Sections}]
  /\ run = [r \in Runs |-> Idle] /\ starts = 0
  /\ reached = [list \in SUBSET Symbols |-> 0]
  /\ loaded = {s \in Symbols : status[s] # Nothing}

-----------------------------------------------------------------------------
(* Files *)

Ahead(list, s) == Cardinality({q \in list : q < s})

Batch(r) ==
  {s \in run[r].symbols : Ahead(run[r].symbols, s) \in run[r].next..(run[r].next + BatchSize - 1)}

BatchEnd(r) == run[r].next + Cardinality(Batch(r))

\* Another run is rewriting a file: it reads as torn, and two writers may tear it.
Writing(r, at) == \E q \in Runs \ {r} : run[q].at = at

\* What _load_checkpoint may return: 0 unless the file parses and was written
\* for this list.
StartIndices(r, list, file) ==
  {IF file \notin {Nothing, Torn} /\ file.symbols = list THEN file.next ELSE 0}
  \cup (IF Writing(r, "save") THEN {0} ELSE {})

Doc(list, next) == [symbols |-> list, next |-> next]

Cleared(list, file) ==
  IF file \notin {Nothing, Torn} /\ file.symbols = list THEN Nothing ELSE file

Unknown == [s \in Symbols |-> Nothing]

-----------------------------------------------------------------------------
(* A run *)

\* A section is fresh by the rows of its table or by its status; research has
\* the status only.
Skipped(s, fresh) ==
  LET shown == IF status[s] = Nothing THEN fresh ELSE fresh \cup status[s]
  IN /\ {"snapshot", "intraday"} \subseteq shown
     /\ "research" \in shown \/ status[s] = Nothing

\* run_stock_detail_job up to its first batch.  fresh: the sections with fresh
\* rows.
Start(r, wanted, fresh, resume, reset, force) ==
  LET list == IF force THEN wanted ELSE {s \in wanted : ~Skipped(s, fresh)}
      file == IF reset THEN Nothing ELSE checkpoint
  IN /\ run[r].at = "idle" /\ list # {} /\ starts < MaxStarts /\ starts' = starts + 1
     /\ \E next \in IF resume THEN StartIndices(r, list, file) ELSE {0} :
          IF next < Cardinality(list)
          THEN /\ run' = [run EXCEPT ![r] = [Idle EXCEPT !.at = "collect", !.symbols = list,
                                                         !.next = next, !.resume = resume]]
               /\ checkpoint' = file
          ELSE checkpoint' = Cleared(list, file) /\ UNCHANGED run
     /\ UNCHANGED <<status, reached, loaded>>

Goes(r, at) == run' = [run EXCEPT ![r].at = at]

\* Mutant: the checkpoint moves first.
CollectSaving(r, got) ==
  /\ run[r].at = "collect" /\ Batch(r) # {}
  /\ run' = [run EXCEPT ![r].at = "flush", ![r].got = got]
  /\ checkpoint' = IF run[r].resume THEN Doc(run[r].symbols, BatchEnd(r)) ELSE checkpoint
  /\ UNCHANGED <<status, starts, reached, loaded>>

\* _collect_symbol_payload for a batch: what each symbol's entry will show.
\* Snapshot and research never work: the functions they call are not
\* imported into this module.  Intraday may lack a period.
Collect(r, got) ==
  /\ run[r].at = "collect" /\ Batch(r) # {}
  /\ run' = [run EXCEPT ![r].at = "flush", ![r].got = got]
  /\ UNCHANGED <<checkpoint, status, starts, reached, loaded>>

Filled(r) == {s \in Batch(r) : run[r].got[s] = {"intraday"}}

\* _flush_batch_rows.
Flush(r) ==
  /\ run[r].at = "flush"
  /\ reached' = [reached EXCEPT ![run[r].symbols] = IF @ < run[r].next \/ BatchEnd(r) < @
                                                    THEN @ ELSE BatchEnd(r)]
  /\ loaded' = loaded \cup Filled(r)
  /\ Goes(r, "merge")
  /\ UNCHANGED <<checkpoint, status, starts>>

\* _save_status_updates reads the file, ...
ReadStatus(r) ==
  /\ run[r].at = "merge"
  /\ \E old \in {status} \cup (IF Writing(r, "status") THEN {Unknown} ELSE {}) :
       run' = [run EXCEPT ![r].at = "status", ![r].old = old]
  /\ UNCHANGED <<checkpoint, status, starts, reached, loaded>>

\* ... and writes it with the entries of this batch replaced as a whole.
WriteStatus(r) ==
  /\ run[r].at = "status"
  /\ LET merged == [s \in Symbols |-> IF s \in Batch(r) /\ run[r].got[s] # NoPayload
                                      THEN run[r].got[s] ELSE run[r].old[s]]
     IN status' \in {merged} \cup (IF Writing(r, "status") THEN {Unknown} ELSE {})
  /\ run' = [run EXCEPT ![r].at = IF run[r].resume THEN "save" ELSE "next",
                        ![r].got = <<>>, ![r].old = <<>>]
  /\ UNCHANGED <<checkpoint, starts, reached, loaded>>

\* _save_checkpoint.
Save(r) ==
  /\ run[r].at = "save"
  /\ checkpoint' \in {Doc(run[r].symbols, BatchEnd(r))}
                     \cup (IF Writing(r, "save") THEN {Torn} ELSE {})
  /\ Goes(r, "next")
  /\ UNCHANGED <<status, starts, reached, loaded>>

\* The next batch, or the end.
NextBatch(r) ==
  /\ run[r].at = "next"
  /\ IF BatchEnd(r) < Cardinality(run[r].symbols)
     THEN /\ run' = [run EXCEPT ![r].at = "collect", ![r].next = BatchEnd(r)]
          /\ UNCHANGED checkpoint
     ELSE /\ checkpoint' = IF run[r].resume THEN Cleared(run[r].symbols, checkpoint) ELSE checkpoint
          /\ run' = [run EXCEPT ![r] = Idle]
  /\ UNCHANGED <<status, starts, reached, loaded>>

-----------------------------------------------------------------------------
(* What else happens *)

\* A run is killed, or the database fails; a file it was writing is torn.
Crash(r) ==
  /\ run[r].at # "idle"
  /\ run' = [run EXCEPT ![r] = Idle]
  /\ checkpoint' \in {checkpoint} \cup (IF run[r].at = "save" THEN {Torn} ELSE {})
  /\ status' \in {status} \cup (IF run[r].at = "status" THEN {Unknown} ELSE {})
  /\ UNCHANGED <<starts, reached, loaded>>

\* What is known of a symbol gets old, in the file and in the copies of it.
Older(map, s) == [map EXCEPT ![s] = IF @ = Nothing THEN Nothing ELSE {}]

Age(s) ==
  /\ s \in loaded
  /\ loaded' = loaded \ {s}
  /\ status' = Older(status, s)
  /\ run' = [r \in Runs |-> IF run[r].at = "status" THEN [run[r] EXCEPT !.old = Older(@, s)] ELSE run[r]]
  /\ \A r \in Runs : run[r].at \in {"merge", "status"} => s \notin Filled(r)
  /\ UNCHANGED <<checkpoint, starts, reached>>

Next ==
  \/ \E r \in Runs :
       \/ \E wanted \in SUBSET Symbols, resume, reset, force \in BOOLEAN,
             fresh \in SUBSET {"snapshot", "intraday"} :
            Start(r, wanted, fresh, resume, reset, force)
       \/ \E got \in [Batch(r) -> {NoPayload, Nothing, {}, {"intraday"}}] : Collect(r, got)
       \/ Flush(r)
       \/ ReadStatus(r)
       \/ WriteStatus(r)
       \/ Save(r)
       \/ NextBatch(r)
       \/ Crash(r)
  \/ \E s \in Symbols : Age(s)

Spec == Init /\ [][Next]_vars

-----------------------------------------------------------------------------
(* Properties *)

TypeOK ==
  /\ checkpoint \in [symbols : SUBSET Symbols, next : 0..Cardinality(Symbols)] \cup {Nothing, Torn}
  /\ status \in [Symbols -> {Nothing} \cup SUBSET Sections]
  /\ \A r \in Runs : run[r].next <= Cardinality(run[r].symbols)
  /\ loaded \subseteq Symbols

\* The checkpoint and the status file never claim what was not stored,
\* whatever runs overlap or are cut off: all symbols that the checkpoint would
\* pass over were in batches that some run over this very list stored, and a
\* symbol whose intraday rows pass as checked had them stored.
ProgressBacked ==
  /\ checkpoint \notin {Nothing, Torn} => checkpoint.next <= reached[checkpoint.symbols]
  /\ \A s \in Symbols : status[s] # Nothing /\ "intraday" \in status[s] => s \in loaded
=============================================================================
