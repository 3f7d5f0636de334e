------------------------------ MODULE Bootstrap ------------------------------
(***************************************************************************)
(* run_bootstrap (etl/bootstrap_stock_data.py): the history of indices and *)
(* of a pool of stocks, one symbol at a time.  The checkpoint is a         *)
(* document of its own: whoever resumes goes on with the symbols it names, *)
(* not with those of the market's pool of the day.                         *)
(***************************************************************************)
EXTENDS Naturals, FiniteSets

CONSTANTS
  Runs,     \* processes that run the job
  Symbols,  \* numbers above 0
  LastDay,  \* bound: market dates
  Torn,     \* a checkpoint file that does not parse
  Nothing   \* no file

Indices == 0
Days == 1..LastDay

VARIABLES
  day,         \* the market date
  checkpoint,  \* the checkpoint file
  run,         \* what each run is at
  loaded       \* history: the symbols that were gone through for each date

vars == <<day, checkpoint, run, loaded>>

Idle == [at |-> "idle", day |-> 0, symbols |-> {}, next |-> 0, indexDone |-> FALSE, resume |-> FALSE]

Init ==
  /\ day = 1 /\ checkpoint = Nothing
  /\ run = [r \in Runs |-> Idle]
  /\ loaded = [d \in Days |-> {}]

\* The symbols before the next one, which are in ascending order.
Passed(doc) == {s \in doc.symbols : Cardinality({q \in doc.symbols : q < s}) < doc.next}

Doc(r, next, indexDone) ==
  [day |-> run[r].day, symbols |-> run[r].symbols, next |-> next, indexDone |-> indexDone]

Parses(file) == file \notin {Nothing, Torn}

\* The file is rewritten in place: it reads as torn meanwhile, and two writers
\* may tear it.
Writing(r) == \E q \in Runs \ {r} : run[q].at \in {"first", "indexSaved", "saved"}
Written(r, doc) == checkpoint' \in {doc} \cup (IF Writing(r) THEN {Torn} ELSE {})

\* _load_checkpoint: the document, if it was written for this date.
Documents(r) ==
  {IF Parses(checkpoint) /\ checkpoint.day = day THEN checkpoint ELSE Nothing}
  \cup (IF Writing(r) THEN {Nothing} ELSE {})

-----------------------------------------------------------------------------
(* A run *)

\* With a document, or with the market's pool of now.
Start(r, pool, resume, reset) ==
  /\ run[r].at = "idle"
  /\ \E doc \in IF resume /\ ~reset THEN Documents(r) ELSE {Nothing} :
       run' = [run EXCEPT ![r] =
         IF doc = Nothing
         THEN [Idle EXCEPT !.at = IF resume THEN "first" ELSE "indices", !.day = day,
                           !.symbols = pool, !.resume = resume]
         ELSE [at |-> IF doc.indexDone THEN "stock" ELSE "indices", day |-> day,
               symbols |-> doc.symbols, next |-> doc.next, indexDone |-> doc.indexDone,
               resume |-> TRUE]]
  /\ checkpoint' = IF reset THEN Nothing ELSE checkpoint
  /\ UNCHANGED <<day, loaded>>

Goes(r, at, next, indexDone) ==
  run' = [run EXCEPT ![r].at = at, ![r].next = next, ![r].indexDone = indexDone]

FirstCheckpoint(r) ==
  /\ run[r].at = "first"
  /\ Written(r, Doc(r, 0, FALSE))
  /\ Goes(r, "indices", 0, FALSE)
  /\ UNCHANGED <<day, loaded>>

Loads(r, items) == loaded' = [loaded EXCEPT ![run[r].day] = @ \cup items]

LoadIndices(r) ==
  /\ run[r].at = "indices"
  /\ Loads(r, {Indices})
  /\ Goes(r, IF run[r].resume THEN "indexSaved" ELSE "stock", run[r].next, TRUE)
  /\ UNCHANGED <<day, checkpoint>>

SaveIndices(r) ==
  /\ run[r].at = "indexSaved"
  /\ Written(r, Doc(r, run[r].next, TRUE))
  /\ Goes(r, "stock", run[r].next, TRUE)
  /\ UNCHANGED <<day, loaded>>

NextStock(r) ==
  {s \in run[r].symbols : Cardinality({q \in run[r].symbols : q < s}) = run[r].next}


\* The prices, financials and score of the next stock.
LoadStock(r) ==
  /\ run[r].at = "stock" /\ run[r].next < Cardinality(run[r].symbols)
  /\ Loads(r, NextStock(r))
  /\ Goes(r, IF run[r].resume THEN "saved" ELSE "stock", run[r].next + 1, TRUE)
  /\ UNCHANGED <<day, checkpoint>>

SaveStock(r) ==
  /\ run[r].at = "saved"
  /\ Written(r, Doc(r, run[r].next, TRUE))
  /\ Goes(r, "stock", run[r].next, TRUE)
  /\ UNCHANGED <<day, loaded>>

Finish(r) ==
  /\ run[r].at = "stock" /\ run[r].next >= Cardinality(run[r].symbols)
  /\ checkpoint' = IF run[r].resume /\ Parses(checkpoint) /\ checkpoint.day = run[r].day
                   THEN Nothing ELSE checkpoint
  /\ run' = [run EXCEPT ![r] = Idle]
  /\ UNCHANGED <<day, loaded>>

-----------------------------------------------------------------------------
(* What else happens *)

\* A run is killed, or a load raises; the file it was writing is torn.
Crash(r) ==
  /\ run[r].at # "idle"
  /\ run' = [run EXCEPT ![r] = Idle]
  /\ checkpoint' \in {checkpoint} \cup
       (IF run[r].at \in {"first", "indexSaved", "saved"} THEN {Torn} ELSE {})
  /\ UNCHANGED <<day, loaded>>

NextDay ==
  /\ day < LastDay
  /\ day' = day + 1
  /\ UNCHANGED <<checkpoint, run, loaded>>

Next ==
  \/ \E r \in Runs :
       \/ \E pool \in SUBSET Symbols, resume, reset \in BOOLEAN : Start(r, pool, resume, reset)
       \/ FirstCheckpoint(r)
       \/ LoadIndices(r)
       \/ SaveIndices(r)
       \/ LoadStock(r)
       \/ SaveStock(r)
       \/ Finish(r)
       \/ Crash(r)
  \/ NextDay

Spec == Init /\ [][Next]_vars

-----------------------------------------------------------------------------
(* Properties *)

TypeOK ==
  /\ day \in Days /\ loaded \in [Days -> SUBSET (Symbols \cup {Indices})]
  /\ checkpoint \in {Nothing, Torn}
       \cup [day : Days, symbols : SUBSET Symbols, next : 0..Cardinality(Symbols), indexDone : BOOLEAN]
  /\ \A r \in Runs : run[r].next <= Cardinality(run[r].symbols)

\* A document passes over nothing that was not loaded for its date, whatever
\* runs wrote it, overlapped or were cut off; and a run that has come to its
\* end leaves nothing of its list unloaded, whoever began it.
NothingSkipped ==
  /\ Parses(checkpoint) =>
       /\ Passed(checkpoint) \subseteq loaded[checkpoint.day]
       /\ checkpoint.indexDone => Indices \in loaded[checkpoint.day]
  /\ \A r \in Runs :
       run[r].at = "stock" /\ run[r].next >= Cardinality(run[r].symbols) =>
         run[r].symbols \cup {Indices} \subseteq loaded[run[r].day]
=============================================================================
