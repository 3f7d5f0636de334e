---------------------------- MODULE StrategyRuns -----------------------------
(***************************************************************************)
(* Runs of the smoke-butt strategy and backtests of the newest one         *)
(* (services/smoke_butt_strategy_service.py): the runs in the database,    *)
(* answers in each process's memory, and answers and features in files.    *)
(* Files are written in place.  Each request is of a process of its own.   *)
(* A run is known by its place among the runs, features by the day of      *)
(* their prices and the day they were read.                                *)
(***************************************************************************)
EXTENDS Naturals, Sequences

CONSTANTS
  Callers,  \* processes, each with a request
  LastDay,  \* bound
  MaxRuns,  \* bound
  Torn,     \* the content of a file that was not written to its end
  Nothing   \* no file, no answer

VARIABLES
  day,       \* the day of the prices in the database
  runs,      \* the day of each run, in the order of training
  memory,    \* per process, its answer about each run
  payloads,  \* the file with the answer about each run
  features,  \* the file with the features of each day
  call,      \* what each request is at
  mixed      \* history: days of which features were made twice, or a write was lost

vars == <<day, runs, memory, payloads, features, call, mixed>>

Days == 1..LastDay
Runs == 1..MaxRuns
Idle == [at |-> "idle", run |-> 0, frame |-> Nothing]

Init ==
  /\ day = 1 /\ runs = <<>>
  /\ memory = [c \in Callers |-> [r \in Runs |-> Nothing]]
  /\ payloads = [r \in Runs |-> Nothing] /\ features = [d \in Days |-> Nothing]
  /\ call = [c \in Callers |-> Idle]
  /\ mixed = {}

Goes(c, at) == call' = [call EXCEPT ![c].at = at]

-----------------------------------------------------------------------------
(* train_smoke_butt_strategy *)

\* A run of the day is returned again, unless forced; training takes long, and
\* the run is added when it ends.
TrainBegin(c, d, force) ==
  /\ call[c].at = "idle" /\ d <= day
  /\ force \/ \A r \in DOMAIN runs : runs[r] # d
  /\ call' = [call EXCEPT ![c] = [at |-> "train", run |-> 0, frame |-> d]]
  /\ UNCHANGED <<day, runs, memory, payloads, features, mixed>>

TrainEnd(c) ==
  /\ call[c].at = "train" /\ Len(runs) < MaxRuns
  /\ runs' = Append(runs, call[c].frame)
  /\ call' = [call EXCEPT ![c] = Idle]
  /\ UNCHANGED <<day, memory, payloads, features, mixed>>

-----------------------------------------------------------------------------
(* get_smoke_butt_backtest *)

\* get_latest_smoke_butt_run, and a look into the memory.
Ask(c) ==
  LET r == Len(runs)
  IN /\ call[c].at = "idle" /\ r > 0
     /\ call' = [call EXCEPT ![c] = [at |-> IF memory[c][r] # Nothing THEN "answered" ELSE "json",
                                     run |-> r, frame |-> Nothing]]
     /\ UNCHANGED <<day, runs, memory, payloads, features, mixed>>

\* Mutant: the answer about another run of the day is taken.
LoadPayloadOfDay(c) ==
  LET r == call[c].run
      found == {q \in DOMAIN runs : runs[q] = runs[r] /\ payloads[q] \notin {Nothing, Torn}}
  IN /\ call[c].at = "json"
     /\ IF found = {} THEN Goes(c, "pickle") /\ UNCHANGED memory
        ELSE \E q \in found :
               /\ memory' = [memory EXCEPT ![c][r] = payloads[q]]
               /\ Goes(c, "answered")
     /\ UNCHANGED <<day, runs, payloads, features, mixed>>

\* _load_backtest_payload_from_disk.  What cannot be parsed is made again.
LoadPayload(c) ==
  LET r == call[c].run
      payload == payloads[r]
  IN /\ call[c].at = "json"
     /\ IF payload \in {Nothing, Torn} \/ payload.run # r
        THEN Goes(c, "pickle") /\ UNCHANGED memory
        ELSE /\ memory' = [memory EXCEPT ![c][r] = payload]
             /\ Goes(c, "answered")
     /\ UNCHANGED <<day, runs, payloads, features, mixed>>

\* _load_feature_history_from_disk.  A torn file raises what nobody catches.
LoadFeatures(c) ==
  LET d == runs[call[c].run]
  IN /\ call[c].at = "pickle"
     /\ CASE features[d] = Torn -> call' = [call EXCEPT ![c] = Idle]
          [] features[d] = Nothing -> Goes(c, "frames")
          [] OTHER -> call' = [call EXCEPT ![c].at = "compute", ![c].frame = features[d]]
     /\ UNCHANGED <<day, runs, memory, payloads, features, mixed>>

Making(d) == {c \in Callers : call[c].at \in {"frames", "open", "features"} /\ runs[call[c].run] = d}

\* _load_backtest_base_frames: the prices up to the run's day, as they are now.
LoadFrames(c) ==
  LET d == runs[call[c].run]
  IN /\ call[c].at = "frames"
     /\ call' = [call EXCEPT ![c].at = "open", ![c].frame = [of |-> d, read |-> day]]
     /\ mixed' = IF Making(d) # {c} \/ features[d] # Nothing THEN mixed \cup {d} ELSE mixed
     /\ UNCHANGED <<day, runs, memory, payloads, features>>

\* _write_feature_history_to_disk cuts the file, ...
OpenFeatures(c) ==
  /\ call[c].at = "open"
  /\ features' = [features EXCEPT ![runs[call[c].run]] = Torn]
  /\ Goes(c, "features")
  /\ UNCHANGED <<day, runs, memory, payloads, mixed>>

\* ... and writes it, fails with an OSError that is passed over, or leaves what
\* two writers mixed.
WriteFeatures(c) ==
  LET d == runs[call[c].run]
  IN /\ call[c].at = "features"
     /\ \/ features' = [features EXCEPT ![d] = call[c].frame] /\ UNCHANGED mixed
        \/ features' = [features EXCEPT ![d] = Torn] /\ mixed' = mixed \cup {d}
     /\ Goes(c, "compute")
     /\ UNCHANGED <<day, runs, memory, payloads>>

\* The windows are built, kept in memory, and the file is opened.
Compute(c) ==
  LET r == call[c].run
      payload == [run |-> r, frame |-> call[c].frame]
  IN /\ call[c].at = "compute"
     /\ memory' = [memory EXCEPT ![c][r] = payload]
     /\ payloads' = [payloads EXCEPT ![r] = Torn]
     /\ call' = [call EXCEPT ![c].at = "payload", ![c].frame = payload]
     /\ UNCHANGED <<day, runs, features, mixed>>

\* _write_backtest_payload_to_disk.
WritePayload(c) ==
  LET r == call[c].run
  IN /\ call[c].at = "payload"
     /\ \E content \in {call[c].frame, Torn} : payloads' = [payloads EXCEPT ![r] = content]
     /\ call' = [call EXCEPT ![c].at = "answered", ![c].frame = Nothing]
     /\ UNCHANGED <<day, runs, memory, features, mixed>>

Return(c) ==
  /\ call[c].at = "answered"
  /\ call' = [call EXCEPT ![c] = Idle]
  /\ UNCHANGED <<day, runs, memory, payloads, features, mixed>>

\* A process is killed and started again.
Crash(c) ==
  /\ memory' = [memory EXCEPT ![c] = [r \in Runs |-> Nothing]]
  /\ call' = [call EXCEPT ![c] = Idle]
  /\ UNCHANGED <<day, runs, payloads, features, mixed>>

\* The ETL loads prices, of past days too.
NewPrices ==
  /\ day < LastDay
  /\ day' = day + 1
  /\ UNCHANGED <<runs, memory, payloads, features, call, mixed>>

Next ==
  \/ \E c \in Callers :
       \/ \E d \in Days, force \in BOOLEAN : TrainBegin(c, d, force)
       \/ TrainEnd(c) \/ Ask(c) \/ LoadPayload(c) \/ LoadFeatures(c) \/ LoadFrames(c)
       \/ OpenFeatures(c) \/ WriteFeatures(c) \/ Compute(c) \/ WritePayload(c) \/ Return(c) \/ Crash(c)
  \/ NewPrices

Spec == Init /\ [][Next]_vars

-----------------------------------------------------------------------------
(* Properties *)

Answers == [run : Runs, frame : [of : Days, read : Days]]

TypeOK ==
  /\ day \in Days /\ mixed \subseteq Days
  /\ \A r \in DOMAIN runs : runs[r] \in 1..day
  /\ \A r \in Runs : payloads[r] \in Answers \cup {Torn, Nothing}
  /\ \A d \in Days : features[d] \in [of : {d}, read : d..day] \cup {Torn, Nothing}

\* Whatever process answers, about whatever run, it is the run that was the
\* newest when it was asked, with prices of its day; and all processes answer
\* the same about runs of a day, now and later, through crashes and files cut
\* short, unless two of them made the day's features or a write of them was
\* lost.
BacktestsAgree ==
  /\ \A c \in Callers : \A r \in Runs :
       memory[c][r] # Nothing => /\ memory[c][r].run = r
                                 /\ memory[c][r].frame.of = runs[r]
  /\ \A b, c \in Callers : \A q, r \in DOMAIN runs :
       (runs[q] = runs[r] /\ runs[q] \notin mixed /\ Nothing \notin {memory[b][q], memory[c][r]}) =>
         memory[b][q].frame = memory[c][r].frame
=============================================================================
