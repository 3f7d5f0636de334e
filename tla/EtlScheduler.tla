---------------------------- MODULE EtlScheduler ----------------------------
(***************************************************************************)
(* One run of the ETL at a time (etl/scheduler.py run_once; EtlLock is     *)
(* about the lock around it): jobs are planned against the watermarks of   *)
(* the state file (etl/utils/state.py), run by worker threads stage by     *)
(* stage, and recorded there by an unlocked read-modify-write.  A run can  *)
(* be killed at any step; the macro backfill script writes the same file   *)
(* without the lock.  Dates are day numbers and 0 is "no date".            *)
(***************************************************************************)
EXTENDS Naturals, FiniteSets

CONSTANTS
  SourceJobs, DerivedJobs,  \* the jobs of the two stages that have any
  MacroJob,                 \* macro_job, which also keeps two refresh dates
  FixedJobs,                \* the jobs whose range is always the target date
  Metrics,                  \* the key of metrics_cache_job
  Refresh, Bank,            \* the keys of the AkShare and World Bank refreshes
  Main, Backfill,           \* run_once's thread, and a manual macro script
  LastDay,                  \* bound: days are 1..LastDay
  MaxStarts,                \* bound: runs and backfills started
  Workers,                  \* etl.parallel_workers
  WritesFail,               \* whether the disk may refuse the state file
  PoolReturns               \* whether create_session returns (see DbPool)

Jobs == SourceJobs \cup DerivedJobs
Keys == Jobs \cup {Metrics, Refresh, Bank}
Threads == Jobs \cup {Main, Backfill}
Day == 1..LastDay
Date == 0..LastDay

ASSUME SchedulerAssumption ==
  /\ SourceJobs \cap DerivedJobs = {} /\ IsFiniteSet(Jobs)
  /\ MacroJob \in SourceJobs /\ FixedJobs \subseteq Jobs /\ MacroJob \in FixedJobs
  /\ {Metrics, Refresh, Bank, Main, Backfill} \cap Jobs = {}
  /\ Metrics \notin {Refresh, Bank} /\ Refresh # Bank /\ Main # Backfill
  /\ LastDay \in Nat \ {0} /\ MaxStarts \in Nat
  /\ Workers \in Nat \ {0}
  /\ WritesFail \in BOOLEAN /\ PoolReturns \in BOOLEAN

VARIABLES
  text,       \* STATE_PATH holds "json", is "blank" (truncated) or "torn"
  marks,      \* last_success_date of every key in that JSON
  upc,        \* where each thread stands in update_job_state
  snap,       \* what it loaded
  item,       \* the key and the date it is recording
  main,       \* where run_once stands
  run,        \* its target date, end date and whether it may skip jobs
  job,        \* what became of each job in this run
  completed,  \* history: the dates each key's work was completed for
  mixed,      \* history: in this run two updates of the file overlapped, or
              \* one was cut off between truncating and writing
  left        \* bound: runs and backfills that may still be started

file == <<text, marks>>
thread == <<upc, snap, item>>
ghost == <<completed, mixed>>
vars == <<file, thread, main, run, job, ghost, left>>

NoMarks == [k \in Keys |-> 0]
NoItem == [key |-> Metrics, date |-> 0]

\* _load_state: a file that is not JSON is taken to be {}.
Loaded == IF text = "json" THEN marks ELSE NoMarks

\* _resolve_range and the fixed-date override of _plan_jobs.
EndOf(j) == IF j \in FixedJobs THEN run.target ELSE run.end

Midway(t) == upc[t] \in {"open", "write"}
Settled(j) == job[j] \in {"skipped", "done", "failed"}
Working == {"running", "refreshing", "refreshed", "banking", "banked", "saving"}
Occupied == {j \in Jobs : job[j] \in Working}

Init ==
  /\ text = "json" /\ marks = NoMarks
  /\ upc = [t \in Threads |-> "idle"]
  /\ snap = [t \in Threads |-> NoMarks]
  /\ item = [t \in Threads |-> NoItem]
  /\ main = "idle"
  /\ run = [target |-> 1, end |-> 1, skipping |-> FALSE]
  /\ job = [j \in Jobs |-> "none"]
  /\ completed = [k \in Keys |-> {}]
  /\ mixed = FALSE
  /\ left = MaxStarts

-----------------------------------------------------------------------------
(* update_job_state(key, date), step by step *)

\* Thread t has done the work of key up to date d and calls update_job_state.
CompleteAndRecord(t, k, d) ==
  /\ completed' = [completed EXCEPT ![k] = @ \cup {d}]
  /\ item' = [item EXCEPT ![t] = [key |-> k, date |-> d]]
  /\ upc' = [upc EXCEPT ![t] = "load"]

Load(t) ==
  /\ upc[t] = "load"
  /\ snap' = [snap EXCEPT ![t] = Loaded]
  /\ upc' = [upc EXCEPT ![t] = "open"]
  /\ mixed' = (mixed \/ \E u \in Threads : Midway(u))
  /\ UNCHANGED <<file, item, main, run, job, completed, left>>

\* write_text opens the file, which truncates it.
Open(t) ==
  /\ upc[t] = "open"
  /\ text' = "blank" /\ marks' = NoMarks
  /\ upc' = [upc EXCEPT ![t] = "write"]
  /\ UNCHANGED <<snap, item, main, run, job, ghost, left>>

\* Mutant: only the thread's own key is written back.
RecordedAlone(t) == [NoMarks EXCEPT ![item[t].key] = item[t].date]

\* The loaded document with the thread's own key set.
Recorded(t) == [snap[t] EXCEPT ![item[t].key] = item[t].date]

Named(m) == {k \in Keys : m[k] # 0}

\* Bytes written over what another writer left since this one's truncation: a
\* document that names more keys is longer, and a tail of it survives.
WriteOver(m) ==
  \/ /\ Named(m) \subseteq Named(marks) => Named(m) = Named(marks)
     /\ text' = "json" /\ marks' = m
  \/ /\ text = "torn" \/ ~(Named(marks) \subseteq Named(m))
     /\ text' = "torn" /\ marks' = NoMarks

\* What follows update_job_state in the thread that called it.
AfterUpdate(t, status) ==
  /\ upc' = [upc EXCEPT ![t] = "idle"]
  /\ snap' = [snap EXCEPT ![t] = NoMarks]
  /\ item' = [item EXCEPT ![t] = NoItem]
  /\ job' = IF t \in Jobs
              THEN [job EXCEPT ![t] =
                      CASE status = "failed" -> "failed"
                        [] status # "failed" /\ @ = "refreshing" -> "refreshed"
                        [] status # "failed" /\ @ = "banking" -> "banked"
                        [] OTHER -> "done"]
              ELSE job
  /\ main' = IF t = Main THEN "close" ELSE main

Write(t) ==
  /\ upc[t] = "write"
  /\ WriteOver(Recorded(t))
  /\ AfterUpdate(t, "written")
  /\ UNCHANGED <<run, ghost, left>>

\* An OSError of the read, the open or the write.  The job counts as failed;
\* run_once swallows it for the metrics; the backfill script ends.
UpdateFails(t) ==
  /\ WritesFail /\ upc[t] # "idle"
  /\ mixed' = (mixed \/ upc[t] = "write")
  /\ AfterUpdate(t, "failed")
  /\ UNCHANGED <<file, run, completed, left>>

-----------------------------------------------------------------------------
(* run_once *)

\* An explicit end_date, force and full runs never skip a job.
StartRun ==
  /\ main = "idle" /\ left > 0
  /\ left' = left - 1
  /\ \E target, end \in Day, skipping \in BOOLEAN :
       /\ skipping => end = target
       /\ run' = [target |-> target, end |-> end, skipping |-> skipping]
  /\ main' = "session"
  /\ mixed' = \E t \in Threads : Midway(t)
  /\ UNCHANGED <<file, thread, job, completed>>

\* _get_db_session returns a session; as create_session stands it never does.
OpenSession ==
  /\ main = "session" /\ PoolReturns
  /\ main' = "plan"
  /\ UNCHANGED <<file, thread, run, job, ghost, left>>

\* load_config, or a missing postgres_url, raises into the finally.
OpenSessionFails ==
  /\ main = "session"
  /\ main' = "close"
  /\ UNCHANGED <<file, thread, run, job, ghost, left>>

\* Mutant: any recorded date covers the job.
CoveredByAnything(k, end, healthy) ==
  run.skipping /\ (k = MacroJob => healthy) /\ Loaded[k] # 0

\* _should_skip_job, given the health of the macro snapshot in the database.
CoveredBy(k, end, healthy) ==
  run.skipping /\ (k = MacroJob => healthy) /\ Loaded[k] >= end /\ Loaded[k] # 0

PlanJob(j) ==
  /\ main = "plan" /\ job[j] = "none"
  /\ \E healthy \in BOOLEAN :
       job' = [job EXCEPT ![j] = IF CoveredBy(j, EndOf(j), healthy)
                                   THEN "skipped" ELSE "planned"]
  /\ UNCHANGED <<file, thread, main, run, ghost, left>>

\* The health query or the state file raises: nothing runs.
PlanFails ==
  /\ main = "plan"
  /\ main' = "close"
  /\ UNCHANGED <<file, thread, run, job, ghost, left>>

PlanDone ==
  /\ main = "plan"
  /\ \A j \in Jobs : job[j] # "none"
  /\ main' = "source"
  /\ UNCHANGED <<file, thread, run, job, ghost, left>>

StageJobs == IF main = "source" THEN SourceJobs
             ELSE IF main = "derived" THEN DerivedJobs ELSE {}

\* The stage's thread pool hands a planned job to a free worker.
StartJob(j) ==
  /\ j \in StageJobs /\ job[j] = "planned"
  /\ Cardinality(Occupied) < Workers
  /\ job' = [job EXCEPT ![j] = "running"]
  /\ UNCHANGED <<file, thread, main, run, ghost, left>>

\* run_macro_job stored new AkShare rows and records the refresh.
RefreshMacro ==
  /\ job[MacroJob] = "running"
  /\ CompleteAndRecord(MacroJob, Refresh, EndOf(MacroJob))
  /\ job' = [job EXCEPT ![MacroJob] = "refreshing"]
  /\ UNCHANGED <<file, snap, main, run, mixed, left>>

\* _refresh_world_bank_rows, called after that, stored rows and records it.
RefreshWorldBank ==
  /\ job[MacroJob] \in {"running", "refreshed"}
  /\ CompleteAndRecord(MacroJob, Bank, EndOf(MacroJob))
  /\ job' = [job EXCEPT ![MacroJob] = "banking"]
  /\ UNCHANGED <<file, snap, main, run, mixed, left>>

\* A runner that may return, or raise.
Fetching(j) == job[j] \in {"running", "refreshed", "banked"}

RunnerReturns(j) ==
  /\ Fetching(j)
  /\ CompleteAndRecord(j, j, EndOf(j))
  /\ job' = [job EXCEPT ![j] = "saving"]
  /\ UNCHANGED <<file, snap, main, run, mixed, left>>

\* Mutant: the job is recorded although its runner raised.
RunnerRaisesRecorded(j) ==
  /\ Fetching(j)
  /\ item' = [item EXCEPT ![j] = [key |-> j, date |-> EndOf(j)]]
  /\ upc' = [upc EXCEPT ![j] = "load"]
  /\ job' = [job EXCEPT ![j] = "saving"]
  /\ UNCHANGED <<file, snap, main, run, ghost, left>>

RunnerRaises(j) ==
  /\ Fetching(j)
  /\ job' = [job EXCEPT ![j] = "failed"]
  /\ UNCHANGED <<file, thread, main, run, ghost, left>>

\* Mutant: the stage ends with its first completed future.
StageDoneEarly ==
  /\ main \in {"source", "derived"}
  /\ StageJobs # {} => \E j \in StageJobs : Settled(j)
  /\ main' = IF main = "source" THEN "derived" ELSE "cleanup"
  /\ UNCHANGED <<file, thread, run, job, ghost, left>>

\* Mutant: a failed job keeps its stage open.
StageDoneOnSuccess ==
  /\ main \in {"source", "derived"}
  /\ \A j \in StageJobs : job[j] \in {"skipped", "done"}
  /\ main' = IF main = "source" THEN "derived" ELSE "cleanup"
  /\ UNCHANGED <<file, thread, run, job, ghost, left>>

\* The executor's with block has waited for every job of the stage.
StageDone ==
  /\ main \in {"source", "derived"}
  /\ \A j \in StageJobs : Settled(j)
  /\ main' = IF main = "source" THEN "derived" ELSE "cleanup"
  /\ UNCHANGED <<file, thread, run, job, ghost, left>>

\* _cleanup_retention; a database error skips the metrics.
Cleanup ==
  /\ main = "cleanup"
  /\ main' \in {"metrics", "close"}
  /\ UNCHANGED <<file, thread, run, job, ghost, left>>

AnyJobRan == \E j \in Jobs : job[j] = "done"

\* The metrics job: nothing to do, an exception that is swallowed, or done.
RunMetrics ==
  /\ main = "metrics"
  /\ \/ /\ main' = "close"
        /\ UNCHANGED <<upc, item, completed>>
     \/ /\ AnyJobRan \/ ~CoveredBy(Metrics, run.end, TRUE)
        /\ main' = "record"
        /\ CompleteAndRecord(Main, Metrics, run.end)
  /\ UNCHANGED <<file, snap, run, job, mixed, left>>

\* db_session.close() and _release_lock().
Close ==
  /\ main = "close"
  /\ main' = "idle"
  /\ job' = [j \in Jobs |-> "none"]
  /\ UNCHANGED <<file, thread, run, ghost, left>>

\* The process is killed: its threads stop where they are.
Crash ==
  /\ main # "idle"
  /\ main' = "idle"
  /\ job' = [j \in Jobs |-> "none"]
  /\ upc' = [t \in Threads |-> IF t = Backfill THEN upc[t] ELSE "idle"]
  /\ snap' = [t \in Threads |-> IF t = Backfill THEN snap[t] ELSE NoMarks]
  /\ item' = [t \in Threads |-> IF t = Backfill THEN item[t] ELSE NoItem]
  /\ UNCHANGED <<file, run, ghost, left>>

\* run_akshare_macro_full_backfill or run_worldbank_macro_job, in a process of
\* its own.
BackfillMacro ==
  /\ upc[Backfill] = "idle" /\ left > 0
  /\ left' = left - 1
  /\ \E k \in {Refresh, Bank}, d \in Day : CompleteAndRecord(Backfill, k, d)
  /\ UNCHANGED <<file, snap, main, run, job, mixed>>

-----------------------------------------------------------------------------
MainStep ==
  OpenSession \/ PlanFails \/ PlanDone \/ StageDone \/ Cleanup \/ RunMetrics \/ Close

JobStep(j) ==
  PlanJob(j) \/ StartJob(j) \/ RunnerReturns(j) \/ RunnerRaises(j)

UpdateStep(t) == Load(t) \/ Open(t) \/ Write(t) \/ UpdateFails(t)

Next ==
  \/ StartRun
  \/ OpenSessionFails
  \/ MainStep
  \/ \E j \in Jobs : JobStep(j)
  \/ RefreshMacro
  \/ RefreshWorldBank
  \/ \E t \in Threads : UpdateStep(t)
  \/ Crash
  \/ BackfillMacro

Spec == Init /\ [][Next]_vars

\* The threads of a run keep running, and a job's runner returns or raises.
FairSpec ==
  /\ Spec
  /\ WF_vars(MainStep)
  /\ \A j \in Jobs : WF_vars(JobStep(j))
  /\ \A t \in Threads : WF_vars(UpdateStep(t))

-----------------------------------------------------------------------------
(* Properties *)

TypeOK ==
  /\ text \in {"json", "blank", "torn"}
  /\ marks \in [Keys -> Date]
  /\ upc \in [Threads -> {"idle", "load", "open", "write"}]
  /\ snap \in [Threads -> [Keys -> Date]]
  /\ item \in [Threads -> [key : Keys, date : Date]]
  /\ main \in {"idle", "session", "plan", "source", "derived", "cleanup",
               "metrics", "record", "close"}
  /\ run \in [target : Day, end : Day, skipping : BOOLEAN]
  /\ job \in [Jobs -> {"none", "planned", "skipped", "running", "refreshing",
                       "refreshed", "banking", "banked", "saving", "done", "failed"}]
  /\ completed \in [Keys -> SUBSET Day]
  /\ mixed \in BOOLEAN
  /\ left \in Nat

\* A date the state file records was completed by that key's work, whatever
\* updates were lost, torn, stale or cut off by a crash: what the races over
\* the file lose is progress, never the truth of what is left in it.
WatermarkSound ==
  \A k \in Keys : Loaded[k] # 0 => Loaded[k] \in completed[k]

\* A run leaves a job out only if the job was completed for that date or later.
SkippedIsCovered ==
  \A j \in Jobs : job[j] = "skipped" => \E d \in completed[j] : d >= EndOf(j)

\* No derived job works beside a source job, and nothing is cleaned up or
\* closed while a job of this run still works or has its date to record.
StagesInOrder ==
  /\ (\E j \in DerivedJobs : j \in Occupied) => \A j \in SourceJobs : Settled(j)
  /\ main \in {"cleanup", "metrics", "record", "close", "idle"} => Occupied = {}

\* At the end of a run every job that succeeded has its date in the file,
\* provided no two updates of the file overlapped, none was cut off, and none is
\* between its truncation and its write just now.
RecordedUnlessMixed ==
  main = "close" /\ ~mixed /\ (\A t \in Threads : upc[t] # "write") =>
    \A j \in Jobs : job[j] = "done" => Loaded[j] = EndOf(j)

\* The same without the proviso: what the scheduler's tests expect of a stage
\* that runs several jobs in parallel.
RecordedAfterSuccess ==
  main = "close" /\ (\A t \in Threads : upc[t] # "write") =>
    \A j \in Jobs : job[j] = "done" => Loaded[j] = EndOf(j)

\* Every run ends, by its finally or by being killed.
RunEnds == main # "idle" ~> main = "idle"
=============================================================================
