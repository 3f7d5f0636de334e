------------------------- MODULE EtlSchedulerProofs -------------------------
(***************************************************************************)
(* TLAPS proofs about EtlScheduler: its variables keep their types, and    *)
(* the state file never records a date whose work was not completed, for   *)
(* any jobs, days, number of workers and of runs, and whatever updates of  *)
(* the file overlap, fail or are cut off; the stages of a run stay apart;  *)
(* and what a run completed is recorded, unless such updates lost it.      *)
(***************************************************************************)
EXTENDS EtlScheduler, TLAPS

\* The strengthening: beside what the file holds, what every thread has loaded
\* and is about to write is the date of completed work, or no date.
MarksSound == \A k \in Keys : marks[k] # 0 => marks[k] \in completed[k]
SnapSound == \A t \in Threads, k \in Keys : snap[t][k] # 0 => snap[t][k] \in completed[k]
ItemSound == \A t \in Threads : upc[t] # "idle" => item[t].date \in completed[item[t].key]

WatermarkInv == TypeOK /\ MarksSound /\ SnapSound /\ ItemSound

LEMMA SchedulerKeys ==
  /\ Metrics \in Keys /\ {Refresh, Bank} \subseteq Keys /\ MacroJob \in Jobs
  /\ Jobs \subseteq Keys /\ Jobs \subseteq Threads
  /\ Main \in Threads /\ Backfill \in Threads
  /\ Main \notin Jobs /\ Backfill \notin Jobs /\ Main # Backfill
  /\ MaxStarts \in Nat
  /\ 0 \in Date /\ 1 \in Day /\ Day \subseteq Date /\ 0 \notin Day
BY SchedulerAssumption DEF Keys, Jobs, Threads, Date, Day

LEMMA NoMarksTyped == NoMarks \in [Keys -> Date] /\ \A k \in Keys : NoMarks[k] = 0
BY SchedulerKeys DEF NoMarks

LEMMA NoItemTyped == NoItem \in [key : Keys, date : Date]
BY SchedulerKeys DEF NoItem

LEMMA EndOfTyped == TypeOK => \A j \in Jobs : EndOf(j) \in Day
BY DEF TypeOK, EndOf

\* Recording work: the date joins the completed ones before it is written down.
LEMMA CompleteStep ==
  ASSUME NEW t \in Threads, NEW k \in Keys, NEW d \in Day, WatermarkInv,
         CompleteAndRecord(t, k, d), UNCHANGED <<file, snap>>
  PROVE  /\ upc' \in [Threads -> {"idle", "load", "open", "write"}]
         /\ item' \in [Threads -> [key : Keys, date : Date]]
         /\ completed' \in [Keys -> SUBSET Day]
         /\ MarksSound' /\ SnapSound' /\ ItemSound'
<1> USE SchedulerKeys DEF WatermarkInv, TypeOK, CompleteAndRecord, file
<1>1. \A key \in Keys : completed[key] \subseteq completed'[key]
  OBVIOUS
<1>2. MarksSound' /\ SnapSound'
  BY <1>1 DEF MarksSound, SnapSound
<1>3. ASSUME NEW u \in Threads, upc'[u] # "idle"
      PROVE  item'[u].date \in completed'[item'[u].key]
  <2>1. CASE u = t
    BY <2>1
  <2>2. CASE u # t
    BY <1>1, <1>3, <2>2 DEF ItemSound
  <2> QED
    BY <2>1, <2>2
<1>4. ItemSound'
  BY <1>3 DEF ItemSound
<1>5. /\ upc' \in [Threads -> {"idle", "load", "open", "write"}]
      /\ item' \in [Threads -> [key : Keys, date : Date]]
      /\ completed' \in [Keys -> SUBSET Day]
  OBVIOUS
<1> QED
  BY <1>2, <1>4, <1>5

\* What a thread does after its update, whether it was written or failed.
LEMMA AfterUpdateStep ==
  ASSUME NEW t \in Threads, NEW status, WatermarkInv,
         AfterUpdate(t, status), UNCHANGED completed
  PROVE  /\ upc' \in [Threads -> {"idle", "load", "open", "write"}]
         /\ snap' \in [Threads -> [Keys -> Date]]
         /\ item' \in [Threads -> [key : Keys, date : Date]]
         /\ main' \in {"idle", "session", "plan", "source", "derived", "cleanup",
                       "metrics", "record", "close"}
         /\ job' \in [Jobs -> {"none", "planned", "skipped", "running", "refreshing",
                              "refreshed", "banking", "banked", "saving", "done",
                              "failed"}]
         /\ SnapSound' /\ ItemSound'
<1> USE SchedulerKeys, NoMarksTyped, NoItemTyped DEF WatermarkInv, TypeOK, AfterUpdate
<1>1. SnapSound'
  BY DEF SnapSound
<1>2. ItemSound'
  BY DEF ItemSound
<1>3. job' \in [Jobs -> {"none", "planned", "skipped", "running", "refreshing",
                        "refreshed", "banking", "banked", "saving", "done", "failed"}]
  <2>1. CASE t \in Jobs
    BY <2>1
  <2>2. CASE t \notin Jobs
    BY <2>2
  <2> QED
    BY <2>1, <2>2
<1> QED
  BY <1>1, <1>2, <1>3

LEMMA LoadStep ==
  ASSUME NEW t \in Threads, WatermarkInv, Load(t) PROVE WatermarkInv'
<1> USE SchedulerKeys, NoMarksTyped DEF WatermarkInv, TypeOK, Load, file
<1>1. Loaded \in [Keys -> Date]
  BY DEF Loaded
<1>2. \A k \in Keys : Loaded[k] # 0 => Loaded[k] \in completed[k]
  BY DEF Loaded, MarksSound
<1>3. MarksSound' /\ ItemSound'
  BY DEF MarksSound, ItemSound
<1>4. SnapSound'
  BY <1>1, <1>2 DEF SnapSound
<1>5. TypeOK'
  BY <1>1
<1> QED
  BY <1>3, <1>4, <1>5

LEMMA OpenStep ==
  ASSUME NEW t \in Threads, WatermarkInv, Open(t) PROVE WatermarkInv'
<1> USE NoMarksTyped DEF WatermarkInv, Open, ghost
<1>1. MarksSound' /\ SnapSound' /\ ItemSound'
  BY DEF TypeOK, MarksSound, SnapSound, ItemSound
<1>2. TypeOK'
  BY DEF TypeOK
<1> QED
  BY <1>1, <1>2

\* The document that is written is sound: the key it sets names completed work,
\* and the rest was loaded.
LEMMA WriteStep ==
  ASSUME NEW t \in Threads, WatermarkInv, Write(t) PROVE WatermarkInv'
<1> DEFINE doc == Recorded(t)
<1>1. doc \in [Keys -> Date] /\ \A k \in Keys : doc[k] # 0 => doc[k] \in completed[k]
  BY DEF WatermarkInv, TypeOK, Write, Recorded, SnapSound, ItemSound
<1>2. completed' = completed /\ UNCHANGED <<run, mixed, left>>
  BY DEF Write, ghost
<1>3. text' \in {"json", "torn"} /\ (marks' = doc \/ marks' = NoMarks)
  BY DEF Write, WriteOver
<1>4. marks' \in [Keys -> Date] /\ MarksSound'
  BY <1>1, <1>2, <1>3, NoMarksTyped DEF MarksSound
<1>5. AfterUpdate(t, "written")
  BY DEF Write
<1> QED
  BY <1>2, <1>3, <1>4, <1>5, AfterUpdateStep DEF WatermarkInv, TypeOK

LEMMA UpdateFailsStep ==
  ASSUME NEW t \in Threads, WatermarkInv, UpdateFails(t) PROVE WatermarkInv'
<1>1. completed' = completed /\ UNCHANGED <<text, marks, run, left>> /\ mixed' \in BOOLEAN
  BY DEF UpdateFails, file, WatermarkInv, TypeOK
<1>2. AfterUpdate(t, "failed")
  BY DEF UpdateFails
<1>3. MarksSound'
  BY <1>1 DEF WatermarkInv, MarksSound
<1> QED
  BY <1>1, <1>2, <1>3, AfterUpdateStep DEF WatermarkInv, TypeOK

\* Steps of the run that neither touch the file nor an update in progress.
LEMMA QuietStep ==
  ASSUME WatermarkInv, TypeOK', UNCHANGED <<file, thread, completed>>
  PROVE  WatermarkInv'
BY DEF WatermarkInv, MarksSound, SnapSound, ItemSound, file, thread

LEMMA RunStep ==
  ASSUME WatermarkInv,
         StartRun \/ OpenSession \/ OpenSessionFails \/ PlanFails \/ PlanDone
           \/ StageDone \/ Cleanup \/ Close
  PROVE  WatermarkInv'
<1>1. UNCHANGED <<file, thread, completed>>
  BY DEF StartRun, OpenSession, OpenSessionFails, PlanFails, PlanDone, StageDone,
         Cleanup, Close, ghost
<1> USE DEF WatermarkInv, TypeOK, file, thread, ghost
<1>2. CASE StartRun
  <2>1. TypeOK'
    BY <1>2, SchedulerAssumption DEF StartRun
  <2> QED
    BY <1>1, <2>1, QuietStep
<1>3. CASE OpenSession \/ OpenSessionFails \/ PlanFails \/ PlanDone \/ StageDone \/ Cleanup
  <2>1. TypeOK'
    BY <1>3 DEF OpenSession, OpenSessionFails, PlanFails, PlanDone, StageDone, Cleanup
  <2> QED
    BY <1>1, <2>1, QuietStep
<1>4. CASE Close
  <2>1. TypeOK'
    BY <1>4 DEF Close
  <2> QED
    BY <1>1, <2>1, QuietStep
<1> QED
  BY <1>2, <1>3, <1>4

LEMMA JobsStep ==
  ASSUME NEW j \in Jobs, WatermarkInv, JobStep(j) PROVE WatermarkInv'
<1>1. CASE PlanJob(j) \/ StartJob(j) \/ RunnerRaises(j)
  <2>1. UNCHANGED <<file, thread, completed>>
    BY <1>1 DEF PlanJob, StartJob, RunnerRaises, ghost
  <2>2. TypeOK'
    BY <1>1 DEF PlanJob, StartJob, RunnerRaises, WatermarkInv, TypeOK, file, thread, ghost
  <2> QED
    BY <2>1, <2>2, QuietStep
<1>2. CASE RunnerReturns(j)
  <2>1. EndOf(j) \in Day /\ j \in Keys /\ j \in Threads
    BY EndOfTyped, SchedulerKeys DEF WatermarkInv
  <2>2. CompleteAndRecord(j, j, EndOf(j)) /\ UNCHANGED <<file, snap>>
    BY <1>2 DEF RunnerReturns
  <2> QED
    BY <1>2, <2>1, <2>2, CompleteStep DEF RunnerReturns, WatermarkInv, TypeOK, file
<1> QED
  BY <1>1, <1>2 DEF JobStep

LEMMA RefreshStep ==
  ASSUME WatermarkInv, RefreshMacro \/ RefreshWorldBank PROVE WatermarkInv'
<1>1. EndOf(MacroJob) \in Day /\ MacroJob \in Threads /\ {Refresh, Bank} \subseteq Keys
  BY EndOfTyped, SchedulerKeys DEF WatermarkInv
<1>2. CASE RefreshMacro
  BY <1>1, <1>2, CompleteStep DEF RefreshMacro, WatermarkInv, TypeOK, file
<1>3. CASE RefreshWorldBank
  BY <1>1, <1>3, CompleteStep DEF RefreshWorldBank, WatermarkInv, TypeOK, file
<1> QED
  BY <1>2, <1>3

LEMMA MetricsStep ==
  ASSUME WatermarkInv, RunMetrics PROVE WatermarkInv'
<1>1. CASE main' = "close" /\ UNCHANGED <<upc, item, completed>>
  <2>1. UNCHANGED <<file, thread, completed>> /\ TypeOK'
    BY <1>1 DEF RunMetrics, WatermarkInv, TypeOK, file, thread
  <2> QED
    BY <2>1, QuietStep
<1>2. CASE main' = "record" /\ CompleteAndRecord(Main, Metrics, run.end)
  <2>1. run.end \in Day /\ Main \in Threads /\ Metrics \in Keys
    BY SchedulerKeys DEF WatermarkInv, TypeOK
  <2>2. UNCHANGED <<file, snap>>
    BY DEF RunMetrics
  <2> QED
    BY <1>2, <2>1, <2>2, CompleteStep DEF RunMetrics, WatermarkInv, TypeOK, file
<1> QED
  BY <1>1, <1>2 DEF RunMetrics

LEMMA BackfillStep ==
  ASSUME WatermarkInv, BackfillMacro PROVE WatermarkInv'
<1>1. PICK k \in {Refresh, Bank}, d \in Day : CompleteAndRecord(Backfill, k, d)
  BY DEF BackfillMacro
<1>2. UNCHANGED <<file, snap>> /\ left' \in Nat
  BY DEF BackfillMacro, WatermarkInv, TypeOK
<1> QED
  BY <1>1, <1>2, SchedulerKeys, CompleteStep DEF BackfillMacro, WatermarkInv, TypeOK, file

LEMMA CrashStep ==
  ASSUME WatermarkInv, Crash PROVE WatermarkInv'
<1> USE NoMarksTyped, NoItemTyped DEF WatermarkInv, Crash, file, ghost
<1>1. TypeOK'
  BY DEF TypeOK
<1>2. MarksSound'
  BY DEF MarksSound
<1>3. SnapSound'
  BY DEF TypeOK, SnapSound
<1>4. ItemSound'
  BY DEF TypeOK, ItemSound
<1> QED
  BY <1>1, <1>2, <1>3, <1>4

LEMMA WatermarkInit == Init => WatermarkInv
<1> SUFFICES ASSUME Init PROVE WatermarkInv
  OBVIOUS
<1> USE SchedulerKeys, NoMarksTyped, NoItemTyped DEF Init
<1>1. TypeOK
  BY DEF TypeOK
<1>2. MarksSound /\ SnapSound /\ ItemSound
  BY DEF MarksSound, SnapSound, ItemSound
<1> QED
  BY <1>1, <1>2 DEF WatermarkInv

LEMMA WatermarkStep == WatermarkInv /\ [Next]_vars => WatermarkInv'
<1> SUFFICES ASSUME WatermarkInv, [Next]_vars PROVE WatermarkInv'
  OBVIOUS
<1>1. CASE UNCHANGED vars
  BY <1>1 DEF vars, file, thread, ghost, WatermarkInv, TypeOK,
              MarksSound, SnapSound, ItemSound
<1>2. CASE StartRun \/ OpenSessionFails \/ MainStep
  BY <1>2, RunStep, MetricsStep DEF MainStep
<1>3. CASE \E j \in Jobs : JobStep(j)
  BY <1>3, JobsStep
<1>4. CASE RefreshMacro \/ RefreshWorldBank \/ Crash \/ BackfillMacro
  BY <1>4, RefreshStep, CrashStep, BackfillStep
<1>5. CASE \E t \in Threads : UpdateStep(t)
  BY <1>5, LoadStep, OpenStep, WriteStep, UpdateFailsStep DEF UpdateStep
<1> QED
  BY <1>1, <1>2, <1>3, <1>4, <1>5 DEF Next

\* The state file's watermarks stay sound in every reachable state, together
\* with everything the threads hold that may still be written to it.
THEOREM WatermarkInvariant == Spec => []WatermarkInv
  BY WatermarkInit, WatermarkStep, PTL DEF Spec

\* Type correctness of the scheduler (etl/scheduler.py, etl/utils/state.py).
THEOREM SchedulerTypes == Spec => []TypeOK
<1>1. WatermarkInv => TypeOK
  BY DEF WatermarkInv
<1> QED
  BY <1>1, WatermarkInvariant, PTL

\* update_job_state is an unlocked read-modify-write; whatever it loses, a date
\* the file records was completed by that key's work.
THEOREM SchedulerWatermarkSound == Spec => []WatermarkSound
<1>1. WatermarkInv => WatermarkSound
  BY NoMarksTyped DEF WatermarkInv, WatermarkSound, MarksSound, Loaded
<1> QED
  BY <1>1, WatermarkInvariant, PTL

-----------------------------------------------------------------------------
(* Stages, and the jobs a run leaves out *)

\* Where run_once stands bounds what its jobs can be doing, and a thread updates
\* the state file only from the job, or the place of run_once, that called it.
StagePhases ==
  /\ main \in {"idle", "session"} => \A j \in Jobs : job[j] = "none"
  /\ main = "plan" => \A j \in Jobs : job[j] \in {"none", "planned", "skipped"}
  /\ main = "source" => \A j \in DerivedJobs : job[j] \in {"planned", "skipped"}
  /\ main = "derived" => \A j \in SourceJobs : Settled(j)
  /\ main \in {"cleanup", "metrics", "record", "close"} =>
       \A j \in Jobs : job[j] \notin Working

Callers ==
  /\ \A j \in Jobs : upc[j] # "idle" => job[j] \in {"refreshing", "banking", "saving"}
  /\ upc[Main] # "idle" => main = "record"

StageInv == WatermarkInv /\ StagePhases /\ Callers /\ SkippedIsCovered

LEMMA StageJobsSplit == Jobs = SourceJobs \cup DerivedJobs /\ SourceJobs \cap DerivedJobs = {}
BY SchedulerAssumption DEF Jobs

\* While no job is newly skipped and the run is the same one, completed dates
\* only accumulate and what was covered stays covered.
LEMMA CoveredStays ==
  ASSUME SkippedIsCovered, run' = run,
         \A k \in Keys : completed[k] \subseteq completed'[k],
         \A j \in Jobs : job'[j] = "skipped" => job[j] = "skipped"
  PROVE  SkippedIsCovered'
<1>1. \A j \in Jobs : EndOf(j)' = EndOf(j)
  BY DEF EndOf
<1> QED
  BY <1>1, SchedulerKeys DEF SkippedIsCovered

\* The stages around a job that changes from working to working or settled.
LEMMA WorkingJobStep ==
  ASSUME NEW t \in Jobs, StagePhases, job \in [Jobs -> {"none", "planned", "skipped",
           "running", "refreshing", "refreshed", "banking", "banked", "saving", "done",
           "failed"}],
         NEW s \in Working \cup {"done", "failed"},
         job[t] \in Working, job' = [job EXCEPT ![t] = s], main' = main
  PROVE  StagePhases'
BY StageJobsSplit DEF StagePhases, Settled, Working

\* The end of an update: the job that called it goes on or is settled, and
\* run_once goes on to close.
LEMMA AfterUpdateStages ==
  ASSUME NEW t \in Threads, NEW status, StageInv, upc[t] # "idle",
         AfterUpdate(t, status), UNCHANGED <<run, completed>>
  PROVE  StagePhases' /\ Callers' /\ SkippedIsCovered'
<1> USE SchedulerKeys
<1>0. TypeOK
  BY DEF StageInv, WatermarkInv
<1>1. CASE t \in Jobs
  <2>1. t # Main /\ main' = main
    BY <1>1 DEF AfterUpdate
  <2>2. job[t] \in {"refreshing", "banking", "saving"}
    BY <1>1 DEF StageInv, Callers
  <2>3. PICK s \in Working \cup {"done", "failed"} : job' = [job EXCEPT ![t] = s]
    BY <1>0, <1>1, <2>2 DEF AfterUpdate, TypeOK, Working
  <2>4. StagePhases'
    BY <1>0, <1>1, <2>1, <2>2, <2>3, WorkingJobStep DEF TypeOK, StageInv, Working
  <2>5. Callers'
    BY <1>0, <1>1, <2>1, <2>3 DEF AfterUpdate, TypeOK, StageInv, Callers
  <2>6. \A j \in Jobs : job'[j] = "skipped" => job[j] = "skipped"
    BY <1>0, <1>1, <2>3 DEF TypeOK, Working
  <2> QED
    BY <2>4, <2>5, <2>6, CoveredStays DEF StageInv
<1>2. CASE t = Main
  <2>1. main = "record" /\ main' = "close" /\ job' = job
    BY <1>2 DEF AfterUpdate, StageInv, Callers
  <2>2. StagePhases' /\ Callers'
    BY <1>0, <1>2, <2>1 DEF AfterUpdate, TypeOK, StageInv, StagePhases, Callers
  <2> QED
    BY <2>1, <2>2, CoveredStays DEF StageInv
<1>3. CASE t = Backfill
  <2>1. main' = main /\ job' = job
    BY <1>3 DEF AfterUpdate
  <2>2. StagePhases' /\ Callers'
    BY <1>0, <1>3, <2>1 DEF AfterUpdate, TypeOK, StageInv, StagePhases, Callers, Settled
  <2> QED
    BY <2>1, <2>2, CoveredStays DEF StageInv
<1> QED
  BY <1>1, <1>2, <1>3 DEF Threads

LEMMA UpdateStages ==
  ASSUME NEW t \in Threads, StageInv, UpdateStep(t)
  PROVE  StagePhases' /\ Callers' /\ SkippedIsCovered'
<1> USE SchedulerKeys
<1>1. CASE Load(t) \/ Open(t)
  <2>1. UNCHANGED <<main, job, run, completed>> /\ upc[t] # "idle"
        /\ upc' = [upc EXCEPT ![t] = upc'[t]]
    BY <1>1 DEF Load, Open, ghost, StageInv, WatermarkInv, TypeOK
  <2>2. StagePhases' /\ Callers'
    BY <2>1 DEF StageInv, WatermarkInv, TypeOK, StagePhases, Callers, Settled
  <2> QED
    BY <2>1, <2>2, CoveredStays DEF StageInv
<1>2. CASE Write(t)
  BY <1>2, AfterUpdateStages DEF Write, ghost
<1>3. CASE UpdateFails(t)
  BY <1>3, AfterUpdateStages DEF UpdateFails
<1> QED
  BY <1>1, <1>2, <1>3 DEF UpdateStep

\* A job is skipped only on a date of the file, which is the date of completed work.
LEMMA PlanJobStages ==
  ASSUME NEW j \in Jobs, StageInv, PlanJob(j)
  PROVE  StagePhases' /\ Callers' /\ SkippedIsCovered'
<1> USE SchedulerKeys
<1>0. TypeOK /\ UNCHANGED <<file, thread, main, run, completed>> /\ main = "plan"
  BY DEF StageInv, WatermarkInv, PlanJob, ghost
<1>1. PICK healthy \in BOOLEAN :
        job' = [job EXCEPT ![j] = IF CoveredBy(j, EndOf(j), healthy)
                                    THEN "skipped" ELSE "planned"]
  BY DEF PlanJob
<1>2. StagePhases'
  BY <1>0, <1>1 DEF TypeOK, StageInv, StagePhases, Settled, Working
<1>3. Callers'
  BY <1>0, <1>1 DEF TypeOK, StageInv, StagePhases, Callers, PlanJob, thread
<1>4. WatermarkSound
  BY NoMarksTyped DEF StageInv, WatermarkInv, WatermarkSound, MarksSound, Loaded
<1>5. CoveredBy(j, EndOf(j), TRUE) \/ CoveredBy(j, EndOf(j), FALSE)
        => \E d \in completed[j] : d >= EndOf(j)
  BY <1>4 DEF CoveredBy, WatermarkSound
<1>6. \A i \in Jobs : EndOf(i)' = EndOf(i)
  BY <1>0 DEF EndOf
<1>7. SkippedIsCovered'
  <2> SUFFICES ASSUME NEW i \in Jobs, job'[i] = "skipped"
               PROVE  \E d \in completed[i] : d >= EndOf(i)
    BY <1>0, <1>6 DEF SkippedIsCovered
  <2>1. CASE i = j
    <3>1. CoveredBy(j, EndOf(j), healthy)
      BY <1>0, <1>1, <2>1 DEF TypeOK
    <3> QED
      BY <1>5, <2>1, <3>1
  <2>2. CASE i # j
    BY <1>0, <1>1, <2>2 DEF TypeOK, StageInv, SkippedIsCovered
  <2> QED
    BY <2>1, <2>2
<1> QED
  BY <1>2, <1>3, <1>7

LEMMA JobStages ==
  ASSUME NEW j \in Jobs, StageInv,
         JobStep(j) \/ (j = MacroJob /\ (RefreshMacro \/ RefreshWorldBank))
  PROVE  StagePhases' /\ Callers' /\ SkippedIsCovered'
<1> USE SchedulerKeys
<1>0. TypeOK
  BY DEF StageInv, WatermarkInv
<1>1. CASE PlanJob(j)
  BY <1>1, PlanJobStages
<1>2. CASE StartJob(j)
  <2>1. UNCHANGED <<main, upc, run, completed>> /\ job' = [job EXCEPT ![j] = "running"]
        /\ j \in StageJobs /\ job[j] = "planned"
    BY <1>2 DEF StartJob, ghost, thread
  <2>2. StagePhases'
    BY <1>0, <2>1, StageJobsSplit DEF TypeOK, StageInv, StagePhases, StageJobs, Settled, Working
  <2>3. Callers'
    BY <1>0, <2>1 DEF TypeOK, StageInv, Callers
  <2>4. \A i \in Jobs : job'[i] = "skipped" => job[i] = "skipped"
    BY <1>0, <2>1 DEF TypeOK
  <2> QED
    BY <2>1, <2>2, <2>3, <2>4, CoveredStays DEF StageInv
<1>3. CASE RunnerReturns(j) \/ RunnerRaises(j)
           \/ (j = MacroJob /\ (RefreshMacro \/ RefreshWorldBank))
  <2>1. job[j] \in Working /\ main' = main /\ run' = run
    BY <1>3 DEF RunnerReturns, RunnerRaises, RefreshMacro, RefreshWorldBank, Fetching, Working
  <2>2. PICK s \in {"saving", "failed", "refreshing", "banking"} :
          /\ job' = [job EXCEPT ![j] = s]
          /\ s # "failed" => \E u \in {"load"} : upc' = [upc EXCEPT ![j] = u]
          /\ s = "failed" => upc' = upc
    BY <1>3 DEF RunnerReturns, RunnerRaises, RefreshMacro, RefreshWorldBank,
                CompleteAndRecord, thread
  <2>3. StagePhases'
    BY <1>0, <2>1, <2>2, WorkingJobStep DEF TypeOK, StageInv, Working
  <2>4. job[j] \notin {"refreshing", "banking", "saving"}
    BY <1>3 DEF RunnerReturns, RunnerRaises, RefreshMacro, RefreshWorldBank, Fetching
  <2>5. Callers'
    BY <1>0, <2>1, <2>2, <2>4 DEF TypeOK, StageInv, Callers
  <2>6. \A k \in Keys : completed[k] \subseteq completed'[k]
    BY <1>0, <1>3 DEF RunnerReturns, RunnerRaises, RefreshMacro, RefreshWorldBank,
                      CompleteAndRecord, ghost, TypeOK
  <2>7. \A i \in Jobs : job'[i] = "skipped" => job[i] = "skipped"
    BY <1>0, <2>2 DEF TypeOK
  <2> QED
    BY <2>1, <2>3, <2>5, <2>6, <2>7, CoveredStays DEF StageInv
<1> QED
  BY <1>1, <1>2, <1>3 DEF JobStep

\* The steps of run_once itself, its death, and the manual scripts.
LEMMA MainStages ==
  ASSUME StageInv,
         StartRun \/ OpenSessionFails \/ MainStep \/ Crash \/ BackfillMacro
  PROVE  StagePhases' /\ Callers' /\ SkippedIsCovered'
<1> USE SchedulerKeys, StageJobsSplit
<1>0. TypeOK
  BY DEF StageInv, WatermarkInv
<1>1. CASE StartRun
  <2>1. \A j \in Jobs : job'[j] = "none"
    BY <1>1 DEF StartRun, StageInv, StagePhases
  <2> QED
    BY <1>1, <2>1 DEF StartRun, StageInv, StagePhases, Callers, SkippedIsCovered, thread
<1>2. CASE OpenSession \/ OpenSessionFails \/ PlanFails \/ PlanDone \/ StageDone \/ Cleanup
  <2>1. UNCHANGED <<upc, job, run, completed>> /\ main # "record"
    BY <1>2 DEF OpenSession, OpenSessionFails, PlanFails, PlanDone, StageDone, Cleanup,
                thread, ghost
  <2>2. Callers'
    BY <2>1 DEF StageInv, Callers
  <2>3. ASSUME OpenSession \/ OpenSessionFails \/ PlanFails \/ Cleanup
        PROVE  StagePhases'
    BY <2>1, <2>3 DEF OpenSession, OpenSessionFails, PlanFails, Cleanup,
                      StageInv, StagePhases, Working, Settled
  <2>4. ASSUME PlanDone PROVE StagePhases'
    BY <1>0, <2>1, <2>4 DEF TypeOK, PlanDone, StageInv, StagePhases, Working, Settled
  <2>5. ASSUME StageDone PROVE StagePhases'
    BY <1>0, <2>1, <2>5 DEF StageDone, StageInv, StagePhases, StageJobs, Working, Settled
  <2> QED
    BY <1>2, <2>1, <2>2, <2>3, <2>4, <2>5, CoveredStays DEF StageInv
<1>3. CASE RunMetrics
  <2>1. UNCHANGED <<job, run>> /\ main = "metrics"
    BY <1>3 DEF RunMetrics
  <2>3. \A k \in Keys : completed[k] \subseteq completed'[k]
    <3>1. completed' = completed
          \/ completed' = [completed EXCEPT ![Metrics] = completed[Metrics] \cup {run.end}]
      BY <1>3 DEF RunMetrics, CompleteAndRecord
    <3> QED
      BY <1>0, <3>1 DEF TypeOK
  <2>2. StagePhases' /\ Callers'
    BY <1>0, <1>3, <2>1 DEF RunMetrics, CompleteAndRecord, TypeOK, StageInv, StagePhases, Callers
  <2> QED
    BY <2>1, <2>2, <2>3, CoveredStays DEF StageInv
<1>4. CASE Close \/ Crash
  <2>1. main' = "idle" /\ (\A j \in Jobs : job'[j] = "none")
    BY <1>4 DEF Close, Crash
  <2>2. \A t \in Jobs \cup {Main} : upc'[t] = "idle"
    BY <1>0, <1>4 DEF Close, Crash, thread, TypeOK, StageInv, StagePhases, Callers, Working
  <2> QED
    BY <2>1, <2>2 DEF StagePhases, Callers, SkippedIsCovered
<1>5. CASE BackfillMacro
  <2>1. UNCHANGED <<job, run, main>> /\ \A t \in Jobs \cup {Main} : upc'[t] = upc[t]
        /\ \A k \in Keys : completed[k] \subseteq completed'[k]
    BY <1>0, <1>5 DEF BackfillMacro, CompleteAndRecord, TypeOK
  <2>2. StagePhases' /\ Callers'
    BY <2>1 DEF StageInv, StagePhases, Callers, Settled
  <2> QED
    BY <2>1, <2>2, CoveredStays DEF StageInv
<1> QED
  BY <1>1, <1>2, <1>3, <1>4, <1>5 DEF MainStep

\* What the stages and the skipped jobs rest on, in every reachable state.
THEOREM StageInvariant == Spec => []StageInv
<1>1. Init => StageInv
  BY WatermarkInit, SchedulerKeys DEF Init, StageInv, StagePhases, Callers, SkippedIsCovered
<1>2. StageInv /\ [Next]_vars => StageInv'
  <2> SUFFICES ASSUME StageInv, [Next]_vars PROVE StageInv'
    OBVIOUS
  <2>1. WatermarkInv'
    BY WatermarkStep DEF StageInv
  <2>2. CASE UNCHANGED vars
    BY <2>1, <2>2 DEF vars, thread, ghost, StageInv, StagePhases, Callers, Settled,
                      SkippedIsCovered, EndOf
  <2>3. CASE StartRun \/ OpenSessionFails \/ MainStep \/ Crash \/ BackfillMacro
    BY <2>1, <2>3, MainStages DEF StageInv
  <2>4. CASE (\E j \in Jobs : JobStep(j)) \/ RefreshMacro \/ RefreshWorldBank
    BY <2>1, <2>4, JobStages, SchedulerKeys DEF StageInv
  <2>5. CASE \E t \in Threads : UpdateStep(t)
    BY <2>1, <2>5, UpdateStages DEF StageInv
  <2> QED
    BY <2>2, <2>3, <2>4, <2>5 DEF Next
<1> QED
  BY <1>1, <1>2, PTL DEF Spec

\* _should_skip_job leaves out only work that was done, whatever the file lost.
THEOREM SchedulerSkippedIsCovered == Spec => []SkippedIsCovered
<1>1. StageInv => SkippedIsCovered
  BY DEF StageInv
<1> QED
  BY <1>1, StageInvariant, PTL

\* _run_job_stage's executor keeps the stages apart, and run_once neither cleans
\* up nor closes beside a job that works.
THEOREM SchedulerStagesInOrder == Spec => []StagesInOrder
<1>1. StageInv => StagesInOrder
  BY StageJobsSplit DEF StageInv, WatermarkInv, TypeOK, StagePhases, StagesInOrder,
                        Occupied, Working, Settled
<1> QED
  BY <1>1, StageInvariant, PTL

-----------------------------------------------------------------------------
(***************************************************************************)
(* At the end of a run the date of every job that succeeded is in the      *)
(* state file, unless two updates of the file overlapped in that run or    *)
(* one was cut off after it had truncated the file.                        *)
(***************************************************************************)

\* A job that saves is about to record its own date; every other update is of a
\* key that no job has.
ItemsOwn ==
  \A t \in Threads : upc[t] # "idle" =>
    IF t \in Jobs /\ job[t] = "saving"
    THEN item[t].key = t /\ item[t].date = EndOf(t)
    ELSE item[t].key \notin Jobs

\* At most one update is past its load; until it opens the file it holds what is
\* there, and after that the file is blank and the update holds what was there.
OneUpdate == \A t, u \in Threads : Midway(t) /\ Midway(u) => t = u
OpenHolds == \A t \in Threads : upc[t] = "open" => snap[t] = Loaded
WriteHolds == \A t \in Threads : upc[t] = "write" => text = "blank" /\ marks = NoMarks
DoneHeld ==
  \A j \in Jobs : job[j] = "done" =>
    /\ (\A t \in Threads : upc[t] # "write") => Loaded[j] = EndOf(j)
    /\ \A t \in Threads : upc[t] = "write" => snap[t][j] = EndOf(j)

FileHeld == OneUpdate /\ OpenHolds /\ WriteHolds /\ DoneHeld

LEMMA KeysApart == Metrics \notin Jobs /\ Refresh \notin Jobs /\ Bank \notin Jobs
BY SchedulerAssumption

LEMMA SameRunSameEnds == run' = run => \A j \in Jobs : EndOf(j)' = EndOf(j)
BY DEF EndOf

-----------------------------------------------------------------------------
(* What is about to be recorded *)

\* An update goes on, or ends.
LEMMA UpdateItems ==
  ASSUME NEW t \in Threads, StageInv, ItemsOwn, UpdateStep(t) PROVE ItemsOwn'
<1>0. TypeOK
  BY DEF StageInv, WatermarkInv
<1>1. CASE Load(t) \/ Open(t)
  <2>1. UNCHANGED <<item, job, run>> /\ \A u \in Threads : upc'[u] # "idle" => upc[u] # "idle"
    BY <1>0, <1>1 DEF Load, Open, TypeOK
  <2> QED
    BY <2>1, SameRunSameEnds DEF ItemsOwn
<1>2. CASE Write(t) \/ UpdateFails(t)
  <2>1. /\ run' = run /\ upc'[t] = "idle"
        /\ \A u \in Threads : u # t => upc'[u] = upc[u] /\ item'[u] = item[u]
        /\ \A j \in Jobs : j # t => job'[j] = job[j]
    BY <1>0, <1>2 DEF Write, UpdateFails, AfterUpdate, TypeOK
  <2> QED
    BY <2>1, SameRunSameEnds DEF ItemsOwn
<1> QED
  BY <1>1, <1>2 DEF UpdateStep

\* A thread has completed work and begins an update.
LEMMA CompleteItems ==
  ASSUME NEW t \in Threads, NEW k, NEW d, TypeOK, ItemsOwn, CompleteAndRecord(t, k, d), run' = run,
         \A j \in Jobs : j # t => job'[j] = job[j],
         IF t \in Jobs /\ job'[t] = "saving" THEN k = t /\ d = EndOf(t) ELSE k \notin Jobs
  PROVE  ItemsOwn'
<1>1. item'[t].key = k /\ item'[t].date = d
  BY DEF CompleteAndRecord, TypeOK
<1>2. \A u \in Threads : u # t => upc'[u] = upc[u] /\ item'[u] = item[u]
  BY DEF CompleteAndRecord, TypeOK
<1> QED
  BY <1>1, <1>2, SameRunSameEnds DEF ItemsOwn

LEMMA JobItems ==
  ASSUME NEW j \in Jobs, StageInv, ItemsOwn,
         JobStep(j) \/ (j = MacroJob /\ (RefreshMacro \/ RefreshWorldBank))
  PROVE  ItemsOwn'
<1> USE SchedulerKeys
<1>0. TypeOK
  BY DEF StageInv, WatermarkInv
<1>1. CASE PlanJob(j) \/ StartJob(j) \/ RunnerRaises(j)
  <2>1. /\ UNCHANGED <<upc, item, run>>
        /\ job'[j] # "saving" /\ \A i \in Jobs : i # j => job'[i] = job[i]
    BY <1>0, <1>1 DEF PlanJob, StartJob, RunnerRaises, thread, TypeOK
  <2>2. upc[j] = "idle"
    BY <1>0, <1>1 DEF PlanJob, StartJob, RunnerRaises, Fetching, StageInv, Callers
  <2> QED
    BY <2>1, <2>2, SameRunSameEnds DEF ItemsOwn
<1>2. CASE RunnerReturns(j)
  <2>1. /\ CompleteAndRecord(j, j, EndOf(j)) /\ run' = run
        /\ \A i \in Jobs : i # j => job'[i] = job[i]
        /\ job'[j] = "saving"
    BY <1>0, <1>2 DEF RunnerReturns, TypeOK
  <2> QED
    BY <1>0, <2>1, CompleteItems
<1>3. CASE j = MacroJob /\ (RefreshMacro \/ RefreshWorldBank)
  <2>1. PICK k \in {Refresh, Bank} :
          /\ CompleteAndRecord(MacroJob, k, EndOf(MacroJob)) /\ run' = run
          /\ \A i \in Jobs : i # MacroJob => job'[i] = job[i]
          /\ job'[MacroJob] # "saving"
    BY <1>0, <1>3 DEF RefreshMacro, RefreshWorldBank, TypeOK
  <2> QED
    BY <1>0, <2>1, CompleteItems, KeysApart
<1> QED
  BY <1>1, <1>2, <1>3 DEF JobStep

LEMMA MainItems ==
  ASSUME StageInv, ItemsOwn,
         StartRun \/ OpenSessionFails \/ MainStep \/ Crash \/ BackfillMacro
  PROVE  ItemsOwn'
<1> USE SchedulerKeys
<1>0. TypeOK
  BY DEF StageInv, WatermarkInv
<1>1. CASE StartRun
  <2>1. \A j \in Jobs : job'[j] # "saving" /\ job[j] # "saving"
    BY <1>1 DEF StartRun, StageInv, StagePhases
  <2> QED
    BY <1>1, <2>1 DEF StartRun, thread, ItemsOwn
<1>2. CASE OpenSession \/ OpenSessionFails \/ PlanFails \/ PlanDone \/ StageDone \/ Cleanup
  <2>1. UNCHANGED <<upc, item, job, run>>
    BY <1>2 DEF OpenSession, OpenSessionFails, PlanFails, PlanDone, StageDone, Cleanup, thread
  <2> QED
    BY <2>1, SameRunSameEnds DEF ItemsOwn
<1>3. CASE RunMetrics
  <2>1. CASE UNCHANGED <<upc, item>>
    BY <1>3, <2>1, SameRunSameEnds DEF RunMetrics, ItemsOwn
  <2>2. CASE CompleteAndRecord(Main, Metrics, run.end)
    BY <1>0, <1>3, <2>2, CompleteItems, KeysApart DEF RunMetrics
  <2> QED
    BY <1>3, <2>1, <2>2 DEF RunMetrics
<1>4. CASE Close \/ Crash
  <2>1. \A t \in Threads : upc'[t] # "idle" => t \notin Jobs /\ upc[t] # "idle" /\ item'[t] = item[t]
    BY <1>0, <1>4 DEF Close, Crash, thread, TypeOK, StageInv, StagePhases, Callers, Working
  <2> QED
    BY <2>1 DEF ItemsOwn
<1>5. CASE BackfillMacro
  <2>1. PICK k \in {Refresh, Bank}, d \in Day : CompleteAndRecord(Backfill, k, d)
    BY <1>5 DEF BackfillMacro
  <2> QED
    BY <1>0, <1>5, <2>1, CompleteItems, KeysApart DEF BackfillMacro
<1> QED
  BY <1>1, <1>2, <1>3, <1>4, <1>5 DEF MainStep

-----------------------------------------------------------------------------
(* What the file and the update under way hold *)

\* Nothing of the file and of the updates changes, and no job is newly done.
LEMMA QuietHeld ==
  ASSUME FileHeld, UNCHANGED <<file, run>>,
         \A t \in Threads : Midway(t)' => Midway(t) /\ upc'[t] = upc[t] /\ snap'[t] = snap[t],
         \A t \in Threads : upc[t] = "write" => upc'[t] = "write" \/ \A j \in Jobs : job'[j] # "done",
         \A j \in Jobs : job'[j] = "done" => job[j] = "done"
  PROVE  FileHeld'
<1>1. Loaded' = Loaded
  BY DEF Loaded, file
<1>2. OneUpdate'
  BY DEF FileHeld, OneUpdate
<1>3. OpenHolds'
  BY <1>1 DEF FileHeld, OpenHolds, Midway
<1>4. WriteHolds'
  BY DEF FileHeld, WriteHolds, Midway, file
<1>5. DoneHeld'
  BY <1>1, SameRunSameEnds DEF FileHeld, DoneHeld, Midway
<1> QED
  BY <1>2, <1>3, <1>4, <1>5 DEF FileHeld

LEMMA LoadHeld ==
  ASSUME NEW t \in Threads, TypeOK, FileHeld, Load(t), ~mixed' PROVE FileHeld'
<1>1. /\ \A u \in Threads : ~Midway(u)
      /\ UNCHANGED <<file, run, job>>
      /\ \A u \in Threads : u # t => upc'[u] = upc[u] /\ snap'[u] = snap[u]
      /\ upc'[t] = "open" /\ snap'[t] = Loaded
  BY DEF Load, TypeOK
<1>2. Loaded' = Loaded
  BY <1>1 DEF Loaded, file
<1>3. OneUpdate' /\ OpenHolds' /\ WriteHolds'
  BY <1>1, <1>2 DEF OneUpdate, OpenHolds, WriteHolds, Midway
<1>4. DoneHeld'
  BY <1>1, <1>2, SameRunSameEnds DEF FileHeld, DoneHeld, Midway
<1> QED
  BY <1>3, <1>4 DEF FileHeld

LEMMA OpenHeld ==
  ASSUME NEW t \in Threads, TypeOK, FileHeld, Open(t) PROVE FileHeld'
<1>1. /\ UNCHANGED <<run, job, snap>> /\ upc[t] = "open" /\ snap[t] = Loaded
      /\ upc'[t] = "write" /\ text' = "blank" /\ marks' = NoMarks
      /\ \A u \in Threads : u # t => upc'[u] = upc[u] /\ upc[u] \notin {"open", "write"}
  BY DEF Open, TypeOK, FileHeld, OneUpdate, OpenHolds, Midway
<1>2. OneUpdate' /\ OpenHolds' /\ WriteHolds'
  BY <1>1 DEF OneUpdate, OpenHolds, WriteHolds, Midway
<1>3. \A j \in Jobs : job[j] = "done" => snap[t][j] = EndOf(j)
  BY <1>1 DEF FileHeld, DoneHeld
<1>4. DoneHeld'
  BY <1>1, <1>3, SameRunSameEnds DEF DoneHeld
<1> QED
  BY <1>2, <1>4 DEF FileHeld

LEMMA WriteHeld ==
  ASSUME NEW t \in Threads, StageInv, ItemsOwn, FileHeld, Write(t) PROVE FileHeld'
<1> USE SchedulerKeys
<1>0. TypeOK
  BY DEF StageInv, WatermarkInv
<1>1. /\ run' = run /\ upc[t] = "write" /\ upc'[t] = "idle" /\ text = "blank" /\ marks = NoMarks
      /\ \A u \in Threads : u # t => upc'[u] = upc[u] /\ upc[u] \notin {"open", "write"}
  BY <1>0 DEF Write, AfterUpdate, TypeOK, FileHeld, OneUpdate, WriteHolds, Midway
<1>2. text' = "json" /\ marks' = Recorded(t)
  <2>1. Named(marks) = {}
    BY <1>1, NoMarksTyped DEF Named
  <2> QED
    BY <1>1, <2>1 DEF Write, WriteOver
<1>3. OneUpdate' /\ OpenHolds' /\ WriteHolds'
  BY <1>1 DEF OneUpdate, OpenHolds, WriteHolds, Midway
<1>4. Loaded' = [snap[t] EXCEPT ![item[t].key] = item[t].date]
  BY <1>2 DEF Loaded, Recorded
<1>5. ASSUME NEW j \in Jobs, job'[j] = "done" PROVE Loaded'[j] = EndOf(j)
  <2>1. CASE j = t
    <3>1. job[t] = "saving"
      BY <1>0, <1>1, <1>5, <2>1 DEF Write, AfterUpdate, TypeOK, StageInv, Callers
    <3>2. item[t].key = t /\ item[t].date = EndOf(t)
      BY <1>1, <2>1, <3>1 DEF ItemsOwn
    <3> QED
      BY <1>0, <1>4, <2>1, <3>2 DEF TypeOK
  <2>2. CASE j # t
    <3>1. job[j] = "done"
      BY <1>0, <1>5, <2>2 DEF Write, AfterUpdate, TypeOK
    <3>2. item[t].key # j
      BY <1>1, <2>2 DEF ItemsOwn
    <3>3. snap[t][j] = EndOf(j)
      BY <1>1, <3>1 DEF FileHeld, DoneHeld
    <3> QED
      BY <1>0, <1>4, <3>2, <3>3 DEF TypeOK
  <2> QED
    BY <2>1, <2>2
<1>6. DoneHeld'
  BY <1>1, <1>5, SameRunSameEnds DEF DoneHeld
<1> QED
  BY <1>3, <1>6 DEF FileHeld

\* An update that fails before it truncates the file leaves it as it was.
LEMMA FailHeld ==
  ASSUME NEW t \in Threads, StageInv, FileHeld, UpdateFails(t), ~mixed' PROVE FileHeld'
<1>0. TypeOK
  BY DEF StageInv, WatermarkInv
<1>1. /\ UNCHANGED <<file, run>> /\ upc[t] # "write" /\ upc'[t] = "idle"
      /\ \A u \in Threads : u # t => upc'[u] = upc[u] /\ snap'[u] = snap[u]
  BY <1>0 DEF UpdateFails, AfterUpdate, TypeOK
<1>2. \A j \in Jobs : job'[j] = "done" => job[j] = "done"
  BY <1>0 DEF UpdateFails, AfterUpdate, TypeOK
<1> QED
  BY <1>1, <1>2, QuietHeld DEF Midway

LEMMA JobHeld ==
  ASSUME NEW j \in Jobs, StageInv, FileHeld,
         JobStep(j) \/ (j = MacroJob /\ (RefreshMacro \/ RefreshWorldBank))
  PROVE  FileHeld'
<1> USE SchedulerKeys
<1>0. TypeOK
  BY DEF StageInv, WatermarkInv
<1>1. UNCHANGED <<file, run, snap>> /\ \A i \in Jobs : job'[i] = "done" => job[i] = "done"
  BY <1>0 DEF JobStep, PlanJob, StartJob, RunnerRaises, RunnerReturns, RefreshMacro,
              RefreshWorldBank, thread, TypeOK
<1>2. \/ upc' = upc
      \/ upc[j] = "idle" /\ upc' = [upc EXCEPT ![j] = "load"]
  BY <1>0 DEF JobStep, PlanJob, StartJob, RunnerRaises, RunnerReturns, RefreshMacro, RefreshWorldBank,
              CompleteAndRecord, Fetching, thread, StageInv, Callers
<1>3. \A t \in Threads : (upc'[t] = "open" <=> upc[t] = "open") /\ (upc'[t] = "write" <=> upc[t] = "write")
  BY <1>0, <1>2 DEF TypeOK
<1> QED
  BY <1>1, <1>3, QuietHeld DEF Midway

LEMMA MainHeld ==
  ASSUME StageInv, ~mixed => FileHeld, ~mixed',
         StartRun \/ OpenSessionFails \/ MainStep \/ Crash \/ BackfillMacro
  PROVE  FileHeld'
<1> USE SchedulerKeys
<1>0. TypeOK
  BY DEF StageInv, WatermarkInv
<1>1. CASE StartRun
  <2>1. \A t \in Threads : upc'[t] \notin {"open", "write"}
    BY <1>1 DEF StartRun, thread, Midway
  <2>2. \A j \in Jobs : job'[j] # "done"
    BY <1>1 DEF StartRun, StageInv, StagePhases
  <2> QED
    BY <2>1, <2>2 DEF FileHeld, OneUpdate, OpenHolds, WriteHolds, DoneHeld, Midway
<1>2. CASE OpenSession \/ OpenSessionFails \/ PlanFails \/ PlanDone \/ StageDone \/ Cleanup \/ Close \/ Crash
  <2>1. FileHeld /\ UNCHANGED <<file, run>>
    BY <1>2 DEF OpenSession, OpenSessionFails, PlanFails, PlanDone, StageDone, Cleanup, Close, Crash, ghost
  <2>2. \A j \in Jobs : job'[j] = "done" => job[j] = "done"
    BY <1>2 DEF OpenSession, OpenSessionFails, PlanFails, PlanDone, StageDone, Cleanup, Close, Crash
  <2>3. \A t \in Threads : Midway(t)' => Midway(t) /\ upc'[t] = upc[t] /\ snap'[t] = snap[t]
    BY <1>0, <1>2 DEF OpenSession, OpenSessionFails, PlanFails, PlanDone, StageDone, Cleanup, Close, Crash,
                      thread, Midway, TypeOK
  <2>4. upc' = upc \/ \A j \in Jobs : job'[j] # "done"
    BY <1>2 DEF OpenSession, OpenSessionFails, PlanFails, PlanDone, StageDone, Cleanup, Close, Crash, thread
  <2> QED
    BY <2>1, <2>2, <2>3, <2>4, QuietHeld
<1>3. CASE RunMetrics \/ BackfillMacro
  <2>1. FileHeld /\ UNCHANGED <<file, run, snap, job>>
    BY <1>3 DEF RunMetrics, BackfillMacro
  <2>2. PICK t \in {Main, Backfill} :
          upc' = upc \/ (upc[t] = "idle" /\ upc' = [upc EXCEPT ![t] = "load"])
    BY <1>3 DEF RunMetrics, BackfillMacro, CompleteAndRecord, StageInv, Callers
  <2>3. \A u \in Threads : (upc'[u] = "open" <=> upc[u] = "open") /\ (upc'[u] = "write" <=> upc[u] = "write")
    BY <1>0, <2>2 DEF TypeOK
  <2> QED
    BY <2>1, <2>3, QuietHeld DEF Midway
<1> QED
  BY <1>1, <1>2, <1>3 DEF MainStep

-----------------------------------------------------------------------------

\* What the file, the updates and the jobs of a run agree on, in every reachable
\* state.
THEOREM RecordInvariant == Spec => [](ItemsOwn /\ (~mixed => FileHeld))
<1> DEFINE Inv == ItemsOwn /\ (~mixed => FileHeld)
<1>1. Init => Inv
  BY DEF Init, ItemsOwn, FileHeld, OneUpdate, OpenHolds, WriteHolds, DoneHeld, Midway
<1>2. StageInv /\ Inv /\ [Next]_vars => Inv'
  <2> SUFFICES ASSUME StageInv, ItemsOwn, ~mixed => FileHeld, [Next]_vars
               PROVE  ItemsOwn' /\ (~mixed' => FileHeld')
    OBVIOUS
  <2>1. CASE UNCHANGED vars
    BY <2>1 DEF vars, file, thread, ghost, ItemsOwn, FileHeld, OneUpdate, OpenHolds, WriteHolds,
                DoneHeld, Midway, EndOf, Loaded
  <2>2. CASE StartRun \/ OpenSessionFails \/ MainStep \/ Crash \/ BackfillMacro
    BY <2>2, MainItems, MainHeld
  <2>3. CASE (\E j \in Jobs : JobStep(j)) \/ RefreshMacro \/ RefreshWorldBank
    <3>1. mixed' = mixed
      BY <2>3 DEF JobStep, PlanJob, StartJob, RunnerRaises, RunnerReturns, RefreshMacro,
                  RefreshWorldBank, ghost
    <3> QED
      BY <2>3, <3>1, JobItems, JobHeld, SchedulerKeys
  <2>4. CASE \E t \in Threads : UpdateStep(t)
    <3>1. PICK t \in Threads : UpdateStep(t)
      BY <2>4
    <3>2. mixed => mixed'
      BY <3>1 DEF UpdateStep, Load, Open, Write, UpdateFails, ghost
    <3>3. TypeOK
      BY DEF StageInv, WatermarkInv
    <3>4. ~mixed' => FileHeld'
      BY <3>1, <3>2, <3>3, LoadHeld, OpenHeld, WriteHeld, FailHeld DEF UpdateStep
    <3> QED
      BY <3>1, <3>4, UpdateItems
  <2> QED
    BY <2>1, <2>2, <2>3, <2>4 DEF Next
<1> QED
  BY <1>1, <1>2, StageInvariant, PTL DEF Spec

\* update_job_state loses no date of a job that succeeded, as long as the updates
\* of a run neither overlap nor are cut off.
THEOREM SchedulerRecordedUnlessMixed == Spec => []RecordedUnlessMixed
<1>1. ItemsOwn /\ (~mixed => FileHeld) => RecordedUnlessMixed
  BY DEF FileHeld, DoneHeld, RecordedUnlessMixed
<1> QED
  BY <1>1, RecordInvariant, PTL
=============================================================================
