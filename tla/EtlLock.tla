------------------------------- MODULE EtlLock -------------------------------
(***************************************************************************)
(* The lock file of the ETL scheduler (etl/scheduler.py): run_once calls   *)
(* _acquire_lock, works, and calls _release_lock in its outer finally.     *)
(* A process is named by its pid, so a pid that a later process reuses is  *)
(* the same element of Proc.  Every file-system call is a step of its own. *)
(* os.kill(pid, 0) is taken to answer truthfully (POSIX, one user).        *)
(***************************************************************************)
CONSTANTS
  Proc,     \* the pids
  None,     \* no pid in the payload that was read
  Absent,   \* the lock file does not exist
  Empty,    \* it was truncated by open("w") and not written yet
  Garbled,  \* two writers left bytes that are not one JSON document
  WritesFail \* whether the disk may refuse the lock file

ASSUME LockValuesAssumption ==
  /\ {None, Absent, Empty, Garbled} \cap Proc = {}
  /\ Absent # Empty /\ Absent # Garbled /\ Empty # Garbled
  /\ WritesFail \in BOOLEAN

VARIABLES
  lock,     \* what is at LOCK_PATH: a pid, or one of the three constants
  pc,       \* where each process stands in run_once
  seen,     \* the pid each process parsed from the payload
  linked,   \* processes whose open file is the one at LOCK_PATH
  raced     \* history: an acquisition overlapped another or left no file

vars == <<lock, pc, seen, linked, raced>>

Acquiring == {"exists", "read", "probe", "unlink", "create", "write"}
Working == {"running", "release", "unlinkOwn"}

\* "none": no process has this pid.  "other": the process that has it is not in
\* run_once (it returned from it, or it is an unrelated program).
Control == {"none", "other"} \cup Acquiring \cup Working

Alive(p) == pc[p] # "none"
InAcquire(p) == pc[p] \in Acquiring
Inside(p) == pc[p] \in Working
Busy(p) == InAcquire(p) \/ Inside(p)

\* The history flag is forgotten once no process is in run_once any more.
RacedAfterLeaving(p) == raced /\ \E q \in Proc \ {p} : Busy(q)

Goto(p, l) == pc' = [pc EXCEPT ![p] = l]

Init ==
  /\ lock = Absent
  /\ pc = [p \in Proc |-> "none"]
  /\ seen = [p \in Proc |-> None]
  /\ linked = {}
  /\ raced = FALSE

-----------------------------------------------------------------------------
(* Processes come and go *)

\* A process starts and calls run_once.
Start(p) ==
  /\ pc[p] = "none"
  /\ Goto(p, "exists")
  /\ raced' = (raced \/ \E q \in Proc : InAcquire(q))
  /\ UNCHANGED <<lock, seen, linked>>

\* The operating system gives the pid to an unrelated program.
Reuse(p) ==
  /\ pc[p] = "none"
  /\ Goto(p, "other")
  /\ UNCHANGED <<lock, seen, linked, raced>>

\* The process exits, or is killed at any point of run_once: no finally runs.
Die(p) ==
  /\ Alive(p)
  /\ Goto(p, "none")
  /\ seen' = [seen EXCEPT ![p] = None]
  /\ linked' = linked \ {p}
  /\ raced' = RacedAfterLeaving(p)
  /\ UNCHANGED lock

-----------------------------------------------------------------------------
(* _acquire_lock *)

\* Mutant: the existence check is dropped.
CheckExistsBlind(p) ==
  /\ pc[p] = "exists"
  /\ Goto(p, "create")
  /\ UNCHANGED <<lock, seen, linked, raced>>

CheckExists(p) ==
  /\ pc[p] = "exists"
  /\ Goto(p, IF lock = Absent THEN "create" ELSE "read")
  /\ UNCHANGED <<lock, seen, linked, raced>>

\* A file that is gone, empty or not JSON raises, and the payload is {}.
ReadPayload(p) ==
  /\ pc[p] = "read"
  /\ seen' = [seen EXCEPT ![p] = IF lock \in Proc THEN lock ELSE None]
  /\ Goto(p, "probe")
  /\ UNCHANGED <<lock, linked, raced>>

\* Mutant: a payload with a pid is refused whether or not the process lives.
ProbeOwnerAnyPid(p) ==
  /\ pc[p] = "probe"
  /\ IF seen[p] # None
       THEN Goto(p, "other") /\ raced' = RacedAfterLeaving(p)
       ELSE Goto(p, "unlink") /\ UNCHANGED raced
  /\ seen' = [seen EXCEPT ![p] = None]
  /\ UNCHANGED <<lock, linked>>

\* The owner lives: run_once returns at once.  Otherwise the lock is stale.
ProbeOwner(p) ==
  /\ pc[p] = "probe"
  /\ IF seen[p] # None /\ Alive(seen[p])
       THEN Goto(p, "other") /\ raced' = RacedAfterLeaving(p)
       ELSE Goto(p, "unlink") /\ UNCHANGED raced
  /\ seen' = [seen EXCEPT ![p] = None]
  /\ UNCHANGED <<lock, linked>>

\* The unlink of a stale lock; its failure is swallowed.
UnlinkStale(p) ==
  /\ pc[p] = "unlink"
  /\ \/ lock' = Absent /\ linked' = {}
     \/ UNCHANGED <<lock, linked>>
  /\ Goto(p, "create")
  /\ UNCHANGED <<seen, raced>>

\* write_text opens the file: it is created, or truncated if it is there.
OpenLock(p) ==
  /\ pc[p] = "create"
  /\ lock' = Empty
  /\ linked' = linked \cup {p}
  /\ Goto(p, "write")
  /\ UNCHANGED <<seen, raced>>

\* write_text writes the payload over what the file holds.  A shorter payload
\* leaves a tail of a longer one; a file unlinked since it was opened is lost.
WriteLock(p) ==
  /\ pc[p] = "write"
  /\ IF p \notin linked THEN UNCHANGED lock
     ELSE lock' \in (IF lock = Empty THEN {p} ELSE {p, Garbled})
  /\ linked' = linked \ {p}
  /\ Goto(p, "running")
  /\ UNCHANGED <<seen, raced>>

\* write_text raises: _acquire_lock returns True all the same.
WriteLockFails(p) ==
  /\ WritesFail
  /\ pc[p] \in {"create", "write"}
  /\ linked' = linked \ {p}
  /\ Goto(p, "running")
  /\ raced' = TRUE
  /\ UNCHANGED <<lock, seen>>

-----------------------------------------------------------------------------
(* run_once's body ends, normally or with an exception, and _release_lock *)

EndWork(p) ==
  /\ pc[p] = "running"
  /\ Goto(p, "release")
  /\ UNCHANGED <<lock, seen, linked, raced>>

ReleaseCheck(p) ==
  /\ pc[p] = "release"
  /\ IF lock = Absent
       THEN Goto(p, "other") /\ raced' = RacedAfterLeaving(p)
       ELSE Goto(p, "unlinkOwn") /\ UNCHANGED raced
  /\ UNCHANGED <<lock, seen, linked>>

\* The file is unlinked whoever owns it; a failure is swallowed.
ReleaseUnlink(p) ==
  /\ pc[p] = "unlinkOwn"
  /\ \/ lock' = Absent /\ linked' = {}
     \/ UNCHANGED <<lock, linked>>
  /\ Goto(p, "other")
  /\ raced' = RacedAfterLeaving(p)
  /\ UNCHANGED seen

-----------------------------------------------------------------------------
Step(p) ==
  \/ CheckExists(p)
  \/ ReadPayload(p)
  \/ ProbeOwner(p)
  \/ UnlinkStale(p)
  \/ OpenLock(p)
  \/ WriteLock(p)
  \/ WriteLockFails(p)
  \/ EndWork(p)
  \/ ReleaseCheck(p)
  \/ ReleaseUnlink(p)

Next == \E p \in Proc : Start(p) \/ Reuse(p) \/ Die(p) \/ Step(p)

Spec == Init /\ [][Next]_vars

\* A living process keeps running; runs keep being started by the operator's
\* timetable; and a run is not killed, nor refused by the disk, at the same
\* step every time.
Fairness ==
  /\ WF_vars(\E p \in Proc : Start(p))
  /\ \A p \in Proc :
       /\ WF_vars(Step(p))
       /\ SF_vars(CheckExists(p))
       /\ SF_vars(ReadPayload(p))
       /\ SF_vars(ProbeOwner(p))
       /\ SF_vars(UnlinkStale(p))
       /\ SF_vars(OpenLock(p))

FairSpec == Spec /\ Fairness

-----------------------------------------------------------------------------
(* Properties *)

TypeOK ==
  /\ lock \in Proc \cup {Absent, Empty, Garbled}
  /\ pc \in [Proc -> Control]
  /\ seen \in [Proc -> Proc \cup {None}]
  /\ linked \subseteq Proc
  /\ raced \in BOOLEAN

\* What the proofs show to be inductive.  Without an overlap at most one process
\* acquires and at most one works; the file is the worker's; a process that
\* acquires beside a worker has not got past the probe of the worker's pid; and
\* the file that is being written is the one at LOCK_PATH.
OverlapFree ==
  /\ \A p, q \in Proc : InAcquire(p) /\ InAcquire(q) => p = q
  /\ \A p, q \in Proc : Inside(p) /\ Inside(q) => p = q
  /\ \A p \in Proc : Inside(p) => lock = p
  /\ \A p, q \in Proc :
       Inside(p) /\ InAcquire(q) =>
         \/ pc[q] \in {"exists", "read"}
         \/ pc[q] = "probe" /\ seen[q] = p
  /\ \A p \in Proc : pc[p] = "write" => p \in linked /\ lock = Empty

LockInv == TypeOK /\ (raced \/ OverlapFree)

\* Two processes work at the same time only while an overlap of two
\* _acquire_lock calls, or a lock file that could not be written, is being
\* lived through: stale locks, crashes, reused pids, swallowed unlink failures
\* and the release by path never let a second run in by themselves.
MutualExclusionUnlessRaced ==
  ~raced => \A p, q \in Proc : Inside(p) /\ Inside(q) => p = q

\* As long as no such overlap happened, the file at LOCK_PATH carries the pid of
\* the process that works, so a later run always finds it there and alive.
WorkerOwnsFile == ~raced => \A p \in Proc : Inside(p) => lock = p

\* What TECHNICAL_DOC.md says of the file: it prevents repeated runs.
NoDuplicateRuns == \A p, q \in Proc : Inside(p) /\ Inside(q) => p = q

\* A lock left by a process that is gone does not shut the scheduler out: some
\* later run replaces it, unless its pid is in use again.
StaleLockReplaced ==
  \A p \in Proc : (lock = p /\ ~Alive(p)) ~> (lock # p \/ Alive(p))
=============================================================================
