--------------------------- MODULE EtlLockProofs ---------------------------
(***************************************************************************)
(* The lock file's safety properties, for every set of pids.  The          *)
(* inductive invariant is LockInv: types, and OverlapFree unless an        *)
(* overlap is being lived through.                                         *)
(***************************************************************************)
EXTENDS EtlLock, TLAPS

USE DEF Goto, Alive, InAcquire, Inside, Busy, Acquiring, Working, Control

\* The constants a lock file can hold are neither pids nor one another.
LEMMA LockValues ==
  /\ None \notin Proc /\ Absent \notin Proc /\ Empty \notin Proc /\ Garbled \notin Proc
  /\ Absent # Empty /\ Absent # Garbled /\ Empty # Garbled
  BY LockValuesAssumption

\* The types are preserved by every step, whatever else holds.
LEMMA TypeStep == TypeOK /\ [Next]_vars => TypeOK'
<1> SUFFICES ASSUME TypeOK, [Next]_vars PROVE TypeOK'
  OBVIOUS
<1> USE LockValues DEF TypeOK
<1>1. CASE UNCHANGED vars
  BY <1>1 DEF vars
<1>2. ASSUME NEW p \in Proc, Start(p) \/ Reuse(p) PROVE TypeOK'
  BY <1>2 DEF Start, Reuse
<1>3. ASSUME NEW p \in Proc, Die(p) PROVE TypeOK'
  BY <1>3 DEF Die, RacedAfterLeaving
<1>4. ASSUME NEW p \in Proc, CheckExists(p) \/ ReadPayload(p) PROVE TypeOK'
  BY <1>4 DEF CheckExists, ReadPayload
<1>5. ASSUME NEW p \in Proc, ProbeOwner(p) PROVE TypeOK'
  BY <1>5 DEF ProbeOwner, RacedAfterLeaving
<1>6. ASSUME NEW p \in Proc, UnlinkStale(p) \/ OpenLock(p) PROVE TypeOK'
  BY <1>6 DEF UnlinkStale, OpenLock
<1>7. ASSUME NEW p \in Proc, WriteLock(p) \/ WriteLockFails(p) PROVE TypeOK'
  BY <1>7 DEF WriteLock, WriteLockFails
<1>8. ASSUME NEW p \in Proc, EndWork(p) \/ ReleaseCheck(p) \/ ReleaseUnlink(p)
      PROVE TypeOK'
  BY <1>8 DEF EndWork, ReleaseCheck, ReleaseUnlink, RacedAfterLeaving
<1> QED
  BY <1>1, <1>2, <1>3, <1>4, <1>5, <1>6, <1>7, <1>8 DEF Next, Step

\* Once the last process leaves run_once there is nothing left to overlap: a
\* state in which nobody is busy is overlap free.
LEMMA QuietIsOverlapFree == (\A q \in Proc : ~Busy(q)) => OverlapFree
  BY DEF OverlapFree

\* A step that leaves run_once keeps the invariant: either somebody else is
\* still in it and the flag stays, or nobody is.
LEMMA LeavingStep ==
  ASSUME NEW p \in Proc, LockInv, TypeOK', ~Busy(p)',
         \A q \in Proc \ {p} : pc'[q] = pc[q],
         raced' = RacedAfterLeaving(p),
         OverlapFree => OverlapFree'
  PROVE  LockInv'
<1>1. CASE raced /\ \E q \in Proc \ {p} : Busy(q)
  BY <1>1 DEF LockInv, RacedAfterLeaving
<1>2. CASE raced /\ ~\E q \in Proc \ {p} : Busy(q)
  <2>1. \A q \in Proc : ~Busy(q)'
    BY <1>2
  <2> QED
    BY <2>1, QuietIsOverlapFree DEF LockInv, OverlapFree
<1>3. CASE ~raced
  BY <1>3 DEF LockInv
<1> QED
  BY <1>1, <1>2, <1>3 DEF LockInv, TypeOK

LEMMA LockStep == LockInv /\ [Next]_vars => LockInv'
<1> SUFFICES ASSUME LockInv, [Next]_vars PROVE LockInv'
  OBVIOUS
<1>0. TypeOK /\ TypeOK'
  BY TypeStep DEF LockInv
<1> USE LockValues
<1>1. CASE UNCHANGED vars
  BY <1>0, <1>1 DEF vars, LockInv, OverlapFree
<1>2. ASSUME NEW p \in Proc, Start(p) PROVE LockInv'
  <2>1. CASE raced \/ \E q \in Proc : InAcquire(q)
    <3>1. raced'
      BY <1>2, <2>1 DEF Start
    <3> QED
      BY <1>0, <3>1 DEF LockInv
  <2>2. CASE ~raced /\ ~\E q \in Proc : InAcquire(q)
    <3>1. OverlapFree
      BY <2>2 DEF LockInv
    <3>2. OverlapFree'
      BY <1>0, <1>2, <2>2, <3>1 DEF Start, OverlapFree, TypeOK
    <3> QED
      BY <1>0, <3>2 DEF LockInv
  <2> QED
    BY <2>1, <2>2
<1>3. ASSUME NEW p \in Proc, Reuse(p) PROVE LockInv'
  BY <1>0, <1>3 DEF Reuse, LockInv, OverlapFree, TypeOK
<1>4. ASSUME NEW p \in Proc, Die(p) PROVE LockInv'
  <2>1. OverlapFree => OverlapFree'
    BY <1>0, <1>4 DEF Die, OverlapFree, TypeOK
  <2> QED
    BY <1>0, <1>4, <2>1, LeavingStep DEF Die, TypeOK
<1>5. ASSUME NEW p \in Proc, CheckExists(p) PROVE LockInv'
  BY <1>0, <1>5 DEF CheckExists, LockInv, OverlapFree, TypeOK
<1>6. ASSUME NEW p \in Proc, ReadPayload(p) PROVE LockInv'
  BY <1>0, <1>6 DEF ReadPayload, LockInv, OverlapFree, TypeOK
<1>7. ASSUME NEW p \in Proc, ProbeOwner(p) PROVE LockInv'
  <2>1. OverlapFree => OverlapFree'
    BY <1>0, <1>7 DEF ProbeOwner, OverlapFree, TypeOK
  <2>2. CASE seen[p] # None /\ Alive(seen[p])
    BY <1>0, <1>7, <2>1, <2>2, LeavingStep DEF ProbeOwner, TypeOK
  <2>3. CASE ~(seen[p] # None /\ Alive(seen[p]))
    BY <1>0, <1>7, <2>1, <2>3 DEF ProbeOwner, LockInv
  <2> QED
    BY <2>2, <2>3
<1>8. ASSUME NEW p \in Proc, UnlinkStale(p) PROVE LockInv'
  BY <1>0, <1>8 DEF UnlinkStale, LockInv, OverlapFree, TypeOK
<1>9. ASSUME NEW p \in Proc, OpenLock(p) PROVE LockInv'
  BY <1>0, <1>9 DEF OpenLock, LockInv, OverlapFree, TypeOK
<1>10. ASSUME NEW p \in Proc, WriteLock(p) PROVE LockInv'
  BY <1>0, <1>10 DEF WriteLock, LockInv, OverlapFree, TypeOK
<1>11. ASSUME NEW p \in Proc, WriteLockFails(p) PROVE LockInv'
  BY <1>0, <1>11 DEF WriteLockFails, LockInv
<1>12. ASSUME NEW p \in Proc, EndWork(p) PROVE LockInv'
  BY <1>0, <1>12 DEF EndWork, LockInv, OverlapFree, TypeOK
<1>13. ASSUME NEW p \in Proc, ReleaseCheck(p) PROVE LockInv'
  <2>1. OverlapFree => OverlapFree'
    BY <1>0, <1>13 DEF ReleaseCheck, OverlapFree, TypeOK
  <2>2. CASE lock = Absent
    BY <1>0, <1>13, <2>1, <2>2, LeavingStep DEF ReleaseCheck, TypeOK
  <2>3. CASE lock # Absent
    BY <1>0, <1>13, <2>1, <2>3 DEF ReleaseCheck, LockInv
  <2> QED
    BY <2>2, <2>3
<1>14. ASSUME NEW p \in Proc, ReleaseUnlink(p) PROVE LockInv'
  <2>1. OverlapFree => OverlapFree'
    BY <1>0, <1>14 DEF ReleaseUnlink, OverlapFree, TypeOK
  <2> QED
    BY <1>0, <1>14, <2>1, LeavingStep DEF ReleaseUnlink, TypeOK
<1> QED
  BY <1>1, <1>2, <1>3, <1>4, <1>5, <1>6, <1>7, <1>8, <1>9, <1>10, <1>11,
     <1>12, <1>13, <1>14 DEF Next, Step

\* The inductive invariant of the lock file.
THEOREM LockInvariant == Spec => []LockInv
<1>1. Init => LockInv
  BY LockValues DEF Init, LockInv, TypeOK, OverlapFree
<1> QED
  BY <1>1, LockStep, PTL DEF Spec

\* Every variable of the lock model keeps its type (scheduler.py:108-142).
THEOREM LockTypes == Spec => []TypeOK
<1>1. LockInv => TypeOK
  BY DEF LockInv
<1> QED
  BY <1>1, LockInvariant, PTL

\* _acquire_lock admits one run at a time unless two acquisitions overlap or the
\* file cannot be written, for any number of processes, crashes and reused pids.
THEOREM LockMutualExclusion == Spec => []MutualExclusionUnlessRaced
<1>1. LockInv => MutualExclusionUnlessRaced
  BY DEF LockInv, OverlapFree, MutualExclusionUnlessRaced
<1> QED
  BY <1>1, LockInvariant, PTL

\* The lock file carries the pid of the working run, so nobody unlinks or
\* overwrites a live run's lock unless two acquisitions overlapped.
THEOREM LockIsTheWorkers == Spec => []WorkerOwnsFile
<1>1. LockInv => WorkerOwnsFile
  BY DEF LockInv, OverlapFree, WorkerOwnsFile
<1> QED
  BY <1>1, LockInvariant, PTL
=============================================================================
