------------------------------ MODULE ApiProofs -----------------------------
(***************************************************************************)
(* TLAPS proofs about the parts of the API in MCApi, for any threads, keys *)
(* and rows.  A part's invariant is shown for the part's own module; what  *)
(* the run checks follows because a behaviour stays with one part.         *)
(***************************************************************************)
EXTENDS MCApi, FiniteSetTheorems, SequenceTheorems, TLAPS

-----------------------------------------------------------------------------
(* The parts *)

\* A step of a behaviour is a step of its part.
LEMMA PartStep ==
  ASSUME [ApiNext]_allVars
  PROVE  /\ part' = part
         /\ part = "refresh" => [Next]_vars
         /\ part = "profile" => [Profile!Next]_(Profile!vars)
         /\ part = "answers" => [Answers!Next]_(Answers!vars)
         /\ part = "pages" => [Pages!Next]_(Pages!vars)
         /\ part = "users" => [Users!Next]_(Users!vars)
         /\ part = "pool" => [Pool!Next]_(Pool!vars)
         /\ part = "tables" => [Tables!Next]_(Tables!vars)
         /\ part = "runs" => [Backtests!Next]_(Backtests!vars)
BY DEF ApiNext, allVars, vars, Profile!vars, Answers!vars, Pages!vars, Users!vars, Pool!vars, Tables!vars,
       Backtests!vars

-----------------------------------------------------------------------------
(* Background work *)

Jobs == [keys : SUBSET Keys, over : BOOLEAN]
RefreshTypes == TypeOK /\ jobs \in Seq(Jobs)

\* Who holds a key: a request about to hand it over, a job, or nobody any more.
HeldByCaller(k) == \E c \in Callers : caller[c].at = "claimed" /\ k \in caller[c].keys
HeldByJob(k) == \E i \in DOMAIN jobs : k \in jobs[i].keys

\* ClaimsBacked, key by key.
OneHolder ==
  /\ \A k \in Keys : k \in claimed <=> k \in leaked \/ HeldByCaller(k) \/ HeldByJob(k)
  /\ \A c \in Callers : caller[c].at = "claimed" =>
       /\ \A k \in caller[c].keys : k \notin leaked /\ ~HeldByJob(k)
       /\ \A d \in Callers : d # c /\ caller[d].at = "claimed" => caller[c].keys \cap caller[d].keys = {}
  /\ \A i \in DOMAIN jobs :
       /\ \A k \in jobs[i].keys : k \notin leaked
       /\ \A j \in DOMAIN jobs : j # i => jobs[i].keys \cap jobs[j].keys = {}

LEMMA OneHolderBacks == ASSUME RefreshTypes PROVE OneHolder <=> ClaimsBacked
<1>1. ASSUME NEW k PROVE k \in UNION {caller[c].keys : c \in Claimers} <=> HeldByCaller(k)
  BY DEF Claimers, HeldByCaller
<1>2. ASSUME NEW k PROVE k \in UNION {jobs[i].keys : i \in DOMAIN jobs} <=> HeldByJob(k)
  BY DEF HeldByJob
<1>3. \A k : HeldByCaller(k) \/ HeldByJob(k) \/ k \in claimed \/ k \in leaked => k \in Keys
  BY DEF RefreshTypes, TypeOK, Jobs, HeldByCaller, HeldByJob
<1>4. (\A k \in Keys : k \in claimed <=> k \in leaked \/ HeldByCaller(k) \/ HeldByJob(k))
        <=> claimed = leaked \cup (UNION {caller[c].keys : c \in Claimers})
                             \cup (UNION {jobs[i].keys : i \in DOMAIN jobs})
  BY <1>1, <1>2, <1>3
<1>5. \A c \in Callers : c \in Claimers <=> caller[c].at = "claimed"
  BY DEF Claimers
<1>6. Claimers \subseteq Callers
  BY DEF Claimers
<1>7. ASSUME NEW c \in Callers, NEW A, NEW B
      PROVE  A \cap B = {} <=> \A k \in A : k \notin B
  OBVIOUS
<1>8. ASSUME NEW c \in Callers
      PROVE  (\A k \in caller[c].keys : k \notin leaked /\ ~HeldByJob(k))
               <=> /\ caller[c].keys \cap leaked = {}
                   /\ \A i \in DOMAIN jobs : caller[c].keys \cap jobs[i].keys = {}
  BY DEF HeldByJob
<1>9. ASSUME NEW i \in DOMAIN jobs
      PROVE  (\A k \in jobs[i].keys : k \notin leaked) <=> jobs[i].keys \cap leaked = {}
  OBVIOUS
<1>10. ASSUME NEW c \in Callers
       PROVE  (\A d \in Callers : d # c /\ caller[d].at = "claimed" => caller[c].keys \cap caller[d].keys = {})
                <=> \A d \in Claimers \ {c} : caller[c].keys \cap caller[d].keys = {}
  BY <1>5, <1>6
<1>11. ASSUME NEW i \in DOMAIN jobs
       PROVE  (\A j \in DOMAIN jobs : j # i => jobs[i].keys \cap jobs[j].keys = {})
                <=> \A j \in DOMAIN jobs \ {i} : jobs[i].keys \cap jobs[j].keys = {}
  OBVIOUS
<1> HIDE DEF HeldByCaller, HeldByJob
<1> QED
  BY <1>4, <1>5, <1>6, <1>8, <1>9, <1>10, <1>11, Zenon DEF OneHolder, ClaimsBacked

LEMMA RemovedAt ==
  ASSUME NEW S, NEW s \in Seq(S), NEW i \in DOMAIN s
  PROVE  /\ RemoveAt(s, i) \in Seq(S)
         /\ Len(RemoveAt(s, i)) = Len(s) - 1
         /\ \A j \in 1..(Len(s) - 1) :
              RemoveAt(s, i)[j] = IF j < i THEN s[j] ELSE s[j + 1]
<1> DEFINE a == SubSeq(s, 1, i - 1)
           b == SubSeq(s, i + 1, Len(s))
<1>1. i \in 1..Len(s) /\ Len(s) \in Nat /\ \A j \in 1..Len(s) : s[j] \in S
  OBVIOUS
<1>2. /\ a \in Seq(S) /\ Len(a) = i - 1
      /\ \A j \in 1..(i - 1) : a[j] = s[j]
  <2>1. 1 \in Int /\ i - 1 \in Int /\ \A j \in 1..(i - 1) : s[j] \in S
    BY <1>1
  <2>2. /\ SubSeq(s, 1, i - 1) \in Seq(S)
        /\ Len(SubSeq(s, 1, i - 1)) = IF 1 <= i - 1 THEN i - 1 - 1 + 1 ELSE 0
        /\ \A j \in 1..(i - 1 - 1 + 1) : SubSeq(s, 1, i - 1)[j] = s[1 + j - 1]
    BY <2>1, SubSeqProperties
  <2> QED
    BY <1>1, <2>2
<1>3. /\ b \in Seq(S) /\ Len(b) = Len(s) - i
      /\ \A j \in 1..(Len(s) - i) : b[j] = s[i + j]
  <2>1. i + 1 \in Int /\ Len(s) \in Int /\ \A j \in (i + 1)..Len(s) : s[j] \in S
    BY <1>1
  <2>2. /\ SubSeq(s, i + 1, Len(s)) \in Seq(S)
        /\ Len(SubSeq(s, i + 1, Len(s))) = IF i + 1 <= Len(s) THEN Len(s) - (i + 1) + 1 ELSE 0
        /\ \A j \in 1..(Len(s) - (i + 1) + 1) : SubSeq(s, i + 1, Len(s))[j] = s[i + 1 + j - 1]
    BY <2>1, SubSeqProperties
  <2> QED
    BY <1>1, <2>2
<1> HIDE DEF a, b
<1>4. /\ a \o b \in Seq(S) /\ Len(a \o b) = Len(a) + Len(b)
      /\ \A j \in 1..(Len(a) + Len(b)) : (a \o b)[j] = IF j <= Len(a) THEN a[j] ELSE b[j - Len(a)]
  BY <1>2, <1>3, ConcatProperties
<1>5. ASSUME NEW j \in 1..(Len(s) - 1) PROVE (a \o b)[j] = IF j < i THEN s[j] ELSE s[j + 1]
  <2>1. (a \o b)[j] = IF j <= i - 1 THEN a[j] ELSE b[j - (i - 1)]
    <3>1. Len(a) = i - 1 /\ j \in 1..(Len(a) + Len(b))
      BY <1>1, <1>2, <1>3
    <3> QED
      BY <1>4, <3>1
  <2>2. CASE j < i
    BY <1>1, <1>2, <2>1, <2>2
  <2>3. CASE ~(j < i)
    <3>1. j - (i - 1) \in 1..(Len(s) - i) /\ i + (j - (i - 1)) = j + 1 /\ ~(j <= i - 1)
      BY <1>1, <2>3
    <3>2. b[j - (i - 1)] = s[i + (j - (i - 1))]
      BY <1>3, <3>1
    <3> QED
      BY <2>1, <2>3, <3>1, <3>2
  <2> QED
    BY <2>2, <2>3
<1>6. RemoveAt(s, i) = a \o b
  BY DEF RemoveAt, a, b
<1>7. Len(a \o b) = Len(s) - 1
  BY <1>1, <1>2, <1>3, <1>4
<1> QED
  BY <1>4, <1>5, <1>6, <1>7

LEMMA InSeq == ASSUME NEW S, NEW s \in Seq(S) PROVE \A i \in DOMAIN s : s[i] \in S
OBVIOUS

\* What each action leaves: handing over, refusal, loss and release of keys.
LEMMA RefreshTypesStep == ASSUME RefreshTypes, [Next]_vars PROVE RefreshTypes'
<1> USE DEF RefreshTypes, TypeOK, Jobs
<1>1. CASE UNCHANGED vars
  BY <1>1 DEF vars
<1>2. ASSUME NEW c \in Callers, NEW keys \in SUBSET Keys, Claim(c, keys)
      PROVE  claimed' \subseteq Keys
             /\ caller' \in [Callers -> [at : {"idle", "claimed", "loading", "backfilling"}, keys : SUBSET Keys]]
  BY <1>2 DEF Claim, Goes
<1>3. ASSUME NEW c \in Callers, NEW k \in Keys,
             WantProfile(c, k) \/ ServeStale(c, k) \/ Miss(c, k) \/ WantBackfill(c, k)
      PROVE  RefreshTypes'
  <2>1. {k} \in SUBSET Keys
    OBVIOUS
  <2>2. CASE Miss(c, k)
    BY <2>1, <2>2 DEF Miss, Goes
  <2>3. CASE WantBackfill(c, k) /\ ~Claim(c, {k})
    BY <2>1, <2>3 DEF WantBackfill, Goes
  <2> QED
    BY <1>2, <1>3, <2>1, <2>2, <2>3 DEF WantProfile, ServeStale, WantBackfill
<1>4. ASSUME NEW c \in Callers, NEW keys \in SUBSET Keys, WantBasics(c, keys) PROVE RefreshTypes'
  BY <1>2, <1>4 DEF WantBasics
<1>5. ASSUME NEW c \in Callers, Loaded(c) \/ Backfilled(c) \/ SubmitRaises(c) \/ StartRaises(c)
      PROVE  RefreshTypes'
  <2>1. caller[c].keys \in SUBSET Keys
    OBVIOUS
  <2>2. caller' \in [Callers -> [at : {"idle", "claimed", "loading", "backfilling"}, keys : SUBSET Keys]]
    BY <1>5 DEF Loaded, Backfilled, SubmitRaises, StartRaises, Goes
  <2>3. value' \in [Keys -> {"none", "fresh", "stale", "unstamped"}]
    BY <1>5 DEF Loaded, Backfilled, SubmitRaises, StartRaises, Refreshed
  <2>4. rows' \subseteq Keys /\ claimed' \subseteq Keys /\ leaked' \subseteq Keys /\ UNCHANGED <<kind, jobs>>
    BY <1>5, <2>1 DEF Loaded, Backfilled, SubmitRaises, StartRaises
  <2> QED
    BY <2>2, <2>3, <2>4
<1>6. ASSUME NEW c \in Callers, HandOver(c) PROVE RefreshTypes'
  <2>1. [keys |-> caller[c].keys, over |-> FALSE] \in Jobs
    OBVIOUS
  <2>2. jobs' \in Seq(Jobs)
    BY <1>6, <2>1 DEF HandOver
  <2>3. \A i \in DOMAIN jobs' : jobs'[i] \in Jobs
    BY <2>2, InSeq
  <2> QED
    BY <1>6, <2>2, <2>3 DEF HandOver, Goes
<1>7. ASSUME NEW i \in DOMAIN jobs, Work(i) PROVE RefreshTypes'
  <2>0. [jobs[i] EXCEPT !.over = TRUE] \in Jobs /\ i \in 1..Len(jobs)
    <3>1. jobs[i] \in [keys : SUBSET Keys, over : BOOLEAN]
      OBVIOUS
    <3>2. [jobs[i] EXCEPT !.over = TRUE] \in [keys : SUBSET Keys, over : BOOLEAN]
      BY <3>1
    <3> HIDE DEF TypeOK, Jobs
    <3> QED
      BY <3>2 DEF Jobs
  <2>1. jobs' \in Seq(Jobs)
    <3>1. jobs' = [jobs EXCEPT ![i] = [jobs[i] EXCEPT !.over = TRUE]]
      BY <1>7 DEF Work
    <3> HIDE DEF Jobs
    <3> QED
      BY <2>0, <3>1, ExceptSeq
  <2>2. \A j \in DOMAIN jobs' : jobs'[j] \in Jobs
    BY <2>1, InSeq
  <2>3. rows' \subseteq Keys /\ value' \in [Keys -> {"none", "fresh", "stale", "unstamped"}]
    BY <1>7 DEF Work, Refreshed
  <2> QED
    BY <1>7, <2>1, <2>2, <2>3 DEF Work
<1>8. ASSUME NEW i \in DOMAIN jobs, Release(i) PROVE RefreshTypes'
  <2>1. jobs' \in Seq(Jobs)
    BY <1>8, RemovedAt DEF Release
  <2>2. \A j \in DOMAIN jobs' : jobs'[j] \in Jobs
    BY <2>1, InSeq
  <2> QED
    BY <1>8, <2>1, <2>2 DEF Release
<1>9. ASSUME NEW k \in Keys, Tick(k) PROVE RefreshTypes'
  BY <1>9 DEF Tick
<1> QED
  BY <1>1, <1>3, <1>4, <1>5, <1>6, <1>7, <1>8, <1>9 DEF Next

LEMMA OneHolderStep == ASSUME RefreshTypes, OneHolder, [Next]_vars PROVE OneHolder'
<1> USE DEF RefreshTypes, TypeOK, Jobs
\* A step that leaves claims, jobs' keys and those about to hand over alone.
<1>1. ASSUME UNCHANGED <<claimed, leaked>>, DOMAIN jobs' = DOMAIN jobs,
             \A i \in DOMAIN jobs : jobs'[i].keys = jobs[i].keys,
             \A c \in Callers : \/ caller'[c] = caller[c]
                                \/ caller[c].at # "claimed" /\ caller'[c].at # "claimed"
      PROVE  OneHolder'
  BY <1>1 DEF OneHolder, HeldByCaller, HeldByJob
<1>2. ASSUME NEW c \in Callers, NEW keys \in SUBSET Keys,
             caller[c] = Idle, Claim(c, keys), UNCHANGED <<jobs, leaked>>
      PROVE  OneHolder'
  <2>1. CASE keys \ claimed = {}
    <3>1. claimed' = claimed /\ caller'[c].at = "idle" /\ \A d \in Callers \ {c} : caller'[d] = caller[d]
      BY <1>2, <2>1 DEF Claim, Goes, Idle
    <3> QED
      BY <1>1, <1>2, <3>1 DEF Idle
  <2>2. CASE keys \ claimed # {}
    <3>1. /\ claimed' = claimed \cup (keys \ claimed)
          /\ caller'[c] = [at |-> "claimed", keys |-> keys \ claimed]
          /\ \A d \in Callers \ {c} : caller'[d] = caller[d]
          /\ caller[c].at = "idle"
      <4>1. claimed' = claimed \cup (keys \ claimed) /\ Goes(c, "claimed", keys \ claimed)
        BY <1>2, <2>2 DEF Claim
      <4> QED
        BY <1>2, <4>1 DEF Goes, Idle
    <3>2. \A k \in keys \ claimed : k \notin leaked /\ ~HeldByJob(k) /\ ~HeldByCaller(k)
      BY DEF OneHolder
    <3>3. \A k \in Keys : HeldByCaller(k)' <=> HeldByCaller(k) \/ k \in keys \ claimed
      <4>1. caller'[c].at = "claimed" /\ caller'[c].keys = keys \ claimed
        BY <3>1
      <4> QED
        BY <3>1, <4>1 DEF HeldByCaller
    <3>4. \A k : HeldByJob(k)' <=> HeldByJob(k)
      BY <1>2 DEF HeldByJob
    <3>5. \A k \in Keys : k \in claimed' <=> k \in leaked' \/ HeldByCaller(k)' \/ HeldByJob(k)'
      BY <1>2, <3>1, <3>3, <3>4 DEF OneHolder
    <3>6. ASSUME NEW d \in Callers, caller'[d].at = "claimed"
          PROVE  /\ \A k \in caller'[d].keys : k \notin leaked' /\ ~HeldByJob(k)'
                 /\ \A e \in Callers : e # d /\ caller'[e].at = "claimed"
                                        => caller'[d].keys \cap caller'[e].keys = {}
      BY <1>2, <3>1, <3>2, <3>4, <3>6 DEF OneHolder, HeldByCaller
    <3>7. \A i \in DOMAIN jobs' :
            /\ \A k \in jobs'[i].keys : k \notin leaked'
            /\ \A j \in DOMAIN jobs' : j # i => jobs'[i].keys \cap jobs'[j].keys = {}
      BY <1>2 DEF OneHolder
    <3> QED
      BY <3>5, <3>6, <3>7 DEF OneHolder
  <2> QED
    BY <2>1, <2>2
<1>3. ASSUME NEW c \in Callers, NEW k \in Keys,
             WantProfile(c, k) \/ ServeStale(c, k) \/ Miss(c, k) \/ WantBackfill(c, k)
      PROVE  OneHolder'
  <2>1. {k} \in SUBSET Keys
    OBVIOUS
  <2>2. CASE Miss(c, k)
    BY <1>1, <2>2 DEF Miss, Goes, Idle
  <2>3. CASE WantBackfill(c, k) /\ ~Claim(c, {k})
    BY <1>1, <2>3 DEF WantBackfill, Goes, Idle
  <2> QED
    BY <1>2, <1>3, <2>1, <2>2, <2>3 DEF WantProfile, ServeStale, WantBackfill
<1>4. ASSUME NEW c \in Callers, NEW keys \in SUBSET Keys, WantBasics(c, keys) PROVE OneHolder'
  BY <1>2, <1>4 DEF WantBasics
<1>5. ASSUME NEW c \in Callers, Loaded(c) \/ Backfilled(c) PROVE OneHolder'
  BY <1>1, <1>5 DEF Loaded, Backfilled, Goes
\* A request's keys become a job's.
<1>6. ASSUME NEW c \in Callers, HandOver(c) PROVE OneHolder'
  <2> DEFINE n == Len(jobs) + 1
  <2>1. /\ DOMAIN jobs' = DOMAIN jobs \cup {n} /\ n \notin DOMAIN jobs
        /\ \A i \in DOMAIN jobs : jobs'[i] = jobs[i]
        /\ jobs'[n].keys = caller[c].keys
    BY <1>6 DEF HandOver
  <2>2. /\ caller'[c].at = "idle" /\ caller[c].at = "claimed" /\ UNCHANGED <<claimed, leaked>>
        /\ \A d \in Callers \ {c} : caller'[d] = caller[d]
    BY <1>6 DEF HandOver, Goes
  <2> HIDE DEF n
  <2>3. \A k : HeldByJob(k)' <=> HeldByJob(k) \/ k \in caller[c].keys
    BY <2>1 DEF HeldByJob
  <2>4. \A k : HeldByCaller(k)' \/ k \in caller[c].keys <=> HeldByCaller(k)
    BY <2>2 DEF HeldByCaller
  <2>5. \A k \in Keys : k \in claimed' <=> k \in leaked' \/ HeldByCaller(k)' \/ HeldByJob(k)'
    BY <2>2, <2>3, <2>4 DEF OneHolder
  <2>6. ASSUME NEW d \in Callers, caller'[d].at = "claimed"
        PROVE  /\ \A k \in caller'[d].keys : k \notin leaked' /\ ~HeldByJob(k)'
               /\ \A e \in Callers : e # d /\ caller'[e].at = "claimed"
                                      => caller'[d].keys \cap caller'[e].keys = {}
    BY <2>2, <2>3, <2>6 DEF OneHolder
  <2>7. ASSUME NEW i \in DOMAIN jobs'
        PROVE  /\ \A k \in jobs'[i].keys : k \notin leaked'
               /\ \A j \in DOMAIN jobs' : j # i => jobs'[i].keys \cap jobs'[j].keys = {}
    BY <2>1, <2>2, <2>7 DEF OneHolder, HeldByJob
  <2> QED
    BY <2>5, <2>6, <2>7 DEF OneHolder
\* A request gives its keys back, or loses them.
<1>7. ASSUME NEW c \in Callers, SubmitRaises(c) \/ StartRaises(c) PROVE OneHolder'
  <2>1. /\ caller'[c].at = "idle" /\ caller[c].at = "claimed" /\ jobs' = jobs
        /\ \A d \in Callers \ {c} : caller'[d] = caller[d]
        /\ \/ claimed' = claimed \ caller[c].keys /\ leaked' = leaked
           \/ claimed' = claimed /\ leaked' = leaked \cup caller[c].keys
    BY <1>7 DEF SubmitRaises, StartRaises, Goes
  <2>2. \A k : HeldByJob(k)' <=> HeldByJob(k)
    BY <2>1 DEF HeldByJob
  <2>3. \A k : HeldByCaller(k) <=> HeldByCaller(k)' \/ k \in caller[c].keys
    BY <2>1 DEF HeldByCaller
  <2>4. \A k \in caller[c].keys : k \notin leaked /\ ~HeldByJob(k) /\ ~HeldByCaller(k)'
    BY <2>1 DEF OneHolder, HeldByCaller
  <2>5. \A k \in Keys : k \in claimed' <=> k \in leaked' \/ HeldByCaller(k)' \/ HeldByJob(k)'
    BY <2>1, <2>2, <2>3, <2>4 DEF OneHolder
  <2>6. ASSUME NEW d \in Callers, caller'[d].at = "claimed"
        PROVE  /\ \A k \in caller'[d].keys : k \notin leaked' /\ ~HeldByJob(k)'
               /\ \A e \in Callers : e # d /\ caller'[e].at = "claimed"
                                      => caller'[d].keys \cap caller'[e].keys = {}
    BY <2>1, <2>2, <2>6 DEF OneHolder
  <2>7. ASSUME NEW i \in DOMAIN jobs
        PROVE  /\ \A k \in jobs[i].keys : k \notin leaked'
               /\ \A j \in DOMAIN jobs : j # i => jobs[i].keys \cap jobs[j].keys = {}
    BY <2>1, <2>4, <2>7 DEF OneHolder, HeldByJob
  <2> QED
    BY <2>1, <2>5, <2>6, <2>7 DEF OneHolder
<1>8. ASSUME NEW i \in DOMAIN jobs, Work(i) PROVE OneHolder'
  <2>1. DOMAIN jobs' = DOMAIN jobs /\ \A j \in DOMAIN jobs : jobs'[j].keys = jobs[j].keys
    BY <1>8 DEF Work
  <2> QED
    BY <1>1, <1>8, <2>1 DEF Work
<1>9. ASSUME NEW i \in DOMAIN jobs, Release(i) PROVE OneHolder'
  <2> DEFINE At(j) == IF j < i THEN j ELSE j + 1
  <2>1. /\ DOMAIN jobs' = 1..(Len(jobs) - 1)
        /\ \A j \in 1..(Len(jobs) - 1) : jobs'[j] = jobs[At(j)]
    <3>1. jobs' = RemoveAt(jobs, i)
      BY <1>9 DEF Release
    <3>2. jobs' \in Seq(Jobs) /\ Len(jobs') = Len(jobs) - 1
      BY <3>1, RemovedAt
    <3>3. \A j \in 1..(Len(jobs) - 1) : jobs'[j] = IF j < i THEN jobs[j] ELSE jobs[j + 1]
      BY <3>1, RemovedAt
    <3> HIDE DEF Jobs
    <3>4. DOMAIN jobs' = 1..(Len(jobs) - 1)
      BY <3>2
    <3> QED
      BY <3>3, <3>4
  <2>2. i \in 1..Len(jobs) /\ Len(jobs) \in Nat /\ DOMAIN jobs = 1..Len(jobs)
    OBVIOUS
  <2>3. \A j \in DOMAIN jobs' : At(j) \in DOMAIN jobs /\ At(j) # i /\ jobs'[j] = jobs[At(j)]
    BY <2>1, <2>2
  <2>4. \A j, m \in DOMAIN jobs' : j # m => At(j) # At(m)
    BY <2>1, <2>2
  <2>5. \A m \in DOMAIN jobs \ {i} : \E j \in DOMAIN jobs' : At(j) = m
    <3> SUFFICES ASSUME NEW m \in DOMAIN jobs \ {i} PROVE \E j \in DOMAIN jobs' : At(j) = m
      OBVIOUS
    <3> DEFINE j == IF m < i THEN m ELSE m - 1
    <3>1. j \in DOMAIN jobs' /\ At(j) = m
      BY <2>1, <2>2
    <3> QED
      BY <3>1
  <2> HIDE DEF At
  <2>6. claimed' = claimed \ jobs[i].keys /\ UNCHANGED <<leaked, caller>>
    BY <1>9 DEF Release
  <2>7. \A k : HeldByCaller(k)' <=> HeldByCaller(k)
    BY <2>6 DEF HeldByCaller
  <2>8. \A k : HeldByJob(k) <=> HeldByJob(k)' \/ k \in jobs[i].keys
    BY <2>3, <2>5 DEF HeldByJob
  <2>9. \A k \in jobs[i].keys : k \notin leaked /\ ~HeldByCaller(k) /\ ~HeldByJob(k)'
    BY <2>3 DEF OneHolder, HeldByCaller, HeldByJob
  <2>10. \A k \in Keys : k \in claimed' <=> k \in leaked' \/ HeldByCaller(k)' \/ HeldByJob(k)'
    BY <2>6, <2>7, <2>8, <2>9 DEF OneHolder
  <2>11. ASSUME NEW d \in Callers, caller'[d].at = "claimed"
        PROVE  /\ \A k \in caller'[d].keys : k \notin leaked' /\ ~HeldByJob(k)'
               /\ \A e \in Callers : e # d /\ caller'[e].at = "claimed"
                                      => caller'[d].keys \cap caller'[e].keys = {}
    BY <2>6, <2>8, <2>11 DEF OneHolder
  <2>12. ASSUME NEW j \in DOMAIN jobs'
        PROVE  /\ \A k \in jobs'[j].keys : k \notin leaked'
               /\ \A m \in DOMAIN jobs' : m # j => jobs'[j].keys \cap jobs'[m].keys = {}
    BY <2>3, <2>4, <2>6, <2>12 DEF OneHolder
  <2> QED
    BY <2>10, <2>11, <2>12 DEF OneHolder
<1>10. ASSUME NEW k \in Keys, Tick(k) PROVE OneHolder'
  BY <1>1, <1>10 DEF Tick
<1>11. CASE UNCHANGED vars
  BY <1>1, <1>11 DEF vars
<1> QED
  BY <1>3, <1>4, <1>5, <1>6, <1>7, <1>8, <1>9, <1>10, <1>11 DEF Next

LEMMA RefreshInit == ASSUME Init PROVE RefreshTypes /\ OneHolder
BY DEF Init, RefreshTypes, TypeOK, OneHolder, HeldByCaller, HeldByJob, Idle, Jobs, Pools, Threads

-----------------------------------------------------------------------------
(* The profile of a stock *)

ProfileCalls == [at : {"idle", "local", "write"}, kind : {"profile", "overview", "extras"}, live : BOOLEAN,
                 seen : Profile!Profiles \cup {Nothing}, result : Profile!Profiles]

ProfileTypes ==
  /\ market \in 0..MaxMarket /\ wanted \in BOOLEAN
  /\ cache \in Profile!Profiles \cup {Nothing} /\ snapshot \in Profile!Profiles \cup {Nothing}
  /\ call \in [Profile!Threads -> ProfileCalls]

\* p has every part that q has.
Covers(p, q) ==
  /\ q.quote # Nothing => p.quote # Nothing
  /\ \A x \in Extras : q.extra[x] # Nothing => p.extra[x] # Nothing

\* What a call is about to write has what it found.
ResultCovers ==
  \A c \in Profile!Threads :
    call[c].at = "write" /\ call[c].seen # Nothing => Covers(call[c].result, call[c].seen)

ProfileInv == ProfileTypes /\ ResultCovers

LEMMA MarketIsThere ==
  ASSUME ProfileTypes PROVE market # Nothing /\ 0 # Nothing /\ {0, market, Nothing} \subseteq Profile!Version
BY NothingAssumption, ProfileAssumption DEF ProfileTypes, Profile!Version

LEMMA ProfileParts ==
  ASSUME NEW q \in Profile!Version, NEW e \in [Extras -> Profile!Version]
  PROVE  /\ Profile!Profile(q, e) \in Profile!Profiles
         /\ Profile!Profile(q, e).quote = q /\ Profile!Profile(q, e).extra = e
BY DEF Profile!Profile, Profile!Profiles

LEMMA BlankIsEmpty ==
  /\ Profile!Blank \in Profile!Profiles /\ Profile!Blank.quote = Nothing
  /\ \A x \in Extras : Profile!Blank.extra[x] = Nothing
<1>1. Nothing \in Profile!Version /\ [x \in Extras |-> Nothing] \in [Extras -> Profile!Version]
  BY DEF Profile!Version
<1> QED
  BY <1>1, ProfileParts DEF Profile!Blank

\* A profile is made of the snapshot and of what was seen, and has the parts of
\* the one seen.
LEMMA FilledCovers ==
  ASSUME ProfileTypes, NEW c \in Profile!Threads, NEW snap \in Profile!Profiles
  PROVE  /\ Profile!Filled(c, snap) \in Profile!Profiles
         /\ Profile!Seen(c) \in Profile!Profiles
         /\ call[c].seen # Nothing => Covers(Profile!Filled(c, snap), call[c].seen)
<1>1. Profile!Seen(c) \in Profile!Profiles /\ (call[c].seen # Nothing => Profile!Seen(c) = call[c].seen)
  BY BlankIsEmpty DEF ProfileTypes, ProfileCalls, Profile!Seen
<1> DEFINE q == Profile!Or(snap.quote, Profile!Seen(c).quote)
           e == [x \in Extras |-> IF x \in Profile!Asked(c)
                                    THEN Profile!Or(snap.extra[x], Profile!Seen(c).extra[x])
                                    ELSE Profile!Seen(c).extra[x]]
<1>2. q \in Profile!Version /\ e \in [Extras -> Profile!Version]
  BY <1>1 DEF Profile!Profiles, Profile!Or
<1>3. Profile!Filled(c, snap) = Profile!Profile(q, e)
  BY DEF Profile!Filled
<1>4. Profile!Seen(c).quote # Nothing => q # Nothing
  BY DEF Profile!Or
<1>5. \A x \in Extras : Profile!Seen(c).extra[x] # Nothing => e[x] # Nothing
  BY DEF Profile!Or
<1> HIDE DEF q, e
<1> QED
  BY <1>1, <1>2, <1>3, <1>4, <1>5, ProfileParts DEF Covers

LEMMA ProfileStep ==
  ASSUME ProfileInv, [Profile!Next]_(Profile!vars) PROVE ProfileInv' /\ Profile!PartsKeptStep
<1> DEFINE Kept(c) == Profile!Writes(c) /\ call[c].seen # Nothing => Covers(cache', call[c].seen)
           CallCovers(c) == call[c].at = "write" /\ call[c].seen # Nothing
                              => Covers(call[c].result, call[c].seen)
<1>1. SUFFICES ProfileInv' /\ \A c \in Profile!Threads : Kept(c)
  BY DEF Profile!PartsKeptStep, Covers
<1>2. ASSUME UNCHANGED call,
             market' \in 0..MaxMarket, wanted' \in BOOLEAN,
             cache' \in Profile!Profiles \cup {Nothing}, snapshot' \in Profile!Profiles \cup {Nothing}
      PROVE  ProfileInv' /\ \A c \in Profile!Threads : Kept(c)
  BY <1>2 DEF ProfileInv, ProfileTypes, ResultCovers, Profile!Writes
\* One call goes on; when it ends with the cache changed, it has kept the parts.
<1>3. ASSUME NEW c \in Profile!Threads, NEW new \in ProfileCalls, call' = [call EXCEPT ![c] = new],
             new.at = "write" /\ new.seen # Nothing => Covers(new.result, new.seen),
             call[c].at # "idle" /\ new.at = "idle" /\ cache' # cache /\ call[c].seen # Nothing
               => Covers(cache', call[c].seen),
             market' = market, snapshot' = snapshot, wanted' \in BOOLEAN,
             cache' \in Profile!Profiles \cup {Nothing}
      PROVE  ProfileInv' /\ \A b \in Profile!Threads : Kept(b)
  <2>1. call' \in [Profile!Threads -> ProfileCalls] /\ call'[c] = new
    BY <1>3 DEF ProfileInv, ProfileTypes
  <2>2. \A b \in Profile!Threads \ {c} : call'[b] = call[b]
    BY <1>3 DEF ProfileInv, ProfileTypes
  <2>3. ProfileTypes'
    BY <1>3, <2>1 DEF ProfileInv, ProfileTypes
  <2>4. ResultCovers'
    BY <1>3, <2>1, <2>2 DEF ProfileInv, ResultCovers, Covers
  <2>5. \A b \in Profile!Threads : Kept(b)
    BY <1>3, <2>1, <2>2 DEF Profile!Writes
  <2> QED
    BY <2>3, <2>4, <2>5 DEF ProfileInv
<1>4. /\ Profile!Idle \in ProfileCalls /\ Profile!Idle.at = "idle"
  BY BlankIsEmpty DEF Profile!Idle, ProfileCalls
<1>5. \A c \in Profile!Threads : call[c] \in ProfileCalls
  BY DEF ProfileInv, ProfileTypes
\* A call begins with the profile in the cache.
<1>6. ASSUME NEW c \in Profile!Threads, NEW new \in ProfileCalls, new.at = "local",
             call' = [call EXCEPT ![c] = new], UNCHANGED <<market, snapshot, cache, wanted>>
      PROVE  ProfileInv' /\ \A b \in Profile!Threads : Kept(b)
  BY <1>3, <1>6 DEF ProfileInv, ProfileTypes
<1>7. ASSUME NEW c \in Profile!Threads, Profile!Begin(c)
      PROVE  ProfileInv' /\ \A b \in Profile!Threads : Kept(b)
  <2>1. PICK k \in {"profile", "overview", "extras"}, l \in BOOLEAN :
          call' = [call EXCEPT ![c] = [Profile!Idle EXCEPT !.at = "local", !.kind = k, !.live = l,
                                                           !.seen = cache]]
    BY <1>7 DEF Profile!Begin
  <2> DEFINE new == [Profile!Idle EXCEPT !.at = "local", !.kind = k, !.live = l, !.seen = cache]
  <2>2. new \in ProfileCalls
    BY <1>4 DEF ProfileInv, ProfileTypes, ProfileCalls
  <2>3. new.at = "local"
    BY DEF Profile!Idle
  <2> HIDE DEF new
  <2> QED
    BY <1>6, <1>7, <2>1, <2>2, <2>3 DEF Profile!Begin, new
<1>8. CASE Profile!BeginRefresh
  <2> DEFINE new == [Profile!Idle EXCEPT !.at = "local", !.live = TRUE, !.seen = cache]
  <2>1. call' = [call EXCEPT ![Refresher] = new] /\ UNCHANGED <<market, snapshot, cache, wanted>>
    BY <1>8 DEF Profile!BeginRefresh
  <2>2. new \in ProfileCalls
    BY <1>4 DEF ProfileInv, ProfileTypes, ProfileCalls
  <2>3. new.at = "local" /\ Refresher \in Profile!Threads
    BY DEF Profile!Idle, Profile!Threads
  <2> HIDE DEF new
  <2> QED
    BY <1>6, <2>1, <2>2, <2>3
<1>9. ASSUME NEW c \in Profile!Threads, Profile!ServeLocal(c)
      PROVE  ProfileInv' /\ \A b \in Profile!Threads : Kept(b)
  <2>1. snapshot # Nothing => Profile!Filled(c, snapshot) \in Profile!Profiles
          /\ (call[c].seen # Nothing => Covers(Profile!Filled(c, snapshot), call[c].seen))
    BY FilledCovers DEF ProfileInv, ProfileTypes
  <2>2. /\ cache' = IF snapshot # Nothing THEN Profile!Filled(c, snapshot) ELSE cache
        /\ wanted' = TRUE /\ UNCHANGED <<market, snapshot>>
        /\ call' = [call EXCEPT ![c] = Profile!Idle]
    BY <1>9 DEF Profile!ServeLocal, Profile!Done
  <2>3. cache' \in Profile!Profiles \cup {Nothing}
    BY <2>1, <2>2 DEF ProfileInv, ProfileTypes
  <2>4. cache' # cache /\ call[c].seen # Nothing => Covers(cache', call[c].seen)
    BY <2>1, <2>2 DEF Covers
  <2> QED
    BY <1>3, <1>4, <2>2, <2>3, <2>4
\* A live answer: parts are replaced by what the provider gives, or stay.
<1>10. ASSUME NEW c \in Profile!Threads, NEW result \in Profile!Profiles, Profile!Goes(c, result),
              call[c].seen # Nothing => Covers(result, call[c].seen),
              wanted' \in BOOLEAN, UNCHANGED <<market, snapshot, cache>>
       PROVE  ProfileInv' /\ \A b \in Profile!Threads : Kept(b)
  <2> DEFINE new == [call[c] EXCEPT !.at = "write", !.result = result]
  <2>1. call' = [call EXCEPT ![c] = new]
    BY <1>10 DEF Profile!Goes
  <2>2. new \in ProfileCalls
    BY <1>5, <1>10 DEF ProfileCalls
  <2>3. new.at = "write" /\ new.seen = call[c].seen /\ new.result = result
    BY <1>5, <1>10 DEF ProfileCalls
  <2> HIDE DEF new
  <2> QED
    BY <1>3, <1>10, <2>1, <2>2, <2>3 DEF ProfileInv, ProfileTypes
<1>11. market # Nothing /\ 0 # Nothing
  BY MarketIsThere DEF ProfileInv
<1>12. ASSUME NEW p \in Profile!Profiles, NEW q \in Profile!Profiles, NEW r \in Profile!Profiles,
              Covers(p, q), Covers(q, r)
       PROVE  Covers(p, r)
  BY <1>12 DEF Covers
<1>13. ASSUME NEW c \in Profile!Threads, Profile!FetchLive(c)
       PROVE  ProfileInv' /\ \A b \in Profile!Threads : Kept(b)
  <2> DEFINE base == Profile!Filled(c, Profile!Blank)
  <2>1. PICK failed \in SUBSET (Profile!Asked(c) \cup {"quote"}), daily \in BOOLEAN :
          Profile!Goes(c, [base EXCEPT
            !.quote = IF "quote" \notin failed THEN market ELSE IF daily THEN 0 ELSE @,
            !.extra = [x \in Extras |-> IF x \in Profile!Asked(c) \ failed THEN market ELSE @[x]]])
    BY <1>13 DEF Profile!FetchLive
  <2> DEFINE q == IF "quote" \notin failed THEN market ELSE IF daily THEN 0 ELSE base.quote
             e == [x \in Extras |-> IF x \in Profile!Asked(c) \ failed THEN market ELSE base.extra[x]]
             result == [base EXCEPT !.quote = q, !.extra = e]
  <2>2. base \in Profile!Profiles /\ (call[c].seen # Nothing => Covers(base, call[c].seen))
    BY BlankIsEmpty, FilledCovers DEF ProfileInv
  <2>3. Profile!Goes(c, result)
    BY <2>1
  <2>4. UNCHANGED <<market, snapshot, cache, wanted>>
    BY <1>13 DEF Profile!FetchLive
  <2> HIDE DEF base
  <2>5. {0, market} \subseteq Profile!Version
    BY MarketIsThere DEF ProfileInv
  <2>6. q \in Profile!Version /\ e \in [Extras -> Profile!Version]
    BY <2>2, <2>5 DEF Profile!Profiles
  <2>7. q \in {base.quote, market, 0} /\ \A x \in Extras : e[x] \in {base.extra[x], market}
    OBVIOUS
  <2> HIDE DEF q, e
  <2>12. result = [base EXCEPT !.quote = q, !.extra = e]
    OBVIOUS
  <2> HIDE DEF result
  <2>8. result \in Profile!Profiles /\ Covers(result, base)
    <3>1. result \in Profile!Profiles /\ result.quote = q /\ result.extra = e
      BY <2>2, <2>6, <2>12 DEF Profile!Profiles
    <3> QED
      BY <1>11, <2>7, <3>1 DEF Covers
  <2>9. call[c].seen # Nothing => Covers(result, call[c].seen)
    BY <1>5, <1>12, <2>2, <2>8 DEF ProfileCalls
  <2> QED
    BY <1>10, <2>3, <2>4, <2>8, <2>9 DEF ProfileInv, ProfileTypes
<1>14. ASSUME NEW c \in Profile!Threads, Profile!FetchExtras(c)
       PROVE  ProfileInv' /\ \A b \in Profile!Threads : Kept(b)
  <2> DEFINE snap == IF call[c].live \/ snapshot = Nothing THEN Profile!Blank ELSE snapshot
             filled == Profile!Filled(c, snap)
             here == [filled EXCEPT !.quote = Profile!Seen(c).quote]
  <2>1. PICK failed \in SUBSET Extras :
          IF call[c].live
            THEN Profile!Goes(c, [here EXCEPT !.extra = [x \in Extras |->
                                    IF x \notin failed THEN market ELSE @[x]]])
            ELSE failed = Extras /\ Profile!Goes(c, here)
    BY <1>14 DEF Profile!FetchExtras
  <2>2. snap \in Profile!Profiles
    BY BlankIsEmpty DEF ProfileInv, ProfileTypes
  <2> HIDE DEF snap
  <2>3. /\ filled \in Profile!Profiles /\ Profile!Seen(c) \in Profile!Profiles
        /\ call[c].seen # Nothing => Covers(filled, call[c].seen)
        /\ call[c].seen # Nothing => Profile!Seen(c) = call[c].seen
    BY <2>2, FilledCovers DEF ProfileInv, Profile!Seen
  <2>4. UNCHANGED <<market, snapshot, cache>> /\ wanted' \in BOOLEAN
    BY <1>14 DEF Profile!FetchExtras, ProfileInv, ProfileTypes
  <2> DEFINE e == [x \in Extras |-> IF x \notin failed THEN market ELSE here.extra[x]]
             result == [here EXCEPT !.extra = e]
  <2>5. Profile!Goes(c, result) \/ Profile!Goes(c, here)
    BY <2>1
  <2> HIDE DEF filled
  <2>6. /\ here \in Profile!Profiles
        /\ call[c].seen # Nothing => Covers(here, call[c].seen)
    BY <2>3 DEF Profile!Profiles, Covers
  <2> HIDE DEF here
  <2>7. market \in Profile!Version
    BY MarketIsThere DEF ProfileInv
  <2>8. e \in [Extras -> Profile!Version] /\ \A x \in Extras : e[x] \in {here.extra[x], market}
    BY <2>6, <2>7 DEF Profile!Profiles
  <2> HIDE DEF e
  <2>9. here.quote \in Profile!Version
    BY <2>6 DEF Profile!Profiles
  <2>13. result = [here EXCEPT !.extra = e]
    OBVIOUS
  <2> HIDE DEF result
  <2>10. result \in Profile!Profiles /\ Covers(result, here)
    <3>1. result \in Profile!Profiles /\ result.quote = here.quote /\ result.extra = e
      BY <2>6, <2>8, <2>9, <2>13 DEF Profile!Profiles
    <3> QED
      BY <1>11, <2>8, <3>1 DEF Covers
  <2>11. call[c].seen # Nothing => Covers(result, call[c].seen)
    BY <1>5, <1>12, <2>6, <2>10 DEF ProfileCalls
  <2> QED
    BY <1>10, <2>4, <2>5, <2>6, <2>10, <2>11
<1>15. ASSUME NEW c \in Profile!Threads, Profile!Write(c)
       PROVE  ProfileInv' /\ \A b \in Profile!Threads : Kept(b)
  <2>1. /\ cache' \in {call[c].result, cache}
        /\ wanted' = (wanted /\ c # Refresher) /\ UNCHANGED <<market, snapshot>>
        /\ call' = [call EXCEPT ![c] = Profile!Idle] /\ call[c].at = "write"
    BY <1>15 DEF Profile!Write, Profile!Done
  <2>2. call[c].result \in Profile!Profiles
    BY <1>5 DEF ProfileCalls
  <2>3. cache' \in Profile!Profiles \cup {Nothing} /\ wanted' \in BOOLEAN
    BY <2>1, <2>2 DEF ProfileInv, ProfileTypes
  <2>4. cache' # cache /\ call[c].seen # Nothing => Covers(cache', call[c].seen)
    BY <2>1 DEF ProfileInv, ResultCovers
  <2> QED
    BY <1>3, <1>4, <2>1, <2>3, <2>4
<1>16. CASE Profile!MarketMoves
  BY <1>2, <1>16, ProfileAssumption DEF Profile!MarketMoves, ProfileInv, ProfileTypes
<1>17. CASE Profile!EtlSnapshot
  <2>1. PICK extra \in [Extras -> {market, Nothing}] : snapshot' = Profile!Profile(market, extra)
    BY <1>17 DEF Profile!EtlSnapshot
  <2>2. market \in Profile!Version /\ extra \in [Extras -> Profile!Version]
    BY MarketIsThere DEF ProfileInv
  <2> QED
    BY <1>2, <1>17, <2>1, <2>2, ProfileParts DEF Profile!EtlSnapshot, ProfileInv, ProfileTypes
<1>18. CASE Profile!Expire
  BY <1>2, <1>18 DEF Profile!Expire, ProfileInv, ProfileTypes
<1>19. CASE UNCHANGED Profile!vars
  BY <1>2, <1>19 DEF Profile!vars, ProfileInv, ProfileTypes
<1> QED
  BY <1>1, <1>7, <1>8, <1>9, <1>13, <1>14, <1>15, <1>16, <1>17, <1>18, <1>19 DEF Profile!Next

LEMMA ProfileInit == ASSUME Profile!Init PROVE ProfileInv
<1>1. Profile!Idle \in ProfileCalls /\ Profile!Idle.at = "idle"
  BY BlankIsEmpty DEF Profile!Idle, ProfileCalls
<1>2. 0 \in 0..MaxMarket
  BY ProfileAssumption
<1> QED
  BY <1>1, <1>2 DEF Profile!Init, ProfileInv, ProfileTypes, ResultCovers

-----------------------------------------------------------------------------
(* Answers about a stock *)

AnswerCalls == [at : {"idle", "cache", "local", "remote", "answer"}, risk : BOOLEAN, seen : 0..2,
                here : 0..2, answer : 0..2, keep : BOOLEAN]

AnswerTypes ==
  /\ kind \in Answers!Kinds /\ local \in 0..2 /\ cache \in 0..2 /\ risk \in 0..2
  /\ call \in [Callers -> AnswerCalls]

\* A request that is still looking has not seen a good answer, and nothing is
\* to be cached yet; what is to be cached is not poor, unless it is prices.
LookingOn ==
  \A c \in Callers :
    /\ call[c].at \in {"local", "remote"} => call[c].seen # 2
    /\ call[c].at = "remote" => call[c].here # 2
    /\ call[c].at \in {"cache", "local", "remote"} => ~call[c].keep
    /\ call[c].at = "cache" => call[c].seen = 0
    /\ call[c].at \in {"cache", "local"} => call[c].here = 0
    /\ call[c].at = "answer" /\ kind # "kline" /\ call[c].keep => call[c].answer # 1

LEMMA BetterOfTwo ==
  ASSUME NEW x \in 0..2, NEW y \in 0..2 PROVE Answers!Max({x, y}) # 0 <=> x # 0 \/ y # 0
<1>1. \E m \in {x, y} : \A n \in {x, y} : m >= n
  OBVIOUS
<1>2. /\ Answers!Max({x, y}) \in {x, y}
      /\ \A n \in {x, y} : Answers!Max({x, y}) >= n
  BY <1>1 DEF Answers!Max
<1> QED
  BY <1>2

\* BestInHand, request by request.
BestOf(c) ==
  call[c].at = "answer" =>
    /\ kind = "kline" /\ (call[c].seen # 0 \/ call[c].here # 0) => call[c].answer # 0
    /\ call[c].seen = 2 \/ call[c].here = 2 => call[c].answer # 0
    /\ kind = "financials" => call[c].answer # 1
    /\ call[c].keep => call[c].answer # 0

LEMMA BestSays ==
  ASSUME AnswerTypes
  PROVE  Answers!BestInHand <=> (\A c \in Callers : BestOf(c)) /\ (kind # "kline" => cache # 1)
<1>1. ASSUME NEW c \in Callers
      PROVE  /\ Answers!Max({call[c].seen, call[c].here}) # 0 <=> call[c].seen # 0 \/ call[c].here # 0
             /\ 2 \in {call[c].seen, call[c].here} <=> call[c].seen = 2 \/ call[c].here = 2
  BY BetterOfTwo DEF AnswerTypes, AnswerCalls
<1> QED
  BY <1>1 DEF Answers!BestInHand, BestOf, Answers!None, Answers!Poor, Answers!Good

AnswerInv == AnswerTypes /\ LookingOn /\ (\A c \in Callers : BestOf(c)) /\ (kind # "kline" => cache # 1)

\* What the requests do to a call leaves it one.
LEMMA AnswerCallChanges ==
  ASSUME NEW r \in AnswerCalls, NEW a \in {"local", "answer", "remote"}, NEW s \in 0..2, NEW h \in 0..2,
         NEW w \in 0..2, NEW k \in BOOLEAN
  PROVE  /\ [r EXCEPT !.seen = s, !.at = a, !.answer = w] \in AnswerCalls
         /\ [r EXCEPT !.at = a, !.here = h, !.answer = w, !.keep = k] \in AnswerCalls
         /\ [r EXCEPT !.at = a, !.here = h, !.answer = w] \in AnswerCalls
         /\ [r EXCEPT !.at = a, !.here = h] \in AnswerCalls
BY DEF AnswerCalls

LEMMA AnswerStep == ASSUME AnswerInv, [Answers!Next]_(Answers!vars) PROVE AnswerInv'
<1> USE DEF Answers!None, Answers!Poor, Answers!Good, Answers!Qualities
<1> DEFINE CallInv(c) ==
      /\ call[c] \in AnswerCalls /\ BestOf(c)
      /\ call[c].at \in {"local", "remote"} => call[c].seen # 2
      /\ call[c].at = "remote" => call[c].here # 2
      /\ call[c].at \in {"cache", "local", "remote"} => ~call[c].keep
      /\ call[c].at = "cache" => call[c].seen = 0
      /\ call[c].at \in {"cache", "local"} => call[c].here = 0
      /\ call[c].at = "answer" /\ kind # "kline" /\ call[c].keep => call[c].answer # 1
\* One request moves, the kind stays.
<1>1. ASSUME NEW c \in Callers, NEW new \in AnswerCalls, call' = [call EXCEPT ![c] = new], kind' = kind,
             CallInv(c)', local' \in 0..2, cache' \in 0..2, risk' \in 0..2, kind # "kline" => cache' # 1
      PROVE  AnswerInv'
  <2>1. call' \in [Callers -> AnswerCalls]
    BY <1>1 DEF AnswerInv, AnswerTypes
  <2>2. \A d \in Callers \ {c} : call'[d] = call[d]
    BY <1>1 DEF AnswerInv, AnswerTypes
  <2>3. \A d \in Callers \ {c} : CallInv(d)'
    BY <1>1, <2>2 DEF AnswerInv, LookingOn, BestOf, AnswerTypes
  <2>4. \A d \in Callers : CallInv(d)'
    BY <1>1, <2>3
  <2> QED
    BY <1>1, <2>1, <2>4 DEF AnswerInv, AnswerTypes, LookingOn
<1>2. CASE UNCHANGED Answers!vars
  BY <1>2 DEF Answers!vars, AnswerInv, AnswerTypes, LookingOn, BestOf
<1>3. ASSUME NEW c \in Callers, NEW new \in AnswerCalls, call' = [call EXCEPT ![c] = new],
             UNCHANGED <<kind, local, cache, risk>>, CallInv(c)'
      PROVE  AnswerInv'
  BY <1>1, <1>3 DEF AnswerInv, AnswerTypes
<1>4. ASSUME NEW c \in Callers PROVE CallInv(c) /\ call[c] \in AnswerCalls /\ DOMAIN call = Callers
  BY DEF AnswerInv, AnswerTypes, LookingOn
<1>5. ASSUME NEW c \in Callers, Answers!Begin(c) PROVE AnswerInv'
  <2>1. PICK r \in BOOLEAN : call' = [call EXCEPT ![c] = [Answers!Idle EXCEPT !.at = "cache", !.risk = r]]
    BY <1>5 DEF Answers!Begin
  <2> DEFINE new == [Answers!Idle EXCEPT !.at = "cache", !.risk = r]
  <2>2. /\ new \in AnswerCalls
        /\ new.at = "cache" /\ new.seen = 0 /\ new.here = 0 /\ new.answer = 0 /\ ~new.keep
    <3>1. Answers!Idle \in AnswerCalls
      BY DEF Answers!Idle, AnswerCalls
    <3>2. new \in AnswerCalls
      BY <3>1 DEF AnswerCalls
    <3>3. new.seen = 0 /\ new.here = 0 /\ new.answer = 0 /\ ~new.keep
      BY DEF Answers!Idle
    <3>4. new.at = "cache"
      BY DEF Answers!Idle
    <3> QED
      BY <3>2, <3>3, <3>4
  <2> HIDE DEF new
  <2>3. call'[c] = new
    BY <1>4, <2>1 DEF new
  <2>4. CallInv(c)'
    BY <2>2, <2>3 DEF BestOf
  <2> QED
    BY <1>3, <1>5, <2>1, <2>2, <2>4 DEF Answers!Begin, new
<1>6. ASSUME NEW c \in Callers, Answers!LookInCache(c) PROVE AnswerInv'
  <2> DEFINE new == [call[c] EXCEPT !.seen = cache, !.at = IF cache = 2 THEN "answer" ELSE "local",
                                    !.answer = IF cache = 2 THEN 2 ELSE 0]
  <2>1. call' = [call EXCEPT ![c] = new]
    BY <1>6 DEF Answers!LookInCache
  <2>a. call'[c] = new
    <3> HIDE DEF new
    <3> QED
      BY <1>4, <2>1
  <2>b. new \in AnswerCalls
    <3>1. /\ (IF cache = 2 THEN "answer" ELSE "local") \in {"answer", "local"}
          /\ (IF cache = 2 THEN 2 ELSE 0) \in 0..2 /\ cache \in 0..2
      BY DEF AnswerInv, AnswerTypes
    <3> QED
      BY <1>4, <3>1, AnswerCallChanges
  <2>2. new \in AnswerCalls /\ call'[c] = new
    BY <2>a, <2>b
  <2>3. CallInv(c)'
    BY <1>4, <1>6, <2>2 DEF Answers!LookInCache, BestOf, AnswerCalls
  <2> HIDE DEF new
  <2> QED
    BY <1>3, <1>6, <2>1, <2>2, <2>3 DEF Answers!LookInCache
<1>7. ASSUME NEW c \in Callers, Answers!LookInDatabase(c) PROVE AnswerInv'
  <2>1. ASSUME NEW new, call' = [call EXCEPT ![c] = new],
               \/ local = 2 /\ new = [call[c] EXCEPT !.at = "answer", !.here = 2, !.answer = 2, !.keep = TRUE]
               \/ /\ local = 2 /\ kind = "fundamental"
                  /\ new = [call[c] EXCEPT !.at = "answer", !.here = 2, !.answer = 1]
               \/ local # 2 /\ new = [call[c] EXCEPT !.at = "remote", !.here = local]
        PROVE  AnswerInv'
    <3>a. call'[c] = new
      BY <1>4, <2>1
    <3>b. new \in AnswerCalls
      <4> DEFINE new1 == [call[c] EXCEPT !.at = "answer", !.here = 2, !.answer = 2, !.keep = TRUE]
                 new2 == [call[c] EXCEPT !.at = "answer", !.here = 2, !.answer = 1]
                 new3 == [call[c] EXCEPT !.at = "remote", !.here = local]
      <4>1. local \in 0..2 /\ call[c] \in AnswerCalls
        BY <1>4 DEF AnswerInv, AnswerTypes
      <4>2. new1 \in AnswerCalls /\ new2 \in AnswerCalls /\ new3 \in AnswerCalls
        <5>1. 2 \in 0..2 /\ 1 \in 0..2 /\ TRUE \in BOOLEAN
          OBVIOUS
        <5>2. "answer" \in {"local", "answer", "remote"} /\ "remote" \in {"local", "answer", "remote"}
          OBVIOUS
        <5>3. new1 \in AnswerCalls
          BY <4>1, <5>1, <5>2, AnswerCallChanges, Zenon
        <5>4. new2 \in AnswerCalls
          BY <4>1, <5>1, <5>2, AnswerCallChanges, Zenon
        <5>5. new3 \in AnswerCalls
          BY <4>1, <5>1, <5>2, AnswerCallChanges, Zenon
        <5> QED
          BY <5>3, <5>4, <5>5
      <4>3. new = new1 \/ new = new2 \/ new = new3
        BY <2>1
      <4> HIDE DEF new1, new2, new3
      <4> QED
        BY <4>2, <4>3
    <3>1. new \in AnswerCalls /\ call'[c] = new
      BY <3>a, <3>b
    <3>2. CallInv(c)'
      BY <1>4, <1>7, <2>1, <3>1 DEF Answers!LookInDatabase, BestOf, AnswerCalls
    <3> QED
      BY <1>3, <1>7, <2>1, <3>1, <3>2 DEF Answers!LookInDatabase
  <2> DEFINE new1 == [call[c] EXCEPT !.at = "answer", !.here = 2, !.answer = 2, !.keep = TRUE]
             new2 == [call[c] EXCEPT !.at = "answer", !.here = 2, !.answer = 1]
             new3 == [call[c] EXCEPT !.at = "remote", !.here = local]
  <2>2. \/ local = 2 /\ call' = [call EXCEPT ![c] = new1]
        \/ local = 2 /\ kind = "fundamental" /\ call' = [call EXCEPT ![c] = new2]
        \/ local # 2 /\ call' = [call EXCEPT ![c] = new3]
    BY <1>7 DEF Answers!LookInDatabase
  <2>3. CASE local = 2 /\ call' = [call EXCEPT ![c] = new1]
    BY <2>1, <2>3
  <2>4. CASE local = 2 /\ kind = "fundamental" /\ call' = [call EXCEPT ![c] = new2]
    BY <2>1, <2>4
  <2>5. CASE local # 2 /\ call' = [call EXCEPT ![c] = new3]
    BY <2>1, <2>5
  <2> QED
    BY <2>2, <2>3, <2>4, <2>5
\* What the provider's answer makes of a request that found nothing good.
<1>8. ASSUME NEW c \in Callers, NEW quality \in 0..2, NEW keep \in BOOLEAN,
             call[c].at = "remote", Answers!Answers(c, quality, keep), UNCHANGED <<kind, local, cache, risk>>,
             kind = "kline" /\ (call[c].seen # 0 \/ call[c].here # 0) => quality # 0,
             kind = "financials" => quality # 1, keep => quality # 0, kind # "kline" /\ keep => quality # 1
      PROVE  AnswerInv'
  <2> DEFINE new == [call[c] EXCEPT !.at = "answer", !.answer = quality, !.keep = keep]
  <2>1. call' = [call EXCEPT ![c] = new]
    BY <1>8 DEF Answers!Answers
  <2>2. new \in AnswerCalls /\ call'[c] = new
    BY <1>4, <2>1 DEF AnswerCalls
  <2>3. CallInv(c)'
    BY <1>4, <1>8, <2>2 DEF BestOf, AnswerCalls
  <2> HIDE DEF new
  <2> QED
    BY <1>3, <1>8, <2>1, <2>2, <2>3
<1>9. ASSUME NEW c \in Callers, Answers!RemoteKline(c) PROVE AnswerInv'
  <2>1. PICK remote \in 0..2, row \in {0, 1} :
          LET found == IF call[c].here # 0 THEN call[c].here ELSE call[c].seen
              points == IF remote # 0 THEN remote ELSE IF row # 0 THEN row ELSE found
          IN Answers!Answers(c, points, points # 0)
    BY <1>9 DEF Answers!RemoteKline
  <2> DEFINE found == IF call[c].here # 0 THEN call[c].here ELSE call[c].seen
             points == IF remote # 0 THEN remote ELSE IF row # 0 THEN row ELSE found
  <2>2. points \in 0..2 /\ (points # 0) \in BOOLEAN
    BY <1>4 DEF AnswerCalls
  <2>3. Answers!Answers(c, points, points # 0)
    BY <2>1
  <2>4. call[c].seen # 0 \/ call[c].here # 0 => points # 0
    OBVIOUS
  <2> HIDE DEF points
  <2> QED
    BY <1>8, <1>9, <2>2, <2>3, <2>4 DEF Answers!RemoteKline
<1>10. ASSUME NEW c \in Callers, Answers!RemoteFinancials(c) PROVE AnswerInv'
  <2>1. PICK remote \in 0..2 :
          \/ Answers!Answers(c, IF remote = 2 THEN 2 ELSE 0, remote = 2)
          \/ kind = "fundamental" /\ Answers!Answers(c, 1, FALSE)
    BY <1>10 DEF Answers!RemoteFinancials
  <2>2. (remote = 2) \in BOOLEAN /\ (IF remote = 2 THEN 2 ELSE 0) \in 0..2
    OBVIOUS
  <2>a. call[c].at = "remote" /\ kind \in {"financials", "fundamental"} /\ UNCHANGED <<kind, local, cache, risk>>
    BY <1>10 DEF Answers!RemoteFinancials
  <2>3. CASE Answers!Answers(c, IF remote = 2 THEN 2 ELSE 0, remote = 2)
    <3> DEFINE quality == IF remote = 2 THEN 2 ELSE 0
               keep == remote = 2
    <3>1. Answers!Answers(c, quality, keep)
      BY <2>3
    <3>2. /\ quality \in 0..2 /\ keep \in BOOLEAN /\ quality # 1
          /\ keep => quality # 0
      OBVIOUS
    <3> HIDE DEF quality, keep
    <3> QED
      BY <1>8, <2>a, <3>1, <3>2
  <2>4. CASE kind = "fundamental" /\ Answers!Answers(c, 1, FALSE)
    <3>1. 1 \in 0..2 /\ FALSE \in BOOLEAN /\ kind # "kline" /\ kind # "financials"
      BY <2>4
    <3> QED
      BY <1>8, <2>a, <2>4, <3>1
  <2> QED
    BY <2>1, <2>3, <2>4
<1>11. ASSUME NEW c \in Callers, Answers!RemoteIndicator(c) \/ Answers!RemoteResearch(c) PROVE AnswerInv'
  <2>1. PICK remote \in {0, 2} : Answers!Answers(c, remote, remote # 0)
    BY <1>11 DEF Answers!RemoteIndicator, Answers!RemoteResearch
  <2> DEFINE keep == remote # 0
  <2>2. keep \in BOOLEAN /\ remote \in 0..2 /\ remote # 1 /\ (keep => remote # 0)
    OBVIOUS
  <2>3. /\ call[c].at = "remote" /\ kind # "kline" /\ UNCHANGED <<kind, local, cache, risk>>
        /\ Answers!Answers(c, remote, keep)
    BY <1>11, <2>1 DEF Answers!RemoteIndicator, Answers!RemoteResearch
  <2> HIDE DEF keep
  <2> QED
    BY <1>8, <2>2, <2>3
<1>12. ASSUME NEW c \in Callers, Answers!Fail(c) \/ Answers!Finish(c) PROVE AnswerInv'
  <2>a. Answers!Idle \in AnswerCalls
    BY DEF Answers!Idle, AnswerCalls
  <2>b. call' = [call EXCEPT ![c] = Answers!Idle]
    BY <1>12 DEF Answers!Fail, Answers!Finish
  <2>1. Answers!Idle \in AnswerCalls /\ call' = [call EXCEPT ![c] = Answers!Idle] /\ call'[c] = Answers!Idle
    BY <1>4, <2>a, <2>b
  <2>2. CallInv(c)'
    BY <2>1 DEF Answers!Idle, BestOf
  <2>3. /\ kind' = kind /\ local' \in 0..2 /\ cache' \in 0..2 /\ risk' \in 0..2
        /\ kind # "kline" => cache' # 1
    <3>1. CASE Answers!Fail(c)
      BY <3>1 DEF Answers!Fail, AnswerInv, AnswerTypes
    <3>2. CASE Answers!Finish(c)
      BY <1>4, <3>2 DEF Answers!Finish, AnswerInv, AnswerTypes, AnswerCalls
    <3> QED
      BY <1>12, <3>1, <3>2
  <2> QED
    BY <1>1, <2>1, <2>2, <2>3
<1>13. CASE Answers!EtlStores \/ Answers!Expire
  <2>1. call' = call /\ kind' = kind /\ local' \in 0..2 /\ cache' \in {0, cache} /\ risk' \in {0, risk}
    BY <1>13 DEF Answers!EtlStores, Answers!Expire, Answers!Sources, AnswerInv, AnswerTypes
  <2> QED
    BY <2>1 DEF AnswerInv, AnswerTypes, LookingOn, BestOf
<1> QED
  BY <1>2, <1>5, <1>6, <1>7, <1>9, <1>10, <1>11, <1>12, <1>13 DEF Answers!Next

LEMMA AnswerInit == ASSUME Answers!Init PROVE AnswerInv
<1> USE DEF Answers!None, Answers!Poor, Answers!Good, Answers!Qualities
<1>1. Answers!Idle = [at |-> "idle", risk |-> FALSE, seen |-> 0, here |-> 0, answer |-> 0, keep |-> FALSE]
  BY DEF Answers!Idle
<1>2. local \in 0..2
  BY DEF Answers!Init, Answers!Sources
<1>3. \A c \in Callers : call[c] = Answers!Idle
  BY DEF Answers!Init
<1>4. AnswerTypes
  BY <1>1, <1>2 DEF Answers!Init, AnswerTypes, AnswerCalls
<1> QED
  BY <1>1, <1>3, <1>4 DEF Answers!Init, AnswerInv, LookingOn, BestOf

-----------------------------------------------------------------------------
(* Pages of the stock list *)

LEMMA CardinalityOfPages == \A S : Pages!Cardinality(S) = Cardinality(S)
BY DEF Pages!Cardinality, Cardinality

\* The place of s in S.
Rank(S, s) == Cardinality({t \in S : t <= s})

LEMMA RankGrows ==
  ASSUME NEW S \in SUBSET Nat, IsFiniteSet(S)
  PROVE  /\ Cardinality(S) \in Nat
         /\ \A s \in S : Rank(S, s) \in 1..Cardinality(S)
         /\ \A s, t \in S : s < t => Rank(S, s) < Rank(S, t)
<1>1. ASSUME NEW s \in S PROVE Rank(S, s) \in 1..Cardinality(S)
  <2> DEFINE T == {t \in S : t <= s}
  <2>1. IsFiniteSet(T) /\ Cardinality(T) <= Cardinality(S) /\ s \in T
    BY FS_Subset
  <2>2. Cardinality(T) \in Nat /\ Cardinality(T) # 0 /\ Cardinality(S) \in Nat
    BY <2>1, FS_CardinalityType, FS_EmptySet
  <2> QED
    BY <2>1, <2>2 DEF Rank
<1>2. ASSUME NEW s \in S, NEW t \in S, s < t PROVE Rank(S, s) < Rank(S, t)
  <2> DEFINE A == {u \in S : u <= s}
             B == {u \in S : u <= t}
  <2>1. IsFiniteSet(A) /\ IsFiniteSet(B)
    BY FS_Subset
  <2>2. A \in SUBSET B /\ t \in B /\ t \notin A
    <3>1. s \in Nat /\ t \in Nat /\ \A u \in S : u \in Nat
      OBVIOUS
    <3>2. \A u \in S : u <= s => u <= t
      BY <1>2, <3>1
    <3>3. ~(t <= s)
      BY <1>2, <3>1
    <3>4. A \in SUBSET B
      BY <3>2
    <3>5. t <= t
      BY <3>1
    <3> QED
      BY <3>3, <3>4, <3>5
  <2>3. Cardinality(A) <= Cardinality(B) /\ Cardinality(A) # Cardinality(B)
    BY <2>1, <2>2, FS_Subset
  <2>4. Cardinality(A) \in Nat /\ Cardinality(B) \in Nat
    BY <2>1, FS_CardinalityType
  <2> QED
    BY <2>3, <2>4 DEF Rank
<1> QED
  BY <1>1, <1>2, FS_CardinalityType

\* Every place of a set is taken, by one of its members, in their order.
LEMMA InOrderSays ==
  ASSUME NEW S \in SUBSET Nat, IsFiniteSet(S)
  PROVE  /\ Pages!InOrder(S) \in [1..Cardinality(S) -> S]
         /\ \A i, j \in 1..Cardinality(S) : i < j => Pages!InOrder(S)[i] < Pages!InOrder(S)[j]
         /\ S = 1..Cardinality(S) => \A i \in 1..Cardinality(S) : Pages!InOrder(S)[i] = i
<1> DEFINE n == Cardinality(S)
           f == [s \in S |-> Rank(S, s)]
           g == Pages!InOrder(S)
<1>1. n \in Nat /\ IsFiniteSet(1..n) /\ Cardinality(1..n) = n
  BY RankGrows, FS_Interval
<1>2. f \in Injection(S, 1..n)
  <2>1. f \in [S -> 1..n]
    BY RankGrows
  <2>2. ASSUME NEW s \in S, NEW t \in S, f[s] = f[t] PROVE s = t
    <3>1. s \in Nat /\ t \in Nat /\ f[s] \in Nat /\ f[t] \in Nat
      BY <1>1, <2>1
    <3>2. ~(s < t) /\ ~(t < s)
      BY <2>2, <3>1, RankGrows
    <3> QED
      BY <3>1, <3>2
  <2> QED
    BY <2>1, <2>2 DEF Injection, IsInjective
<1>3. f \in Surjection(S, 1..n)
  BY <1>1, <1>2, FS_Injection
<1>4. \A i \in 1..n : \E s \in S : Rank(S, s) = i
  BY <1>3 DEF Surjection
<1>5. ASSUME NEW i \in 1..n PROVE g[i] \in S /\ Rank(S, g[i]) = i
  BY <1>4, CardinalityOfPages DEF Pages!InOrder, Rank
<1>6. g \in [1..n -> S]
  BY <1>5, CardinalityOfPages DEF Pages!InOrder
<1>7. ASSUME NEW i \in 1..n, NEW j \in 1..n, i < j PROVE g[i] < g[j]
  <2>1. g[i] \in S /\ g[j] \in S /\ Rank(S, g[i]) = i /\ Rank(S, g[j]) = j
    BY <1>5
  <2>2. g[i] \in Nat /\ g[j] \in Nat
    BY <2>1
  <2>3. ~(g[j] < g[i]) /\ g[i] # g[j]
    <3>1. i \in Nat /\ j \in Nat /\ ~(j < i) /\ i # j
      BY <1>1, <1>7
    <3>2. g[j] < g[i] => j < i
      BY <2>1, RankGrows
    <3> QED
      BY <2>1, <3>1, <3>2
  <2> HIDE DEF g
  <2> QED
    BY <2>2, <2>3
<1>8. ASSUME S = 1..n, NEW i \in 1..n PROVE g[i] = i
  <2>1. g[i] \in 1..n /\ Rank(S, g[i]) = i
    BY <1>5, <1>8
  <2> HIDE DEF g
  <2>2. {t \in S : t <= g[i]} = 1..g[i]
    <3>1. \A t : t \in 1..n /\ t <= g[i] <=> t \in 1..g[i]
      BY <1>1, <2>1
    <3> HIDE DEF n
    <3> QED
      BY <1>8, <3>1
  <2>3. Cardinality(1..g[i]) = g[i]
    BY <2>1, FS_Interval
  <2> QED
    BY <2>1, <2>2, <2>3 DEF Rank
<1> QED
  BY <1>6, <1>7, <1>8

\* The rows at some places of a sequence, in their order.
LEMMA AtSays ==
  ASSUME NEW R, NEW listed, NEW S \in SUBSET Nat, IsFiniteSet(S), \A s \in S : listed[s] \in R
  PROVE  /\ Pages!At(listed, S) \in Seq(R) /\ Len(Pages!At(listed, S)) = Cardinality(S)
         /\ \A i \in 1..Len(Pages!At(listed, S)) :
              Pages!InOrder(S)[i] \in S /\ Pages!At(listed, S)[i] = listed[Pages!InOrder(S)[i]]
<1>1. Cardinality(S) \in Nat /\ Pages!InOrder(S) \in [1..Cardinality(S) -> S]
  BY InOrderSays, RankGrows
<1>2. Pages!At(listed, S) = [i \in 1..Cardinality(S) |-> listed[Pages!InOrder(S)[i]]]
  BY CardinalityOfPages DEF Pages!At
<1>3. \A i \in 1..Cardinality(S) : Pages!InOrder(S)[i] \in S /\ listed[Pages!InOrder(S)[i]] \in R
  BY <1>1
<1>4. Pages!At(listed, S) \in [1..Cardinality(S) -> R]
  BY <1>2, <1>3
<1>5. Pages!At(listed, S) \in Seq(R) /\ Len(Pages!At(listed, S)) = Cardinality(S)
  BY <1>1, <1>4
<1>6. \A i \in 1..Cardinality(S) : Pages!At(listed, S)[i] = listed[Pages!InOrder(S)[i]]
  BY <1>2
<1> QED
  BY <1>3, <1>5, <1>6

\* A row with a sector has a name.
PageRows == {r \in [symbol : Symbols, name : BOOLEAN, sector : BOOLEAN] : r.sector => r.name}

LEMMA KnownRows ==
  /\ \A s \in Symbols : Pages!Known(s) \subseteq PageRows /\ \A r \in Pages!Known(s) : r.symbol = s
  /\ \A r \in PageRows : r.symbol \notin Indices => r \in Pages!Known(r.symbol)
<1>1. ASSUME NEW s \in Symbols, NEW r \in Pages!Known(s) PROVE r \in PageRows /\ r.symbol = s
  <2>1. PICK n \in BOOLEAN, x \in BOOLEAN : r = [symbol |-> s, name |-> n, sector |-> x] /\ (x => n)
    BY DEF Pages!Known, Pages!Row
  <2> QED
    BY <2>1 DEF PageRows
<1>2. ASSUME NEW r \in PageRows, r.symbol \notin Indices PROVE r \in Pages!Known(r.symbol)
  <2>1. r = [symbol |-> r.symbol, name |-> r.name, sector |-> r.sector]
    BY DEF PageRows
  <2> QED
    BY <1>2, <2>1 DEF Pages!Known, Pages!Row, PageRows
<1> QED
  BY <1>1, <1>2

TableOfRows(t) == t \in [Symbols -> PageRows \cup {Nothing}]

LEMMA TablesHaveRows ==
  ASSUME NEW t \in Pages!Tables PROVE TableOfRows(t) /\ \A s \in Symbols : t[s] # Nothing => t[s].symbol = s
BY KnownRows DEF Pages!Tables, TableOfRows

\* Rows of stocks, each of them once.
IsPage(listed) ==
  /\ listed \in Seq(PageRows)
  /\ \A i \in 1..Len(listed) : listed[i].symbol \notin Indices
  /\ \A i, j \in 1..Len(listed) : i # j => listed[i].symbol # listed[j].symbol

FirstPlaces(listed) ==
  {i \in DOMAIN listed : listed[i].symbol \notin Indices /\ \A j \in 1..(i - 1) : listed[j].symbol # listed[i].symbol}

LEMMA PlacesOf ==
  ASSUME NEW R, NEW listed \in Seq(R), NEW S \in SUBSET DOMAIN listed
  PROVE  S \in SUBSET Nat /\ IsFiniteSet(S) /\ \A s \in S : listed[s] \in R
<1>1. DOMAIN listed = 1..Len(listed) /\ Len(listed) \in Nat
  OBVIOUS
<1>2. IsFiniteSet(1..Len(listed))
  BY <1>1, FS_Interval
<1> QED
  BY <1>1, <1>2, FS_Subset

\* Rows without their duplicates are a page; a page stays what it is.
LEMMA DedupeMakesPage ==
  ASSUME NEW listed \in Seq(PageRows)
  PROVE  /\ IsPage(Pages!Dedupe(listed))
         /\ IsPage(listed) => Pages!Dedupe(listed) = listed
<1> DEFINE S == FirstPlaces(listed)
           some == Pages!Dedupe(listed)
           f == Pages!InOrder(S)
<1>1. some = Pages!At(listed, S)
  BY DEF Pages!Dedupe, FirstPlaces
<1>2. S \in SUBSET DOMAIN listed /\ DOMAIN listed = 1..Len(listed) /\ Len(listed) \in Nat
  BY DEF FirstPlaces
<1>3. S \in SUBSET Nat /\ IsFiniteSet(S) /\ \A s \in S : listed[s] \in PageRows
  BY <1>2, PlacesOf
<1>4. /\ some \in Seq(PageRows) /\ Len(some) = Cardinality(S)
      /\ \A i \in 1..Len(some) : f[i] \in S /\ some[i] = listed[f[i]]
  BY <1>1, <1>3, AtSays
<1>5. \A i, j \in 1..Len(some) : i < j => f[i] < f[j]
  BY <1>3, <1>4, InOrderSays
<1> HIDE DEF some, f
<1>6. ASSUME NEW i \in 1..Len(some), NEW j \in 1..Len(some), i < j PROVE some[i].symbol # some[j].symbol
  <2>1. f[i] \in S /\ f[j] \in S /\ f[i] < f[j] /\ some[i] = listed[f[i]] /\ some[j] = listed[f[j]]
    BY <1>4, <1>5, <1>6
  <2>2. f[i] \in 1..(f[j] - 1)
    BY <1>2, <2>1
  <2> QED
    BY <2>1, <2>2 DEF FirstPlaces
<1>7. IsPage(some)
  <2>1. ASSUME NEW i \in 1..Len(some) PROVE some[i].symbol \notin Indices
    BY <1>4 DEF FirstPlaces
  <2>2. ASSUME NEW i \in 1..Len(some), NEW j \in 1..Len(some), i # j PROVE some[i].symbol # some[j].symbol
    <3>1. i < j \/ j < i
      BY <1>4, <2>2
    <3> QED
      BY <1>6, <3>1
  <2> QED
    BY <1>4, <2>1, <2>2 DEF IsPage
<1>8. ASSUME IsPage(listed) PROVE some = listed
  <2>1. S = 1..Len(listed)
    BY <1>2, <1>8 DEF FirstPlaces, IsPage
  <2>2. Cardinality(S) = Len(listed)
    BY <1>2, <2>1, FS_Interval
  <2>3. \A i \in 1..Len(listed) : f[i] = i
    BY <1>3, <2>1, <2>2, InOrderSays DEF f
  <2>4. Len(some) = Len(listed) /\ \A i \in 1..Len(listed) : some[i] = listed[i]
    BY <1>4, <2>2, <2>3
  <2> QED
    BY <1>4, <2>4, SeqEqual
<1> QED
  BY <1>7, <1>8 DEF some

\* Rows for the same symbols fill a page and replace nothing in it.
Improves(listed, old) ==
  /\ Len(listed) = Len(old)
  /\ \A i \in 1..Len(old) : /\ listed[i].symbol = old[i].symbol
                            /\ old[i].name => listed[i].name
                            /\ old[i].sector => listed[i].sector

LEMMA MergeFills ==
  ASSUME NEW listed \in Seq(PageRows), NEW more \in Seq(PageRows)
  PROVE  /\ IsPage(Pages!Merge(listed, more))
         /\ IsPage(listed) => Improves(Pages!Merge(listed, more), listed)
<1> DEFINE unique == Pages!Dedupe(listed)
           Of(s) == {more[j] : j \in {j \in DOMAIN more : more[j].symbol = s}}
           Filled(row) == Pages!Row(row.symbol, row.name \/ \E f \in Of(row.symbol) : f.name,
                                    row.sector \/ \E f \in Of(row.symbol) : f.sector)
           merged == [i \in DOMAIN unique |-> Filled(unique[i])]
<1>1. Pages!Merge(listed, more) = merged
  BY DEF Pages!Merge
<1>2. IsPage(unique) /\ (IsPage(listed) => unique = listed)
  BY DedupeMakesPage
<1>3. \A s \in Symbols : Of(s) \subseteq PageRows
  OBVIOUS
<1>4. ASSUME NEW row \in PageRows
      PROVE  /\ Filled(row) \in PageRows /\ Filled(row).symbol = row.symbol
             /\ row.name => Filled(row).name
             /\ row.sector => Filled(row).sector
  <2> DEFINE name == row.name \/ \E f \in Of(row.symbol) : f.name
             sector == row.sector \/ \E f \in Of(row.symbol) : f.sector
  <2>1. row.symbol \in Symbols /\ (row.sector => row.name)
    BY DEF PageRows
  <2>2. sector => name
    BY <1>3, <2>1 DEF PageRows
  <2>3. name \in BOOLEAN /\ sector \in BOOLEAN
    <3>1. row.name \in BOOLEAN /\ row.sector \in BOOLEAN
      BY DEF PageRows
    <3> QED
      BY <3>1
  <2> HIDE DEF name, sector
  <2>4. Pages!Row(row.symbol, name, sector) \in PageRows
    BY <2>1, <2>2, <2>3 DEF PageRows, Pages!Row
  <2> QED
    BY <2>4 DEF Pages!Row, name, sector
<1> HIDE DEF unique, Filled
<1>5. /\ merged \in Seq(PageRows) /\ Len(merged) = Len(unique)
      /\ \A i \in 1..Len(unique) : merged[i] = Filled(unique[i]) /\ unique[i] \in PageRows
  <2>1. unique \in Seq(PageRows) /\ DOMAIN unique = 1..Len(unique) /\ Len(unique) \in Nat
    BY <1>2 DEF IsPage
  <2>2. \A i \in 1..Len(unique) : unique[i] \in PageRows /\ Filled(unique[i]) \in PageRows
    BY <1>4, <2>1
  <2>3. merged \in [1..Len(unique) -> PageRows] /\ \A i \in 1..Len(unique) : merged[i] = Filled(unique[i])
    BY <2>1, <2>2
  <2> HIDE DEF merged
  <2>4. merged \in Seq(PageRows) /\ Len(merged) = Len(unique)
    BY <2>1, <2>3
  <2> QED
    BY <2>2, <2>3, <2>4
<1> HIDE DEF merged
<1>6. IsPage(merged)
  <2>1. \A i \in 1..Len(unique) : merged[i].symbol = unique[i].symbol
    BY <1>4, <1>5
  <2> QED
    BY <1>2, <1>5, <2>1 DEF IsPage
<1>7. Improves(merged, unique)
  BY <1>4, <1>5 DEF Improves
<1> QED
  BY <1>1, <1>2, <1>6, <1>7

LEMMA ForHasRows ==
  ASSUME NEW listed \in Seq(PageRows), NEW t, TableOfRows(t) PROVE Pages!For(listed, t) \in Seq(PageRows)
<1> DEFINE unique == Pages!Dedupe(listed)
           found == [i \in DOMAIN unique |-> t[unique[i].symbol]]
           S == {i \in DOMAIN found : found[i] # Nothing}
<1>1. unique \in Seq(PageRows)
  BY DedupeMakesPage DEF IsPage
<1>2. \A i \in 1..Len(unique) : unique[i].symbol \in Symbols
  BY <1>1 DEF PageRows
<1>3. found \in Seq(PageRows \cup {Nothing})
  BY <1>1, <1>2 DEF TableOfRows
<1> HIDE DEF found
<1>4. S \in SUBSET Nat /\ IsFiniteSet(S) /\ \A s \in S : found[s] \in PageRows \cup {Nothing}
  <2>1. S \in SUBSET DOMAIN found
    OBVIOUS
  <2> HIDE DEF S
  <2> QED
    BY <1>3, <2>1, PlacesOf
<1>5. \A s \in S : found[s] \in PageRows
  BY <1>4
<1>6. Pages!For(listed, t) = Pages!At(found, S)
  BY DEF Pages!For, found
<1> HIDE DEF S
<1> QED
  BY <1>4, <1>5, <1>6, AtSays

\* What the sources can say of stocks.
KnownOnes == UNION {Pages!Known(s) : s \in Symbols}

LEMMA KnownOnesAre ==
  /\ KnownOnes \subseteq PageRows /\ \A r \in KnownOnes : r \in Pages!Known(r.symbol)
  /\ \A listed : IsPage(listed) => listed \in Seq(KnownOnes)
<1>1. KnownOnes \subseteq PageRows /\ \A r \in KnownOnes : r \in Pages!Known(r.symbol)
  BY KnownRows DEF KnownOnes
<1>2. ASSUME NEW listed, IsPage(listed) PROVE listed \in Seq(KnownOnes)
  <2>1. \A i \in 1..Len(listed) : listed[i] \in KnownOnes
    BY <1>2, KnownRows DEF IsPage, KnownOnes, PageRows
  <2> QED
    BY <1>2, <2>1 DEF IsPage
<1> QED
  BY <1>1, <1>2

\* Each of the two hydrations of a request.
LEMMA NamesFill ==
  ASSUME NEW listed \in Seq(KnownOnes), TableOfRows(basics)
  PROVE  LET named == IF Pages!NeedsNames(listed) THEN Pages!Merge(listed, Pages!For(listed, basics)) ELSE listed
         IN named \in Seq(KnownOnes) /\ (IsPage(listed) => IsPage(named) /\ Improves(named, listed))
<1>1. listed \in Seq(PageRows)
  BY KnownOnesAre
<1>2. CASE Pages!NeedsNames(listed)
  <2> DEFINE named == Pages!Merge(listed, Pages!For(listed, basics))
  <2>1. IsPage(named) /\ (IsPage(listed) => Improves(named, listed))
    BY <1>1, ForHasRows, MergeFills
  <2> HIDE DEF named
  <2>2. named \in Seq(KnownOnes)
    BY <2>1, KnownOnesAre
  <2> QED
    BY <1>2, <2>1, <2>2 DEF named
<1>3. CASE ~Pages!NeedsNames(listed)
  BY <1>3 DEF Improves
<1> QED
  BY <1>2, <1>3

LEMMA ProfilesFill ==
  ASSUME NEW listed \in Seq(KnownOnes), TableOfRows(profile)
  PROVE  LET filled == Pages!Merge(listed, Pages!For(listed, profile))
         IN filled \in Seq(KnownOnes) /\ IsPage(filled) /\ (IsPage(listed) => Improves(filled, listed))
<1> DEFINE filled == Pages!Merge(listed, Pages!For(listed, profile))
<1>1. listed \in Seq(PageRows)
  BY KnownOnesAre
<1>2. IsPage(filled) /\ (IsPage(listed) => Improves(filled, listed))
  BY <1>1, ForHasRows, MergeFills
<1> HIDE DEF filled
<1>3. filled \in Seq(KnownOnes)
  BY <1>2, KnownOnesAre
<1> QED
  BY <1>2, <1>3 DEF filled

PageRecs == [items : Seq(KnownOnes), total : Nat]
PageCalls == [at : {"list", "names", "profiles", "store"}, read : PageRecs \cup {Nothing},
              items : Seq(KnownOnes), total : Nat]

\* What a request has is the page that it read, filled.
CallFills(r) ==
  /\ r.at = "store" => IsPage(r.items)
  /\ r.at = "list" => r.read = Nothing
  /\ r.read # Nothing =>
       IsPage(r.read.items) /\ IsPage(r.items) /\ Improves(r.items, r.read.items) /\ r.total = r.read.total

PageInv ==
  /\ query \in [foreign : BOOLEAN, keyword : BOOLEAN]
  /\ {db, basics, profile} \subseteq Pages!Tables
  /\ page \in PageRecs \cup {Nothing} /\ (page # Nothing => IsPage(page.items))
  /\ call \in [Callers -> PageCalls \cup {Nothing}]
  /\ \A c \in Callers : call[c] # Nothing => CallFills(call[c])

LEMMA PageTypes == ASSUME PageInv PROVE Pages!TypeOK
<1>1. ASSUME NEW listed \in Seq(KnownOnes) PROVE Pages!ShowsKnown(listed)
  <2>1. ASSUME NEW i \in DOMAIN listed PROVE listed[i] \in Pages!Known(listed[i].symbol)
    BY KnownOnesAre
  <2> QED
    BY <2>1 DEF Pages!ShowsKnown
<1>2. page # Nothing => Pages!ShowsKnown(page.items)
  BY <1>1 DEF PageInv, PageRecs
<1>3. ASSUME NEW c \in Callers, call[c] # Nothing
      PROVE  /\ call[c].at \in {"list", "names", "profiles", "store"} /\ Pages!ShowsKnown(call[c].items)
             /\ call[c].read # Nothing => Pages!ShowsKnown(call[c].read.items)
  BY <1>1, <1>3 DEF PageInv, PageCalls, PageRecs
<1> QED
  BY <1>2, <1>3 DEF PageInv, Pages!TypeOK

LEMMA ListedIsKnown ==
  ASSUME PageInv, NEW available \in BOOLEAN
  PROVE  LET rows1 == Pages!Listed(available)
         IN rows1 \in Seq(KnownOnes) /\ Len(rows1) \in Nat /\ Pages!Page(rows1) \in Seq(KnownOnes)
<1>1. ASSUME NEW t \in Pages!Tables PROVE \A s \in Symbols : t[s] # Nothing => t[s] \in KnownOnes
  BY DEF Pages!Tables, KnownOnes
<1>2. ASSUME NEW listed \in Seq(KnownOnes) PROVE Pages!Matching(listed) \in Seq(KnownOnes)
  <2> DEFINE S == {i \in DOMAIN listed : Pages!Matches(listed[i])}
  <2>1. S \in SUBSET Nat /\ IsFiniteSet(S) /\ \A s \in S : listed[s] \in KnownOnes
    BY PlacesOf
  <2> QED
    BY <2>1, AtSays DEF Pages!Matching
<1>3. ASSUME NEW t \in Pages!Tables PROVE Pages!Ordered(t) \in Seq(KnownOnes)
  <2> DEFINE S == {s \in Symbols : t[s] # Nothing}
  <2>1. S \in SUBSET Nat /\ IsFiniteSet(S) /\ \A s \in S : t[s] \in KnownOnes
    BY <1>1, SymbolsAssumption, FS_Subset
  <2> QED
    BY <2>1, AtSays DEF Pages!Ordered
<1> DEFINE found == IF available THEN Pages!Matching(Pages!Ordered(db)) ELSE <<>>
           listed == IF found = <<>> THEN Pages!Filter(Pages!Ordered(basics)) ELSE found
<1>4. found \in Seq(KnownOnes)
  BY <1>2, <1>3 DEF PageInv
<1>5. Pages!Filter(Pages!Ordered(basics)) \in Seq(KnownOnes)
  <2>1. Pages!Ordered(basics) \in Seq(PageRows)
    BY <1>3, KnownOnesAre DEF PageInv
  <2>2. Pages!Dedupe(Pages!Ordered(basics)) \in Seq(KnownOnes)
    BY <2>1, DedupeMakesPage, KnownOnesAre
  <2> QED
    BY <1>2, <2>2 DEF Pages!Filter
<1> HIDE DEF found
<1>6. listed \in Seq(KnownOnes)
  BY <1>4, <1>5
<1>7. Pages!Listed(available) = listed
  BY DEF Pages!Listed, found
<1> HIDE DEF listed
<1>8. Pages!Page(listed) \in Seq(KnownOnes)
  BY <1>6, SymbolsAssumption DEF Pages!Page
<1> QED
  BY <1>6, <1>7, <1>8

\* A request that goes on with rows that fill what it read.
LEMMA PageGoesOn ==
  ASSUME PageInv, NEW c \in Callers, NEW r \in PageCalls, CallFills(r), call' = [call EXCEPT ![c] = r],
         UNCHANGED <<query, db, basics, profile, page>>
  PROVE  PageInv'
<1>1. call' \in [Callers -> PageCalls \cup {Nothing}]
  BY DEF PageInv
<1>2. ASSUME NEW d \in Callers, call'[d] # Nothing PROVE CallFills(call'[d])
  BY <1>2 DEF PageInv
<1> QED
  BY <1>1, <1>2 DEF PageInv

\* A step that leaves the page, or the requests, takes nothing from the page.
LEMMA NothingTaken ==
  ASSUME PageInv, page' = page \/ call' = call PROVE Pages!PagesImproveStep
<1>1. ASSUME NEW c \in Callers, call[c] # Nothing, call[c].read # Nothing
      PROVE  Pages!Fills([items |-> call[c].items, total |-> call[c].total], call[c].read)
  <2>1. IsPage(call[c].read.items) /\ Improves(call[c].items, call[c].read.items)
        /\ call[c].total = call[c].read.total
    BY <1>1 DEF PageInv, CallFills
  <2> QED
    BY <2>1 DEF Improves, IsPage, Pages!Fills
<1> QED
  BY <1>1 DEF Pages!PagesImproveStep

LEMMA PageStep ==
  ASSUME PageInv, [Pages!Next]_(Pages!vars) PROVE PageInv' /\ Pages!PagesImproveStep
<1>1. TableOfRows(db) /\ TableOfRows(basics) /\ TableOfRows(profile)
  BY TablesHaveRows DEF PageInv
<1>2. ASSUME NEW c \in Callers, Pages!Look(c) PROVE PageInv' /\ Pages!PagesImproveStep
  <2> DEFINE r == IF page = Nothing THEN [at |-> "list", read |-> Nothing, items |-> <<>>, total |-> 0]
                  ELSE [at |-> "names", read |-> page, items |-> page.items, total |-> page.total]
  <2>1. call' = [call EXCEPT ![c] = r] /\ UNCHANGED <<query, db, basics, profile, page>>
    BY <1>2 DEF Pages!Look
  <2>2. r \in PageCalls /\ CallFills(r)
    <3>1. CASE page = Nothing
      BY <3>1 DEF PageCalls, CallFills
    <3>2. CASE page # Nothing
      <4>1. page \in PageRecs /\ IsPage(page.items)
        BY <3>2 DEF PageInv
      <4>2. Improves(page.items, page.items)
        BY DEF Improves
      <4> QED
        BY <3>2, <4>1, <4>2 DEF PageCalls, PageRecs, CallFills
    <3> QED
      BY <3>1, <3>2
  <2> HIDE DEF r
  <2> QED
    BY <2>1, <2>2, PageGoesOn, NothingTaken
<1>3. ASSUME NEW c \in Callers, Pages!List(c) PROVE PageInv' /\ Pages!PagesImproveStep
  <2>1. PICK available \in BOOLEAN :
          LET listed == Pages!Listed(available)
          IN Pages!Proceeds(c, "list", "names", Pages!Page(listed), Len(listed))
    BY <1>3 DEF Pages!List
  <2> DEFINE listed == Pages!Listed(available)
             r == [at |-> "names", read |-> call[c].read, items |-> Pages!Page(listed), total |-> Len(listed)]
  <2>2. Pages!Page(listed) \in Seq(KnownOnes) /\ Len(listed) \in Nat
    BY ListedIsKnown
  <2>3. call[c] \in PageCalls /\ call[c].at = "list" /\ CallFills(call[c])
    BY <2>1 DEF Pages!Proceeds, PageInv
  <2>4. call[c].read = Nothing
    BY <2>3 DEF CallFills
  <2>5. call' = [call EXCEPT ![c] = r] /\ UNCHANGED <<query, db, basics, profile, page>>
    BY <2>1 DEF Pages!Proceeds, PageInv
  <2> HIDE DEF listed
  <2>6. r \in PageCalls /\ CallFills(r)
    BY <2>2, <2>4 DEF PageCalls, CallFills
  <2> HIDE DEF r
  <2> QED
    BY <2>5, <2>6, PageGoesOn, NothingTaken
<1>4. ASSUME NEW c \in Callers, Pages!FillNames(c) \/ Pages!FillProfiles(c)
      PROVE  PageInv' /\ Pages!PagesImproveStep
  <2> DEFINE items1 == call[c].items
             names == IF Pages!NeedsNames(items1) THEN Pages!Merge(items1, Pages!For(items1, basics)) ELSE items1
             profiles == Pages!Merge(items1, Pages!For(items1, profile))
             r(to, filled) == [at |-> to, read |-> call[c].read, items |-> filled, total |-> call[c].total]
  <2>1. PICK to, filled :
          /\ call' = [call EXCEPT ![c] = r(to, filled)] /\ UNCHANGED <<query, db, basics, profile, page>>
          /\ call[c] # Nothing
          /\ \/ to = "profiles" /\ filled = names
             \/ to = "store" /\ filled = profiles
    BY <1>4 DEF Pages!FillNames, Pages!FillProfiles, Pages!Proceeds, PageInv
  <2>2. call[c] \in PageCalls /\ CallFills(call[c])
    BY <2>1 DEF PageInv
  <2>3. items1 \in Seq(KnownOnes)
    BY <2>2 DEF PageCalls
  <2>4. /\ filled \in Seq(KnownOnes) /\ (to = "store" => IsPage(filled))
        /\ IsPage(items1) => IsPage(filled) /\ Improves(filled, items1)
    <3> HIDE DEF items1
    <3> QED
      BY <1>1, <2>1, <2>3, NamesFill, ProfilesFill
  <2> HIDE DEF names, profiles
  <2>5. r(to, filled) \in PageCalls
    BY <2>1, <2>2, <2>4 DEF PageCalls
  <2>6. CallFills(r(to, filled))
    BY <2>1, <2>2, <2>4 DEF CallFills, Improves
  <2> HIDE DEF r
  <2> QED
    BY <2>1, <2>5, <2>6, PageGoesOn, NothingTaken
<1>5. ASSUME NEW c \in Callers, Pages!Store(c) PROVE PageInv' /\ Pages!PagesImproveStep
  <2> DEFINE r == call[c]
             answer == [items |-> r.items, total |-> r.total]
  <2>1. /\ r # Nothing /\ r.at = "store" /\ UNCHANGED <<query, db, basics, profile>>
        /\ page' = page \/ page' = answer
        /\ call' = [call EXCEPT ![c] = Nothing]
    BY <1>5 DEF Pages!Store
  <2>2. r \in PageCalls /\ CallFills(r)
    BY <2>1 DEF PageInv
  <2>3. answer \in PageRecs /\ IsPage(answer.items)
    BY <2>1, <2>2 DEF PageCalls, PageRecs, CallFills
  <2>4. r.read # Nothing => Pages!Fills(answer, r.read)
    BY <2>2 DEF CallFills, Improves, IsPage, Pages!Fills
  <2> HIDE DEF answer
  <2>5. page' \in PageRecs \cup {Nothing} /\ (page' # Nothing => IsPage(page'.items))
    BY <2>1, <2>3 DEF PageInv
  <2>6. call' \in [Callers -> PageCalls \cup {Nothing}]
    BY <2>1 DEF PageInv
  <2>7. ASSUME NEW d \in Callers, call'[d] # Nothing PROVE d # c /\ CallFills(call'[d])
    BY <2>1, <2>7 DEF PageInv
  <2>8. PageInv'
    BY <2>1, <2>5, <2>6, <2>7 DEF PageInv
  <2>9. ASSUME NEW d \in Callers, call[d] # Nothing, call'[d] = Nothing
        PROVE  /\ call[d].read # Nothing =>
                    Pages!Fills([items |-> call[d].items, total |-> call[d].total], call[d].read)
               /\ page # Nothing /\ page' # page => call[d].read # page \/ Pages!Fills(page', page)
    <3>1. d = c
      BY <2>1, <2>9 DEF PageInv
    <3> QED
      BY <2>1, <2>4, <3>1 DEF answer
  <2>10. Pages!PagesImproveStep
    BY <2>9 DEF Pages!PagesImproveStep
  <2> QED
    BY <2>8, <2>10
<1>6. ASSUME call' = call, query' = query, {db, basics, profile}' \subseteq Pages!Tables,
             page' \in {page, Nothing}
      PROVE  PageInv' /\ Pages!PagesImproveStep
  <2>1. PageInv'
    BY <1>6 DEF PageInv
  <2> QED
    BY <1>6, <2>1, NothingTaken
<1>7. CASE Pages!SourceChanges
  <2>1. PICK s \in Symbols, row \in (UNION {Pages!Known(t) : t \in Symbols}) \cup {Nothing} :
          /\ row # Nothing => row.symbol = s
          /\ \/ basics' = [basics EXCEPT ![s] = row] /\ UNCHANGED profile
             \/ profile' = [profile EXCEPT ![s] = row] /\ UNCHANGED basics
    BY <1>7 DEF Pages!SourceChanges
  <2>2. row \in Pages!Known(s) \cup {Nothing}
    BY <2>1, KnownRows
  <2>3. ASSUME NEW t \in Pages!Tables PROVE [t EXCEPT ![s] = row] \in Pages!Tables
    BY <2>2 DEF Pages!Tables
  <2> QED
    BY <1>6, <1>7, <2>1, <2>3 DEF Pages!SourceChanges, PageInv
<1>8. CASE Pages!Expire
  BY <1>6, <1>8 DEF Pages!Expire, PageInv
<1>9. CASE UNCHANGED Pages!vars
  BY <1>6, <1>9 DEF Pages!vars, PageInv
<1> QED
  BY <1>2, <1>3, <1>4, <1>5, <1>7, <1>8, <1>9 DEF Pages!Next

LEMMA PageInit == ASSUME Pages!Init PROVE PageInv
<1>1. [s \in Symbols |-> Nothing] \in Pages!Tables
  BY DEF Pages!Tables
<1> QED
  BY <1>1 DEF Pages!Init, PageInv

-----------------------------------------------------------------------------
(* The rows of a user *)

UserCalls == [at : {"idle", "commit", "drop", "store"}, keys : SUBSET Rows,
          read : Users!Tables \cup {Nothing}, value : Values \cup {Nothing}]

\* The types, and that a report about to be stored was made of rows.
UserTypes ==
  /\ kind \in Users!Kinds /\ rows \in Users!Tables /\ cached \in Users!Tables \cup {Nothing} /\ missed \in BOOLEAN
  /\ call \in [Callers -> UserCalls]
  /\ \A c \in Callers : call[c].at = "store" => call[c].read \in Users!Tables

\* A request starts: what it reads are rows, and what it writes a content.
UserBegins(c) ==
  \E at \in {"commit", "store"}, keys \in SUBSET Rows, read \in Users!Tables, v \in Values \cup {Nothing} :
    call[c] = Users!Idle /\ Users!Goes(c, at, keys, read, v) /\ UNCHANGED <<kind, rows, cached, missed>>

UserEnds(c) == Users!Commit(c) \/ Users!Fail(c) \/ Users!DropReports(c) \/ Users!StoreReport(c)

LEMMA UserReadTyped == ASSUME UserTypes, NEW keys \in SUBSET Rows PROVE Users!Read(keys) \in Users!Tables
BY DEF Users!Read, UserTypes, Users!Tables

\* Whatever service a request is for, it starts like the others.
LEMMA UserCases ==
  ASSUME UserTypes, Users!Next PROVE (\E c \in Callers : UserBegins(c) \/ UserEnds(c)) \/ Users!Expire \/ Users!Restart
<1>1. ASSUME NEW c \in Callers, NEW keys \in SUBSET Rows, NEW v \in Values \cup {Nothing}, Users!Upsert(c, keys, v)
      PROVE  UserBegins(c)
  BY <1>1, UserReadTyped DEF Users!Upsert, UserBegins
<1>2. ASSUME NEW c \in Callers, NEW k \in Rows, NEW v \in Values, Users!Create(c, k, v) PROVE UserBegins(c)
  <2>1. {k} \in SUBSET Rows /\ {} \in SUBSET Rows
    OBVIOUS
  <2> QED
    BY <1>2, <2>1, UserReadTyped DEF Users!Create, UserBegins
<1>3. ASSUME NEW c \in Callers, NEW k \in Rows, NEW v \in Values, Users!Record(c, k, v) PROVE UserBegins(c)
  <2>1. {k} \in SUBSET Rows
    OBVIOUS
  <2> QED
    BY <1>1, <1>2, <1>3, <2>1 DEF Users!Record, Users!Update, Users!Delete
<1>4. ASSUME NEW c \in Callers, Users!Report(c) PROVE UserBegins(c)
  <2>1. {} \in SUBSET Rows /\ rows \in Users!Tables
    BY DEF UserTypes
  <2> QED
    BY <1>4, <2>1 DEF Users!Report, UserBegins
<1>5. ASSUME NEW c \in Callers, NEW keys \in SUBSET Rows, NEW k \in Rows, NEW v \in Values,
             \/ Users!WatchTargets(c, keys, k) \/ Users!BoughtTargets(c, keys, k, v) \/ Users!Portfolios(c, keys, k, v)
             \/ Users!MergeMacro(c, keys, v) \/ Users!MergeFactors(c, keys, v)
      PROVE  UserBegins(c)
  <2>1. {k} \in SUBSET Rows /\ Users!Watched \in Values
    BY DEF Users!Watched
  <2>2. Users!Delete(c, k) => UserBegins(c)
    BY <1>1, <2>1 DEF Users!Delete
  <2> QED
    BY <1>1, <1>3, <1>5, <2>1, <2>2
       DEF Users!WatchTargets, Users!BoughtTargets, Users!Portfolios, Users!MergeMacro, Users!MergeFactors
<1>6. ASSUME NEW c \in Callers, NEW k \in Rows, NEW v \in Values,
             \/ Users!MacroRows(c, k, v) \/ Users!Stocks(c, k, v) \/ Users!Financials(c, k, v) \/ Users!Scores(c, k, v)
             \/ Users!IndexRows(c, k, v) \/ Users!FundHoldings(c, k, v)
             \/ Users!AlertRules(c, k, v) \/ Users!SavedFilters(c, k, v)
             \/ Users!Register(c, k, v) \/ Users!EnsureAdmin(c, k, v)
      PROVE  UserBegins(c)
  <2>1. {k} \in SUBSET Rows
    OBVIOUS
  <2> QED
    BY <1>1, <1>2, <1>3, <1>6, <2>1
       DEF Users!MacroRows, Users!Stocks, Users!Financials, Users!Scores, Users!IndexRows, Users!FundHoldings,
           Users!AlertRules, Users!SavedFilters,
           Users!Register, Users!EnsureAdmin
<1>7. ASSUME NEW c \in Callers,
             Users!Diagnostics(c) \/ Users!StressTest(c) \/ Users!PortfolioList(c) \/ Users!PortfolioAnalysis(c)
      PROVE  UserBegins(c)
  BY <1>4, <1>7 DEF Users!Diagnostics, Users!StressTest, Users!PortfolioList, Users!PortfolioAnalysis
<1> QED
  BY <1>5, <1>6, <1>7 DEF Users!Next, UserEnds

LEMMA UserTypesStep == ASSUME UserTypes, [Users!Next]_(Users!vars) PROVE UserTypes'
<1>1. CASE UNCHANGED Users!vars
  BY <1>1 DEF Users!vars, UserTypes
<1>2. ASSUME NEW c \in Callers, UserBegins(c) PROVE UserTypes'
  BY <1>2 DEF UserBegins, Users!Goes, UserTypes, UserCalls
<1>3. ASSUME NEW c \in Callers, UserEnds(c) PROVE UserTypes'
  <2>0. [Users!Idle EXCEPT !.at = "drop"] \in UserCalls /\ Users!Idle \in UserCalls
    BY DEF Users!Idle, UserCalls
  <2>1. CASE Users!Commit(c)
    <3>1. Users!Written(c) \in Users!Tables
      BY DEF Users!Written, UserTypes, Users!Tables, UserCalls
    <3> QED
      BY <2>0, <2>1, <3>1 DEF Users!Commit, UserTypes, Users!Idle
  <2>2. CASE Users!Fail(c)
    BY <2>0, <2>2 DEF Users!Fail, UserTypes, Users!Idle
  <2>3. CASE Users!DropReports(c)
    BY <2>0, <2>3 DEF Users!DropReports, UserTypes, Users!Idle
  <2>4. CASE Users!StoreReport(c)
    BY <2>0, <2>4 DEF Users!StoreReport, UserTypes, Users!Idle
  <2> QED
    BY <1>3, <2>1, <2>2, <2>3, <2>4 DEF UserEnds
<1>4. CASE Users!Expire \/ Users!Restart
  <2>1. Users!Idle \in UserCalls /\ Users!Idle.at = "idle"
    BY DEF Users!Idle, UserCalls
  <2>2. CASE Users!Expire
    BY <2>2 DEF Users!Expire, UserTypes
  <2>3. CASE Users!Restart
    <3>1. missed' \in BOOLEAN
      BY <2>3 DEF Users!Restart
    <3>2. call' \in [Callers -> UserCalls] /\ \A c \in Callers : call'[c].at # "store"
      BY <2>1, <2>3 DEF Users!Restart
    <3> QED
      BY <2>3, <3>1, <3>2 DEF Users!Restart, UserTypes
  <2> QED
    BY <1>4, <2>2, <2>3
<1> QED
  BY <1>1, <1>2, <1>3, <1>4, UserCases

LEMMA UserFollowStep ==
  ASSUME UserTypes, Users!ReportsFollowTargets, [Users!Next]_(Users!vars)
  PROVE  Users!ReportsFollowTargets'
<1>1. CASE UNCHANGED Users!vars
  BY <1>1 DEF Users!vars, Users!ReportsFollowTargets
\* A thread that starts a request was not about to drop reports.
<1>2. ASSUME NEW c \in Callers, UserBegins(c) PROVE Users!ReportsFollowTargets'
  <2>1. UNCHANGED <<kind, rows, cached, missed>> /\ call[c].at # "drop"
        /\ \A d \in Callers : d # c => call'[d] = call[d]
    BY <1>2 DEF UserBegins, Users!Goes, UserTypes, Users!Idle
  <2> QED
    BY <2>1 DEF Users!ReportsFollowTargets
<1>3. ASSUME NEW c \in Callers, UserEnds(c) PROVE Users!ReportsFollowTargets'
  <2>1. CASE Users!Commit(c)
    <3>1. kind' = kind /\ (kind \in Users!Targets => call'[c].at = "drop")
      BY <2>1 DEF Users!Commit, UserTypes, Users!Idle
    <3> QED
      BY <3>1 DEF Users!ReportsFollowTargets
  <2>2. CASE Users!Fail(c)
    <3>1. UNCHANGED <<kind, rows, cached, missed>> /\ call[c].at # "drop"
          /\ \A d \in Callers : d # c => call'[d] = call[d]
      BY <2>2 DEF Users!Fail, UserTypes
    <3> QED
      BY <3>1 DEF Users!ReportsFollowTargets
  <2>3. CASE Users!DropReports(c)
    BY <2>3 DEF Users!DropReports, Users!ReportsFollowTargets
  <2>4. CASE Users!StoreReport(c)
    BY <2>4 DEF Users!StoreReport, Users!ReportsFollowTargets
  <2> QED
    BY <1>3, <2>1, <2>2, <2>3, <2>4 DEF UserEnds
<1>4. CASE Users!Expire \/ Users!Restart
  BY <1>4 DEF Users!Expire, Users!Restart, Users!ReportsFollowTargets, UserTypes
<1> QED
  BY <1>1, <1>2, <1>3, <1>4, UserCases

LEMMA UserInit == ASSUME Users!Init PROVE UserTypes /\ Users!ReportsFollowTargets
<1>1. Users!Idle \in UserCalls
  BY DEF Users!Idle, UserCalls
<1> QED
  BY <1>1 DEF Users!Init, UserTypes, Users!ReportsFollowTargets, Users!Tables, Users!Idle


-----------------------------------------------------------------------------
(* The stock pool of a user *)

PoolCalls == [at : {"idle", "create", "read", "migrate", "update", "delete"},
          json : Pool!Pools \cup {Nothing}, items : Pool!Pools, symbols : Pool!Pools]

PoolTypes ==
  /\ table \in BOOLEAN /\ mixed \in BOOLEAN
  /\ json \in Pool!Pools \cup {Nothing} /\ wish \in Pool!Pools \cup {Nothing} /\ items \in Pool!Pools
  /\ call \in [Callers -> PoolCalls]

\* A migration is about the symbols of the JSON that it read.
MigratesRead ==
  \A c \in Callers : call[c].at = "migrate" =>
    call[c].symbols = IF call[c].json = Nothing THEN {} ELSE call[c].json

\* A pool with rows has an empty JSON, or the one that its rows were made of.
RowsOrJson == ~mixed => items = {} \/ json \in {{}, items}

PoolInv == PoolTypes /\ MigratesRead /\ RowsOrJson /\ Pool!PoolShowsWish

LEMMA PoolTypesStep == ASSUME PoolTypes, [Pool!Next]_(Pool!vars) PROVE PoolTypes'
<1>0. Pool!Idle \in PoolCalls
  BY DEF Pool!Idle, PoolCalls, Pool!Pools
<1>1. CASE UNCHANGED Pool!vars
  BY <1>1 DEF Pool!vars, PoolTypes
<1>2. ASSUME NEW c \in Callers, Pool!FindMissing(c) \/ Pool!CreateTable(c) PROVE PoolTypes'
  <2>1. CASE Pool!FindMissing(c)
    BY <1>2, <2>1 DEF Pool!FindMissing, PoolTypes, PoolCalls
  <2>2. CASE Pool!CreateTable(c)
    BY <1>2, <2>2 DEF Pool!CreateTable, PoolTypes, PoolCalls
  <2> QED
    BY <1>2, <2>1, <2>2
<1>3. ASSUME NEW c \in Callers, NEW symbols \in Pool!Pools,
             Pool!ReadPools(c) \/ Pool!Load(c, "update", symbols) \/ Pool!Load(c, "delete", {})
      PROVE  PoolTypes'
  <2>1. PICK at \in {"migrate", "update", "delete"}, want \in Pool!Pools :
          Pool!Reads(c, at, want) /\ UNCHANGED <<table, json, items, wish, mixed>>
    BY <1>3 DEF Pool!ReadPools, Pool!Load, PoolTypes, Pool!Pools
  <2>2. [at |-> at, json |-> json, items |-> items, symbols |-> want] \in PoolCalls
    BY DEF PoolTypes, PoolCalls
  <2> QED
    BY <2>1, <2>2 DEF Pool!Reads, PoolTypes
<1>4. ASSUME NEW c \in Callers,
             Pool!Migrate(c) \/ Pool!Update(c) \/ Pool!Delete(c) \/ Pool!Fail(c) PROVE PoolTypes'
  <2>1. call[c] \in PoolCalls
    BY DEF PoolTypes
  <2>2. items' \in Pool!Pools /\ json' \in Pool!Pools \cup {Nothing} /\ wish' \in Pool!Pools \cup {Nothing}
    BY <1>4, <2>1 DEF Pool!Migrate, Pool!Update, Pool!Delete, Pool!Fail, PoolTypes, PoolCalls, Pool!Pools
  <2>3. table' \in BOOLEAN /\ mixed' \in BOOLEAN
    BY <1>4 DEF Pool!Migrate, Pool!Update, Pool!Delete, Pool!Fail, Pool!Met, PoolTypes
  <2>4. call' \in [Callers -> PoolCalls]
    BY <1>0, <1>4 DEF Pool!Migrate, Pool!Update, Pool!Delete, Pool!Fail, Pool!Done, PoolTypes
  <2> QED
    BY <2>2, <2>3, <2>4 DEF PoolTypes
<1>5. ASSUME NEW c \in Callers, NEW symbols \in Pool!Pools, Pool!CreatePool(c, symbols) PROVE PoolTypes'
  BY <1>5 DEF Pool!CreatePool, PoolTypes, Pool!Pools
<1>6. CASE Pool!Restart
  BY <1>0, <1>6 DEF Pool!Restart, PoolTypes
<1> QED
  BY <1>1, <1>2, <1>3, <1>4, <1>5, <1>6 DEF Pool!Next, Pool!Pools

LEMMA MigratesReadStep == ASSUME PoolTypes, MigratesRead, [Pool!Next]_(Pool!vars) PROVE MigratesRead'
<1>1. CASE UNCHANGED Pool!vars
  BY <1>1 DEF Pool!vars, MigratesRead
<1>2. ASSUME NEW c \in Callers, Pool!ReadPools(c) PROVE MigratesRead'
  BY <1>2 DEF Pool!ReadPools, Pool!Reads, PoolTypes, MigratesRead
<1>3. ASSUME NEW c \in Callers, NEW symbols \in Pool!Pools,
             \/ Pool!FindMissing(c) \/ Pool!CreateTable(c) \/ Pool!Load(c, "update", symbols) \/ Pool!Load(c, "delete", {})
             \/ Pool!Migrate(c) \/ Pool!Update(c) \/ Pool!Delete(c) \/ Pool!Fail(c) \/ Pool!CreatePool(c, symbols)
      PROVE  MigratesRead'
  <2>1. \A d \in Callers : call'[d].at = "migrate" => call'[d] = call[d]
    BY <1>3 DEF Pool!FindMissing, Pool!CreateTable, Pool!Load, Pool!Reads, Pool!Migrate, Pool!Update,
       Pool!Delete, Pool!Fail, Pool!Done, Pool!CreatePool,
                Pool!Idle, PoolTypes, PoolCalls
  <2> QED
    BY <2>1 DEF MigratesRead
<1>4. CASE Pool!Restart
  BY <1>4 DEF Pool!Restart, MigratesRead, Pool!Idle
<1> QED
  BY <1>1, <1>2, <1>3, <1>4 DEF Pool!Next, Pool!Pools

LEMMA PoolShownStep ==
  ASSUME PoolInv, [Pool!Next]_(Pool!vars) PROVE RowsOrJson' /\ Pool!PoolShowsWish'
<1> USE DEF PoolInv, RowsOrJson, Pool!PoolShowsWish, Pool!Shown
<1>1. CASE UNCHANGED <<json, items, wish, mixed>>
  BY <1>1
<1>2. ASSUME NEW c \in Callers, NEW symbols \in Pool!Pools, Pool!CreatePool(c, symbols)
      PROVE  RowsOrJson' /\ Pool!PoolShowsWish'
  BY <1>2 DEF Pool!CreatePool
\* Where nothing changed since the read, the symbols are those of the JSON, or
\* none; where there are rows, the key lets only the latter through.
<1>3. ASSUME NEW c \in Callers, Pool!Migrate(c), ~mixed' PROVE RowsOrJson' /\ Pool!PoolShowsWish'
  <2>1. ~mixed /\ json = call[c].json /\ items = call[c].items
    BY <1>3 DEF Pool!Migrate, Pool!Met
  <2>2. call[c].symbols = (IF json = Nothing THEN {} ELSE json) /\ call[c].symbols \cap items = {}
    BY <1>3, <2>1 DEF Pool!Migrate, MigratesRead
  <2>3. items' = items \cup call[c].symbols /\ UNCHANGED <<json, wish>>
    BY <1>3 DEF Pool!Migrate
  <2>4. CASE items = {}
    BY <2>1, <2>2, <2>3, <2>4
  <2>5. CASE items # {}
    <3>1. call[c].symbols = {}
      BY <2>1, <2>2, <2>5
    <3> QED
      BY <2>1, <2>3, <2>5, <3>1
  <2> QED
    BY <2>4, <2>5
<1>4. ASSUME NEW c \in Callers, Pool!Update(c), ~mixed' PROVE RowsOrJson' /\ Pool!PoolShowsWish'
  <2>1. items' = call[c].symbols /\ json' = {} /\ wish' = call[c].symbols
    BY <1>4 DEF Pool!Update, Pool!Met
  <2> QED
    BY <2>1
<1>5. ASSUME NEW c \in Callers, Pool!Delete(c) PROVE RowsOrJson' /\ Pool!PoolShowsWish'
  BY <1>5 DEF Pool!Delete
<1>6. CASE mixed'
  BY <1>6
<1> QED
  BY <1>1, <1>2, <1>3, <1>4, <1>5, <1>6
     DEF Pool!Next, Pool!Pools, Pool!FindMissing, Pool!CreateTable, Pool!ReadPools, Pool!Load, Pool!Fail,
         Pool!Restart, Pool!vars

LEMMA PoolInit == ASSUME Pool!Init PROVE PoolInv
<1>1. Pool!Idle \in PoolCalls /\ Pool!Idle.at = "idle"
  BY DEF Pool!Idle, PoolCalls, Pool!Pools
<1>2. items \in Pool!Pools
  BY DEF Pool!Init, Pool!Pools
<1>3. /\ table \in BOOLEAN /\ mixed \in BOOLEAN
      /\ json \in Pool!Pools \cup {Nothing} /\ wish \in Pool!Pools \cup {Nothing}
  BY <1>2 DEF Pool!Init, Pool!Pools
<1>4. call \in [Callers -> PoolCalls] /\ MigratesRead
  <2>1. \A c \in Callers : call[c] = Pool!Idle
    BY DEF Pool!Init
  <2>2. call \in [Callers -> PoolCalls]
    BY <1>1 DEF Pool!Init
  <2> QED
    BY <1>1, <2>1, <2>2 DEF MigratesRead
<1> QED
  BY <1>2, <1>3, <1>4 DEF Pool!Init, PoolInv, PoolTypes, RowsOrJson, Pool!PoolShowsWish, Pool!Shown

-----------------------------------------------------------------------------
(* Tables of reference data *)

TableCalls == [at : {"idle", "fetch", "insert"}, left : SUBSET Partitions, saw : SUBSET Tables!Blocks]

\* A request that is at something has a partition to try.
TableTypes ==
  /\ rows \in [Partitions -> SUBSET Tables!Blocks] /\ made \in 0..MaxBlocks /\ mixed \subseteq Partitions
  /\ call \in [Callers -> TableCalls]
  /\ \A c \in Callers : call[c].at # "idle" => call[c].left # {}

LEMMA LatestIsThere ==
  ASSUME NEW S \in SUBSET Partitions, S # {} PROVE Tables!Max(S) \in S
<1>1. \E p \in S : \A q \in S : p >= q
  BY PartitionAssumption
<1> QED
  BY <1>1 DEF Tables!Max

LEMMA TargetTyped ==
  ASSUME TableTypes, NEW c \in Callers, call[c].at # "idle" PROVE Tables!Target(c) \in Partitions
<1>1. call[c].left \in SUBSET Partitions /\ call[c].left # {}
  BY DEF TableTypes, TableCalls
<1> QED
  BY <1>1, LatestIsThere DEF Tables!Target

\* Whatever a read is of, it begins with partitions to try.
LEMMA TableCases ==
  ASSUME Tables!Next
  PROVE  \E c \in Callers :
           \/ \E left \in SUBSET Partitions :
                left # {} /\ call[c].at = "idle" /\ Tables!Goes(c, "fetch", left)
                /\ UNCHANGED <<rows, made, mixed>>
           \/ Tables!FetchNothing(c) \/ Tables!Fail(c) \/ Tables!Delete(c) \/ Tables!Insert(c)
<1>1. PICK c \in Callers :
        \/ \E p \in Partitions : Tables!Want(c, p) \/ Tables!WantAny(c)
        \/ Tables!FetchNothing(c) \/ Tables!Fail(c) \/ Tables!Delete(c) \/ Tables!Insert(c)
  BY DEF Tables!Next, Tables!BondRows, Tables!FxRows, Tables!InstituteHolds, Tables!InstituteHoldDetails,
         Tables!Recommendations, Tables!ReportDisclosures
<1>2. ASSUME NEW p \in Partitions, Tables!Want(c, p) \/ Tables!WantAny(c)
      PROVE  \E left \in SUBSET Partitions :
               left # {} /\ call[c].at = "idle" /\ Tables!Goes(c, "fetch", left) /\ UNCHANGED <<rows, made, mixed>>
  <2>1. {p} \in SUBSET Partitions /\ {p} # {} /\ Partitions \in SUBSET Partitions /\ Partitions # {}
    OBVIOUS
  <2> QED
    BY <1>2, <2>1 DEF Tables!Want, Tables!WantAny
<1> QED
  BY <1>1, <1>2

LEMMA TableTypesStep == ASSUME TableTypes, [Tables!Next]_(Tables!vars) PROVE TableTypes'
<1>1. CASE UNCHANGED Tables!vars
  BY <1>1 DEF Tables!vars, TableTypes
<1>2. ASSUME NEW c \in Callers, NEW left \in SUBSET Partitions, NEW at \in {"idle", "fetch", "insert"},
             at # "idle" => left # {}, Tables!Goes(c, at, left)
      PROVE  call' \in [Callers -> TableCalls] /\ \A d \in Callers : call'[d].at # "idle" => call'[d].left # {}
  BY <1>2 DEF Tables!Goes, TableTypes, TableCalls
<1>3. ASSUME NEW c \in Callers, NEW left \in SUBSET Partitions,
             left # {}, Tables!Goes(c, "fetch", left), UNCHANGED <<rows, made, mixed>>
      PROVE  TableTypes'
  BY <1>2, <1>3 DEF TableTypes
<1>4. ASSUME NEW c \in Callers, Tables!FetchNothing(c) PROVE TableTypes'
  <2>1. call[c].left \ {Tables!Max(call[c].left)} \in SUBSET Partitions
    BY DEF TableTypes, TableCalls
  <2> QED
    BY <1>2, <1>4, <2>1 DEF Tables!FetchNothing, TableTypes
<1>5. ASSUME NEW c \in Callers, Tables!Fail(c) PROVE TableTypes'
  BY <1>2, <1>5 DEF Tables!Fail, TableTypes
<1>6. ASSUME NEW c \in Callers, Tables!Delete(c) PROVE TableTypes'
  <2>1. rows[Tables!Target(c)] \in SUBSET Tables!Blocks
    BY <1>6, TargetTyped DEF Tables!Delete, TableTypes
  <2> QED
    BY <1>6, <2>1 DEF Tables!Delete, TableTypes, TableCalls
<1>7. ASSUME NEW c \in Callers, Tables!Insert(c) PROVE TableTypes'
  <2>1. Tables!Target(c) \in Partitions
    BY <1>7, TargetTyped DEF Tables!Insert
  <2>2. made' \in 0..MaxBlocks /\ made' \in Tables!Blocks
    BY <1>7, PartitionAssumption DEF Tables!Insert, Tables!Blocks, TableTypes
  <2>3. rows' \in [Partitions -> SUBSET Tables!Blocks] /\ mixed' \subseteq Partitions
    BY <1>7, <2>1, <2>2 DEF Tables!Insert, TableTypes
  <2> QED
    BY <1>2, <1>7, <2>2, <2>3 DEF Tables!Insert, TableTypes
<1> QED
  BY <1>1, <1>3, <1>4, <1>5, <1>6, <1>7, TableCases

LEMMA ShownOnceSays ==
  Tables!ShownOnce <=> \A p \in Partitions : p \notin mixed => Cardinality(rows[p]) <= 1
BY DEF Tables!ShownOnce, Tables!Cardinality, Cardinality

\* What a deletion saw goes; if it saw all that is there, one block is left.
LEMMA ShownOnceStep ==
  ASSUME TableTypes, Tables!ShownOnce, [Tables!Next]_(Tables!vars) PROVE Tables!ShownOnce'
<1>1. CASE UNCHANGED <<rows, mixed>>
  BY <1>1 DEF Tables!ShownOnce
<1>2. ASSUME NEW c \in Callers, Tables!Insert(c) PROVE Tables!ShownOnce'
  <2> SUFFICES ASSUME NEW p \in Partitions, p \notin mixed' PROVE Cardinality(rows'[p]) <= 1
    BY DEF Tables!ShownOnce, Tables!Cardinality, Cardinality
  <2>1. CASE p = Tables!Target(c)
    <3>1. rows[p] \subseteq call[c].saw
      BY <1>2, <2>1 DEF Tables!Insert
    <3>2. rows'[p] = {made'}
      BY <1>2, <2>1, <3>1 DEF Tables!Insert, TableTypes
    <3>3. Cardinality({made'}) = 1
      BY FS_Singleton
    <3> QED
      BY <3>2, <3>3
  <2>2. CASE p # Tables!Target(c)
    BY <1>2, <2>2, ShownOnceSays DEF Tables!Insert, TableTypes
  <2> QED
    BY <2>1, <2>2
<1> QED
  BY <1>1, <1>2, TableCases
     DEF Tables!FetchNothing, Tables!Fail, Tables!Delete, Tables!vars

LEMMA TableInit == ASSUME Tables!Init PROVE TableTypes /\ Tables!ShownOnce
<1>1. Tables!Idle \in TableCalls /\ Tables!Idle.at = "idle"
  BY DEF Tables!Idle, TableCalls
<1>2. TableTypes
  BY <1>1, PartitionAssumption DEF Tables!Init, TableTypes
<1>3. \A p \in Partitions : Cardinality(rows[p]) <= 1
  BY FS_EmptySet DEF Tables!Init
<1> QED
  BY <1>2, <1>3, ShownOnceSays

-----------------------------------------------------------------------------
(* Backtests of the strategy's runs *)

Frames == [of : Backtests!Days, read : Backtests!Days]
RunCalls ==
  [at : {"idle", "train", "json", "pickle", "frames", "open", "features", "compute", "payload",
         "answered"},
   run : Nat, frame : Backtests!Days \cup Frames \cup Backtests!Answers \cup {Nothing}]
AfterAsking == {"json", "pickle", "frames", "open", "features", "compute", "payload", "answered"}
Writing == {"open", "features"}

RunTypes ==
  /\ day \in Backtests!Days /\ mixed \subseteq Backtests!Days /\ runs \in Seq(Backtests!Days)
     /\ Len(runs) <= MaxRuns
  /\ \A r \in 1..Len(runs) : runs[r] <= day
  /\ memory \in [Callers -> [Backtests!Runs -> Backtests!Answers \cup {Nothing}]]
  /\ payloads \in [Backtests!Runs -> Backtests!Answers \cup {Torn, Nothing}]
  /\ features \in [Backtests!Days -> Frames \cup {Torn, Nothing}]
  /\ call \in [Callers -> RunCalls]

\* f is of the day, and unless the day is mixed it is what the features' file has.
FrameOf(f, d) == f.of = d /\ (d \notin mixed => features[d] = f)

\* A request is about a run; it writes features where none were, and computes
\* from those in the file.
RequestInv(c) ==
  LET k == call[c]
      d == runs[k.run]
  IN /\ k.at = "train" => k.frame \in Backtests!Days /\ k.frame <= day
     /\ k.at \in AfterAsking => k.run \in 1..Len(runs)
     /\ k.at \in Writing => k.frame \in Frames /\ k.frame.of = d /\ k.frame.read \in d..day
     /\ k.at = "open" /\ d \notin mixed => features[d] = Nothing
     /\ k.at = "features" /\ d \notin mixed => features[d] = Torn
     /\ k.at = "compute" => k.frame \in Frames /\ FrameOf(k.frame, d)
     /\ k.at = "payload" => /\ k.frame \in Backtests!Answers
                            /\ k.frame.run = k.run /\ FrameOf(k.frame.frame, d)

WritesFor(c, d) == call[c].at \in Writing /\ runs[call[c].run] = d

\* Unless its day is mixed, what is in memory or in an answer's file was made
\* of the features in the file of its day.
MemoryInv(c, r) ==
  memory[c][r] # Nothing =>
    r \in 1..Len(runs) /\ memory[c][r].run = r /\ FrameOf(memory[c][r].frame, runs[r])
PayloadInv(r) ==
  payloads[r] \notin {Torn, Nothing} => r \in 1..Len(runs) /\ FrameOf(payloads[r].frame, runs[r])

RunInv ==
  /\ RunTypes
  /\ \A c \in Callers : RequestInv(c)
  /\ \A b, c \in Callers : \A d \in Backtests!Days \ mixed : WritesFor(b, d) /\ WritesFor(c, d) => b = c
  /\ \A c \in Callers : \A r \in Backtests!Runs : MemoryInv(c, r)
  /\ \A r \in Backtests!Runs : PayloadInv(r)
  /\ \A d \in Backtests!Days : features[d] \in Frames => features[d].of = d /\ features[d].read \in d..day

LEMMA FramesAreThere == Torn \notin Frames /\ Nothing \notin Frames
BY NothingAssumption, RunsAssumption DEF Frames, Backtests!Days

LEMMA RunInvAgrees == ASSUME RunInv PROVE Backtests!BacktestsAgree
<1>1. ASSUME NEW b \in Callers, NEW c \in Callers, NEW q \in DOMAIN runs, NEW r \in DOMAIN runs,
             runs[q] = runs[r], runs[q] \notin mixed, memory[b][q] # Nothing, memory[c][r] # Nothing
      PROVE  memory[b][q].frame = memory[c][r].frame
  <2>1. q \in Backtests!Runs /\ r \in Backtests!Runs
    BY RunsAssumption DEF RunInv, RunTypes, Backtests!Runs
  <2> QED
    BY <1>1, <2>1 DEF RunInv, MemoryInv, FrameOf
<1> QED
  BY <1>1 DEF RunInv, MemoryInv, FrameOf, Backtests!BacktestsAgree

\* A request goes on without touching runs or features.
LEMMA RequestGoesOn ==
  ASSUME RunInv, NEW c \in Callers, NEW new \in RunCalls, call' = [call EXCEPT ![c] = new],
         day' = day, runs' = runs, features' = features, mixed \subseteq mixed',
         mixed' \subseteq Backtests!Days,
         RequestInv(c)',
         new.at \in Writing /\ runs[new.run] \notin mixed' =>
           \A b \in Callers \ {c} : ~WritesFor(b, runs[new.run]),
         memory' \in [Callers -> [Backtests!Runs -> Backtests!Answers \cup {Nothing}]],
         payloads' \in [Backtests!Runs -> Backtests!Answers \cup {Torn, Nothing}],
         \A b \in Callers : \A r \in Backtests!Runs :
           memory'[b][r] # memory[b][r] => MemoryInv(b, r)',
         \A r \in Backtests!Runs : payloads'[r] # payloads[r] => PayloadInv(r)'
  PROVE  RunInv'
<1>1. call' \in [Callers -> RunCalls] /\ call'[c] = new /\ \A b \in Callers \ {c} : call'[b] = call[b]
  BY DEF RunInv, RunTypes
<1>2. RunTypes'
  BY <1>1 DEF RunInv, RunTypes
<1>3. ASSUME NEW b \in Callers PROVE RequestInv(b)'
  <2>1. CASE b # c
    BY <1>1, <2>1 DEF RunInv, RequestInv, FrameOf
  <2> QED
    BY <2>1
<1>4. ASSUME NEW a \in Callers, NEW b \in Callers, NEW d \in Backtests!Days \ mixed',
             WritesFor(a, d)', WritesFor(b, d)'
      PROVE  a = b
  <2>1. CASE a # c /\ b # c
    BY <1>1, <1>4, <2>1 DEF RunInv, WritesFor
  <2>2. CASE a = c /\ b # c
    BY <1>1, <1>4, <2>2 DEF WritesFor
  <2>3. CASE b = c /\ a # c
    BY <1>1, <1>4, <2>3 DEF WritesFor
  <2> QED
    BY <2>1, <2>2, <2>3
<1>5. ASSUME NEW b \in Callers, NEW r \in Backtests!Runs PROVE MemoryInv(b, r)'
  <2>1. CASE memory'[b][r] = memory[b][r]
    BY <2>1 DEF RunInv, MemoryInv, FrameOf
  <2> QED
    BY <2>1
<1>6. ASSUME NEW r \in Backtests!Runs PROVE PayloadInv(r)'
  <2>1. CASE payloads'[r] = payloads[r]
    BY <2>1 DEF RunInv, PayloadInv, FrameOf
  <2> QED
    BY <2>1
<1> QED
  BY <1>2, <1>3, <1>4, <1>5, <1>6 DEF RunInv

\* Features of a day are written by the only one who makes them.
LEMMA FeaturesWritten ==
  ASSUME RunInv, NEW c \in Callers, NEW new \in RunCalls, call' = [call EXCEPT ![c] = new],
         NEW d \in Backtests!Days, NEW f \in Frames \cup {Torn, Nothing}, f \in Frames => f.of = d
         /\ f.read \in d..day,
         features' = [features EXCEPT ![d] = f], mixed \subseteq mixed', mixed' \subseteq Backtests!Days,
         UNCHANGED <<day, runs, memory, payloads>>,
         RequestInv(c)', WritesFor(c, d), new.run = call[c].run
  PROVE  RunInv'
<1>1. call' \in [Callers -> RunCalls] /\ call'[c] = new /\ \A b \in Callers \ {c} : call'[b] = call[b]
  BY DEF RunInv, RunTypes
<1>2. features' \in [Backtests!Days -> Frames \cup {Torn, Nothing}]
  BY DEF RunInv, RunTypes
<1>3. RunTypes'
  BY <1>1, <1>2 DEF RunInv, RunTypes
<1>4. d \notin mixed => features[d] \notin Frames
  BY FramesAreThere DEF RunInv, RequestInv, WritesFor, Writing
<1>5. features'[d] = f /\ \A e \in Backtests!Days \ {d} : features'[e] = features[e]
  BY DEF RunInv, RunTypes
<1>6. ASSUME NEW b \in Callers PROVE RequestInv(b)'
  <2>1. CASE b # c
    <3>1. ~(WritesFor(b, d) /\ d \notin mixed)
      BY <2>1 DEF RunInv
    <3>2. call[b].at \in AfterAsking => runs[call[b].run] \in Backtests!Days
      BY DEF RunInv, RequestInv, RunTypes
    <3>3. call[b].at \in {"compute", "payload"} /\ d \notin mixed => runs[call[b].run] # d
      BY <1>4 DEF RunInv, RequestInv, FrameOf, Backtests!Answers, Frames
    <3> QED
      BY <1>1, <1>5, <2>1, <3>1, <3>2, <3>3 DEF RunInv, RequestInv, FrameOf, WritesFor, Writing, AfterAsking
  <2> QED
    BY <2>1
<1>7. ASSUME NEW a \in Callers, NEW b \in Callers, NEW e \in Backtests!Days \ mixed',
             WritesFor(a, e)', WritesFor(b, e)'
      PROVE  a = b
  <2>1. WritesFor(a, e) /\ WritesFor(b, e)
    BY <1>1, <1>7 DEF WritesFor
  <2> QED
    BY <1>7, <2>1 DEF RunInv
<1>8. ASSUME NEW b \in Callers, NEW r \in Backtests!Runs PROVE MemoryInv(b, r)'
  <2>1. r \in 1..Len(runs) => runs[r] \in Backtests!Days
    BY DEF RunInv, RunTypes
  <2>2. memory[b][r] # Nothing => memory[b][r].frame \in Frames
    BY DEF RunInv, RunTypes, Backtests!Answers, Frames
  <2> QED
    BY <1>4, <1>5, <2>1, <2>2 DEF RunInv, MemoryInv, FrameOf
<1>9. ASSUME NEW r \in Backtests!Runs PROVE PayloadInv(r)'
  <2>1. r \in 1..Len(runs) => runs[r] \in Backtests!Days
    BY DEF RunInv, RunTypes
  <2>2. payloads[r] \notin {Torn, Nothing} => payloads[r].frame \in Frames
    BY DEF RunInv, RunTypes, Backtests!Answers, Frames
  <2> QED
    BY <1>4, <1>5, <2>1, <2>2 DEF RunInv, PayloadInv, FrameOf
<1>10. ASSUME NEW e \in Backtests!Days PROVE features'[e] \in Frames => features'[e].of = e
              /\ features'[e].read \in e..day'
  BY <1>5 DEF RunInv
<1> QED
  BY <1>3, <1>6, <1>7, <1>8, <1>9, <1>10 DEF RunInv

\* What was known of the runs stays so when one is added.
LEMMA RunAdded ==
  ASSUME RunInv, NEW c \in Callers, Backtests!TrainEnd(c) PROVE RunInv'
<1>1. /\ call[c].at = "train" /\ Len(runs) < MaxRuns
      /\ runs' = Append(runs, call[c].frame)
      /\ call' = [call EXCEPT ![c] = Backtests!Idle]
      /\ UNCHANGED <<day, memory, payloads, features, mixed>>
  BY DEF Backtests!TrainEnd
<1>2. Backtests!Idle \in RunCalls /\ Backtests!Idle.at = "idle"
  BY DEF Backtests!Idle, RunCalls
<1>3. /\ call' \in [Callers -> RunCalls] /\ call'[c] = Backtests!Idle
      /\ \A b \in Callers \ {c} : call'[b] = call[b]
  BY <1>1, <1>2 DEF RunInv, RunTypes
<1>4. runs \in Seq(Backtests!Days) /\ call[c].frame \in Backtests!Days /\ call[c].frame <= day
  BY <1>1 DEF RunInv, RunTypes, RequestInv
<1>5. /\ runs' \in Seq(Backtests!Days) /\ Len(runs') = Len(runs) + 1
      /\ \A r \in 1..Len(runs) : r \in 1..Len(runs') /\ runs'[r] = runs[r]
      /\ runs'[Len(runs')] = call[c].frame
  BY <1>1, <1>4
<1>6. RunTypes'
  <2>1. \A r \in 1..Len(runs') : r \in 1..Len(runs) \/ r = Len(runs')
    BY <1>4, <1>5
  <2>2. \A r \in 1..Len(runs') : runs'[r] <= day
    BY <1>4, <1>5, <2>1 DEF RunInv, RunTypes
  <2> QED
    BY <1>1, <1>3, <1>5, <2>2, RunsAssumption DEF RunInv, RunTypes
<1>7. ASSUME NEW b \in Callers PROVE RequestInv(b)'
  <2>1. CASE b # c
    BY <1>1, <1>3, <1>5, <2>1 DEF RunInv, RequestInv, FrameOf, AfterAsking, Writing
  <2>2. CASE b = c
    BY <1>2, <1>3, <2>2 DEF RequestInv, AfterAsking, Writing
  <2> QED
    BY <2>1, <2>2
<1>8. ASSUME NEW a \in Callers, NEW b \in Callers, NEW d \in Backtests!Days \ mixed',
             WritesFor(a, d)', WritesFor(b, d)'
      PROVE  a = b
  <2>1. WritesFor(a, d) /\ WritesFor(b, d)
    BY <1>1, <1>2, <1>3, <1>5, <1>8 DEF RunInv, RequestInv, WritesFor, AfterAsking, Writing
  <2> QED
    BY <1>1, <1>8, <2>1 DEF RunInv
<1>9. ASSUME NEW b \in Callers, NEW r \in Backtests!Runs PROVE MemoryInv(b, r)' /\ PayloadInv(r)'
  BY <1>1, <1>5 DEF RunInv, MemoryInv, PayloadInv, FrameOf
<1>10. ASSUME NEW r \in Backtests!Runs PROVE PayloadInv(r)'
  BY <1>1, <1>5 DEF RunInv, PayloadInv, FrameOf
<1> QED
  BY <1>1, <1>6, <1>7, <1>8, <1>9, <1>10 DEF RunInv

LEMMA RunStep == ASSUME RunInv, [Backtests!Next]_(Backtests!vars) PROVE RunInv'
<1>1. CASE UNCHANGED Backtests!vars
  BY <1>1 DEF Backtests!vars, RunInv, RunTypes, RequestInv, WritesFor, MemoryInv, PayloadInv, FrameOf
<1>2. CASE Backtests!NewPrices
  <2>1. /\ day' = day + 1 /\ day' \in Backtests!Days /\ day \in Nat
        /\ UNCHANGED <<runs, memory, payloads, features, call, mixed>>
    BY <1>2, RunsAssumption DEF Backtests!NewPrices, Backtests!Days, RunInv, RunTypes
  <2>2. \A d \in Backtests!Days : d \in Nat /\ (d <= day => d <= day') /\ d..day \subseteq d..(day')
    BY <2>1 DEF Backtests!Days
  <2>3. \A r \in 1..Len(runs) : runs[r] \in Backtests!Days
    BY DEF RunInv, RunTypes
  <2>4. RunTypes'
    BY <2>1, <2>2, <2>3 DEF RunInv, RunTypes
  <2>5. \A c \in Callers : RequestInv(c)'
    BY <2>1, <2>2, <2>3 DEF RunInv, RequestInv, FrameOf, Writing, AfterAsking
  <2> QED
    BY <2>1, <2>2, <2>4, <2>5 DEF RunInv, WritesFor, MemoryInv, PayloadInv, FrameOf
<1>3. Backtests!Idle \in RunCalls /\ Backtests!Idle.at = "idle"
  BY DEF Backtests!Idle, RunCalls
<1>4. \A c \in Callers : call[c] \in RunCalls /\ RequestInv(c)
  BY DEF RunInv, RunTypes
<1>5. ASSUME NEW c \in Callers, call[c].at \in AfterAsking
      PROVE  /\ call[c].run \in 1..Len(runs) /\ call[c].run \in Backtests!Runs
             /\ runs[call[c].run] \in Backtests!Days
  BY <1>4, <1>5, RunsAssumption DEF RunInv, RunTypes, RequestInv, Backtests!Runs
\* A request that reads, or ends.
<1>6. ASSUME NEW c \in Callers, NEW new \in RunCalls, call' = [call EXCEPT ![c] = new],
             UNCHANGED <<day, runs, memory, payloads, features, mixed>>,
             RequestInv(c)', new.at \notin Writing
      PROVE  RunInv'
  BY <1>6, RequestGoesOn DEF RunInv, RunTypes
<1>7. ASSUME NEW c \in Callers, NEW new \in RunCalls, call' = [call EXCEPT ![c] = new]
      PROVE  call'[c] = new
  BY <1>7 DEF RunInv, RunTypes
<1>8. ASSUME NEW c \in Callers, call' = [call EXCEPT ![c] = Backtests!Idle] PROVE RequestInv(c)'
  BY <1>3, <1>7, <1>8 DEF RequestInv, AfterAsking, Writing
<1>9. ASSUME NEW c \in Callers, NEW d \in Backtests!Days, NEW force \in BOOLEAN,
             Backtests!TrainBegin(c, d, force)
      PROVE  RunInv'
  <2> DEFINE new == [at |-> "train", run |-> 0, frame |-> d]
  <2>1. new \in RunCalls
    BY DEF RunCalls
  <2>2. call' = [call EXCEPT ![c] = new]
    BY <1>9 DEF Backtests!TrainBegin
  <2>3. call'[c] = new
    BY <1>7, <2>1, <2>2
  <2>5. d <= day'
    BY <1>9 DEF Backtests!TrainBegin
  <2>4. RequestInv(c)' /\ new.at \notin Writing
    BY <2>3, <2>5 DEF RequestInv, AfterAsking, Writing
  <2> HIDE DEF new
  <2> QED
    BY <1>6, <1>9, <2>1, <2>2, <2>4 DEF Backtests!TrainBegin
<1>10. ASSUME NEW c \in Callers, Backtests!Ask(c) PROVE RunInv'
  <2> DEFINE new == [at |-> IF memory[c][Len(runs)] # Nothing THEN "answered" ELSE "json",
                     run |-> Len(runs), frame |-> Nothing]
  <2>1. new \in RunCalls
    BY DEF RunCalls, RunInv, RunTypes
  <2>2. call' = [call EXCEPT ![c] = new] /\ Len(runs) > 0
    BY <1>10 DEF Backtests!Ask
  <2>3. call'[c] = new
    BY <1>7, <2>1, <2>2
  <2>4. runs' = runs /\ Len(runs) \in 1..Len(runs)
    BY <1>10, <2>2 DEF Backtests!Ask, RunInv, RunTypes
  <2>5. RequestInv(c)' /\ new.at \notin Writing
    BY <2>3, <2>4 DEF RequestInv, AfterAsking, Writing
  <2> HIDE DEF new
  <2> QED
    BY <1>6, <1>10, <2>1, <2>2, <2>5 DEF Backtests!Ask
\* What a request keeps of its call when it only goes to another place.
<1>11. ASSUME NEW c \in Callers, NEW at \in {"pickle", "frames", "answered", "compute", "features"},
              Backtests!Goes(c, at)
       PROVE  LET new == [call[c] EXCEPT !.at = at]
              IN /\ new \in RunCalls /\ call' = [call EXCEPT ![c] = new] /\ call'[c] = new
                 /\ new.at = at /\ new.run = call[c].run /\ new.frame = call[c].frame
  <2> DEFINE new == [call[c] EXCEPT !.at = at]
  <2>1. call' = [call EXCEPT ![c] = new]
    BY <1>11 DEF Backtests!Goes
  <2>2. new \in RunCalls /\ new.at = at /\ new.run = call[c].run /\ new.frame = call[c].frame
    BY <1>4 DEF RunCalls
  <2> HIDE DEF new
  <2>3. call'[c] = new
    BY <1>7, <2>1, <2>2
  <2> QED
    BY <2>1, <2>2, <2>3 DEF new
<1>12. ASSUME NEW c \in Callers, Backtests!LoadPayload(c) PROVE RunInv'
  <2> DEFINE r == call[c].run
  <2>1. r \in 1..Len(runs) /\ r \in Backtests!Runs
    BY <1>5, <1>12 DEF Backtests!LoadPayload, AfterAsking
  <2>2. CASE payloads[r] \in {Nothing, Torn} \/ payloads[r].run # r
    <3>1. /\ Backtests!Goes(c, "pickle")
          /\ UNCHANGED <<day, runs, memory, payloads, features, mixed>>
      BY <1>12, <2>2 DEF Backtests!LoadPayload
    <3> DEFINE new == [call[c] EXCEPT !.at = "pickle"]
    <3>2. /\ new \in RunCalls /\ call' = [call EXCEPT ![c] = new] /\ call'[c] = new
          /\ new.at = "pickle" /\ new.run = r
      BY <1>11, <3>1
    <3> HIDE DEF new
    <3>3. RequestInv(c)' /\ new.at \notin Writing
      BY <2>1, <3>1, <3>2 DEF RequestInv, AfterAsking, Writing
    <3> QED
      BY <1>6, <3>1, <3>2, <3>3
  <2>3. CASE ~(payloads[r] \in {Nothing, Torn} \/ payloads[r].run # r)
    <3>1. /\ Backtests!Goes(c, "answered")
          /\ UNCHANGED <<day, runs, payloads, features, mixed>>
          /\ memory' = [memory EXCEPT ![c][r] = payloads[r]]
      BY <1>12, <2>3 DEF Backtests!LoadPayload
    <3> DEFINE new == [call[c] EXCEPT !.at = "answered"]
    <3>2. /\ new \in RunCalls /\ call' = [call EXCEPT ![c] = new] /\ call'[c] = new
          /\ new.at = "answered" /\ new.run = r
      BY <1>11, <3>1
    <3> HIDE DEF new
    <3>3. RequestInv(c)' /\ new.at \notin Writing
      BY <2>1, <3>1, <3>2 DEF RequestInv, AfterAsking, Writing
    <3>4. payloads[r] \in Backtests!Answers /\ PayloadInv(r)
      BY <2>1, <2>3 DEF RunInv, RunTypes
    <3>5. /\ memory' \in [Callers -> [Backtests!Runs -> Backtests!Answers \cup {Nothing}]]
          /\ memory'[c][r] = payloads[r]
          /\ \A b \in Callers, q \in Backtests!Runs : b # c \/ q # r => memory'[b][q] = memory[b][q]
      BY <2>1, <3>1, <3>4 DEF RunInv, RunTypes
    <3>6. \A q \in Backtests!Runs : q = r => MemoryInv(c, q)'
      BY <2>3, <3>1, <3>4, <3>5 DEF MemoryInv, PayloadInv, FrameOf
    <3>7. \A b \in Callers : \A q \in Backtests!Runs : memory'[b][q] # memory[b][q] => MemoryInv(b, q)'
      BY <3>5, <3>6
    <3>8. /\ day' = day /\ runs' = runs /\ features' = features /\ mixed \subseteq mixed'
          /\ payloads' \in [Backtests!Runs -> Backtests!Answers \cup {Torn, Nothing}]
          /\ \A q \in Backtests!Runs : payloads'[q] = payloads[q]
      BY <3>1 DEF RunInv, RunTypes
    <3>30. mixed' \subseteq Backtests!Days
      BY <3>1 DEF RunInv, RunTypes
    <3> QED
      BY <3>2, <3>3, <3>5, <3>7, <3>8, RequestGoesOn, <3>30
  <2> QED
    BY <2>2, <2>3
<1>13. ASSUME NEW c \in Callers, Backtests!LoadFeatures(c) PROVE RunInv'
  <2> DEFINE d == runs[call[c].run]
  <2>1. d \in Backtests!Days /\ call[c].run \in 1..Len(runs)
    BY <1>5, <1>13 DEF Backtests!LoadFeatures, AfterAsking
  <2>2. UNCHANGED <<day, runs, memory, payloads, features, mixed>>
    BY <1>13 DEF Backtests!LoadFeatures
  <2>3. CASE features[d] = Torn
    <3>1. call' = [call EXCEPT ![c] = Backtests!Idle]
      BY <1>13, <2>3, NothingAssumption DEF Backtests!LoadFeatures
    <3> QED
      BY <1>3, <1>6, <1>8, <2>2, <3>1 DEF Writing
  <2>4. CASE features[d] = Nothing /\ features[d] # Torn
    <3>1. Backtests!Goes(c, "frames")
      BY <1>13, <2>4 DEF Backtests!LoadFeatures
    <3> DEFINE new == [call[c] EXCEPT !.at = "frames"]
    <3>2. /\ new \in RunCalls /\ call' = [call EXCEPT ![c] = new] /\ call'[c] = new
          /\ new.at = "frames" /\ new.run = call[c].run
      BY <1>11, <3>1
    <3> HIDE DEF new
    <3>3. RequestInv(c)' /\ new.at \notin Writing
      BY <2>1, <2>2, <3>2 DEF RequestInv, AfterAsking, Writing
    <3> QED
      BY <1>6, <2>2, <3>2, <3>3
  <2>5. CASE features[d] \notin {Torn, Nothing}
    <3> DEFINE new == [call[c] EXCEPT !.at = "compute", !.frame = features[d]]
    <3>1. call' = [call EXCEPT ![c] = new]
      BY <1>13, <2>5 DEF Backtests!LoadFeatures
    <3>2. features[d] \in Frames /\ features[d].of = d
      BY <2>1, <2>5 DEF RunInv, RunTypes
    <3>3. new \in RunCalls /\ new.at = "compute" /\ new.run = call[c].run /\ new.frame = features[d]
      BY <1>4, <3>2 DEF RunCalls
    <3> HIDE DEF new
    <3>4. call'[c] = new
      BY <1>7, <3>1, <3>3
    <3>5. RequestInv(c)' /\ new.at \notin Writing
      BY <2>1, <2>2, <3>2, <3>3, <3>4 DEF RequestInv, FrameOf, AfterAsking, Writing
    <3> QED
      BY <1>6, <2>2, <3>1, <3>3, <3>5
  <2> QED
    BY <2>3, <2>4, <2>5
\* Who reads the prices of a day that others make too, or made, mixes the day.
<1>14. ASSUME NEW c \in Callers, Backtests!LoadFrames(c) PROVE RunInv'
  <2> DEFINE d == runs[call[c].run]
             f == [of |-> d, read |-> day]
             new == [call[c] EXCEPT !.at = "open", !.frame = f]
  <2>1. d \in Backtests!Days /\ call[c].run \in 1..Len(runs)
    BY <1>5, <1>14 DEF Backtests!LoadFrames, AfterAsking
  <2>2. /\ call' = [call EXCEPT ![c] = new] /\ UNCHANGED <<day, runs, memory, payloads, features>>
        /\ mixed' = IF Backtests!Making(d) # {c} \/ features[d] # Nothing THEN mixed \cup {d} ELSE mixed
    BY <1>14 DEF Backtests!LoadFrames
  <2>3. f \in Frames /\ f.of = d /\ f.read \in d..day
    BY <2>1 DEF RunInv, RunTypes, Frames, Backtests!Days
  <2>4. new \in RunCalls /\ new.at = "open" /\ new.run = call[c].run /\ new.frame = f
    BY <1>4, <2>3 DEF RunCalls
  <2> HIDE DEF new, f
  <2>5. call'[c] = new
    BY <1>7, <2>2, <2>4
  <2>6. RequestInv(c)'
    BY <2>1, <2>2, <2>3, <2>4, <2>5 DEF RequestInv, AfterAsking, Writing
  <2>7. d \notin mixed' => \A b \in Callers \ {c} : ~WritesFor(b, d)
    BY <2>2 DEF Backtests!Making, WritesFor, Writing
  <2>8. /\ mixed \subseteq mixed' /\ runs[new.run] = d
        /\ memory' \in [Callers -> [Backtests!Runs -> Backtests!Answers \cup {Nothing}]]
        /\ payloads' \in [Backtests!Runs -> Backtests!Answers \cup {Torn, Nothing}]
    BY <2>2, <2>4 DEF RunInv, RunTypes
  <2>30. mixed' \subseteq Backtests!Days
    BY <2>1, <2>2 DEF RunInv, RunTypes
  <2> QED
    BY <2>2, <2>4, <2>6, <2>7, <2>8, RequestGoesOn, <2>30
<1>15. ASSUME NEW c \in Callers, Backtests!OpenFeatures(c) PROVE RunInv'
  <2> DEFINE d == runs[call[c].run]
             new == [call[c] EXCEPT !.at = "features"]
  <2>1. d \in Backtests!Days /\ call[c].run \in 1..Len(runs)
    BY <1>5, <1>15 DEF Backtests!OpenFeatures, AfterAsking
  <2>2. /\ features' = [features EXCEPT ![d] = Torn] /\ UNCHANGED <<day, runs, memory, payloads, mixed>>
        /\ Backtests!Goes(c, "features") /\ call[c].at = "open"
    BY <1>15 DEF Backtests!OpenFeatures
  <2>3. /\ new \in RunCalls /\ call' = [call EXCEPT ![c] = new] /\ call'[c] = new
        /\ new.at = "features" /\ new.run = call[c].run /\ new.frame = call[c].frame
    BY <1>11, <2>2
  <2> HIDE DEF new
  <2>4. features'[d] = Torn
    BY <2>1, <2>2 DEF RunInv, RunTypes
  <2>5. RequestInv(c)'
    BY <1>4, <2>1, <2>2, <2>3, <2>4 DEF RequestInv, AfterAsking, Writing
  <2>6. WritesFor(c, d) /\ Torn \notin Frames
    BY <2>2, FramesAreThere DEF WritesFor, Writing
  <2>30. mixed' \subseteq Backtests!Days
    BY <2>2 DEF RunInv, RunTypes
  <2> QED
    BY <2>1, <2>2, <2>3, <2>5, <2>6, FeaturesWritten, <2>30
<1>16. ASSUME NEW c \in Callers, Backtests!WriteFeatures(c) PROVE RunInv'
  <2> DEFINE d == runs[call[c].run]
             new == [call[c] EXCEPT !.at = "compute"]
  <2>1. d \in Backtests!Days /\ call[c].run \in 1..Len(runs)
    BY <1>5, <1>16 DEF Backtests!WriteFeatures, AfterAsking
  <2>2. /\ UNCHANGED <<day, runs, memory, payloads>> /\ Backtests!Goes(c, "compute")
        /\ call[c].at = "features"
    BY <1>16 DEF Backtests!WriteFeatures
  <2>3. /\ new \in RunCalls /\ call' = [call EXCEPT ![c] = new] /\ call'[c] = new
        /\ new.at = "compute" /\ new.run = call[c].run /\ new.frame = call[c].frame
    BY <1>11, <2>2
  <2> HIDE DEF new
  <2>4. call[c].frame \in Frames /\ call[c].frame.of = d /\ call[c].frame.read \in d..day
    BY <1>4, <2>2 DEF RequestInv, Writing
  <2>5. PICK f \in {call[c].frame, Torn} :
          /\ features' = [features EXCEPT ![d] = f]
          /\ IF f = call[c].frame THEN mixed' = mixed ELSE mixed' = mixed \cup {d}
    BY <1>16, <2>4, FramesAreThere DEF Backtests!WriteFeatures
  <2>6. features'[d] = f
    BY <2>1, <2>5 DEF RunInv, RunTypes
  <2>7. RequestInv(c)'
    BY <2>1, <2>2, <2>3, <2>4, <2>5, <2>6 DEF RequestInv, FrameOf, AfterAsking, Writing
  <2>8. f \in Frames \cup {Torn, Nothing} /\ (f \in Frames => f.of = d /\ f.read \in d..day)
        /\ mixed \subseteq mixed'
    BY <2>4, <2>5, FramesAreThere
  <2>9. WritesFor(c, d)
    BY <2>2 DEF WritesFor, Writing
  <2>30. mixed' \subseteq Backtests!Days
    BY <2>1, <2>5 DEF RunInv, RunTypes
  <2> QED
    BY <2>1, <2>2, <2>3, <2>5, <2>7, <2>8, <2>9, FeaturesWritten, <2>30
<1>17. ASSUME NEW c \in Callers, Backtests!Compute(c) PROVE RunInv'
  <2> DEFINE r == call[c].run
             payload == [run |-> r, frame |-> call[c].frame]
             new == [call[c] EXCEPT !.at = "payload", !.frame = payload]
  <2>1. r \in 1..Len(runs) /\ r \in Backtests!Runs
    BY <1>5, <1>17 DEF Backtests!Compute, AfterAsking
  <2>2. /\ UNCHANGED <<day, runs, features, mixed>>
        /\ memory' = [memory EXCEPT ![c][r] = payload]
        /\ payloads' = [payloads EXCEPT ![r] = Torn]
        /\ call' = [call EXCEPT ![c] = new] /\ call[c].at = "compute"
    BY <1>17 DEF Backtests!Compute
  <2>3. call[c].frame \in Frames /\ FrameOf(call[c].frame, runs[r])
    BY <1>4, <2>2 DEF RequestInv
  <2>4. payload \in Backtests!Answers /\ payload.run = r /\ payload.frame = call[c].frame
    BY <2>1, <2>3 DEF Backtests!Answers, Frames
  <2> HIDE DEF payload
  <2>5. new \in RunCalls /\ new.at = "payload" /\ new.run = r /\ new.frame = payload
    BY <1>4, <2>4 DEF RunCalls
  <2> HIDE DEF new
  <2>6. call'[c] = new
    BY <1>7, <2>2, <2>5
  <2>7. RequestInv(c)' /\ new.at \notin Writing
    BY <2>1, <2>2, <2>3, <2>4, <2>5, <2>6 DEF RequestInv, FrameOf, AfterAsking, Writing
  <2>8. /\ memory' \in [Callers -> [Backtests!Runs -> Backtests!Answers \cup {Nothing}]]
        /\ memory'[c][r] = payload
        /\ \A b \in Callers, q \in Backtests!Runs : b # c \/ q # r => memory'[b][q] = memory[b][q]
    BY <2>1, <2>2, <2>4 DEF RunInv, RunTypes
  <2>9. \A q \in Backtests!Runs : q = r => MemoryInv(c, q)'
    BY <2>1, <2>2, <2>3, <2>4, <2>8 DEF MemoryInv, FrameOf
  <2>10. \A b \in Callers : \A q \in Backtests!Runs : memory'[b][q] # memory[b][q] => MemoryInv(b, q)'
    BY <2>8, <2>9
  <2>11. /\ payloads' \in [Backtests!Runs -> Backtests!Answers \cup {Torn, Nothing}]
         /\ payloads'[r] = Torn /\ \A q \in Backtests!Runs \ {r} : payloads'[q] = payloads[q]
    BY <2>1, <2>2 DEF RunInv, RunTypes
  <2>12. \A q \in Backtests!Runs : payloads'[q] # payloads[q] => PayloadInv(q)'
    BY <2>11 DEF PayloadInv
  <2>30. mixed' \subseteq Backtests!Days
    BY <2>2 DEF RunInv, RunTypes
  <2> QED
    BY <2>2, <2>5, <2>7, <2>8, <2>10, <2>11, <2>12, RequestGoesOn, <2>30
<1>18. ASSUME NEW c \in Callers, Backtests!WritePayload(c) PROVE RunInv'
  <2> DEFINE r == call[c].run
             new == [call[c] EXCEPT !.at = "answered", !.frame = Nothing]
  <2>1. r \in 1..Len(runs) /\ r \in Backtests!Runs
    BY <1>5, <1>18 DEF Backtests!WritePayload, AfterAsking
  <2>2. PICK content \in {call[c].frame, Torn} : payloads' = [payloads EXCEPT ![r] = content]
    BY <1>18 DEF Backtests!WritePayload
  <2>3. /\ UNCHANGED <<day, runs, memory, features, mixed>>
        /\ call' = [call EXCEPT ![c] = new] /\ call[c].at = "payload"
    BY <1>18 DEF Backtests!WritePayload
  <2>4. call[c].frame \in Backtests!Answers /\ FrameOf(call[c].frame.frame, runs[r])
    BY <1>4, <2>3 DEF RequestInv
  <2>5. new \in RunCalls /\ new.at = "answered" /\ new.run = r
    BY <1>4 DEF RunCalls
  <2> HIDE DEF new
  <2>6. call'[c] = new
    BY <1>7, <2>3, <2>5
  <2>7. RequestInv(c)' /\ new.at \notin Writing
    BY <2>1, <2>3, <2>5, <2>6 DEF RequestInv, AfterAsking, Writing
  <2>8. /\ payloads' \in [Backtests!Runs -> Backtests!Answers \cup {Torn, Nothing}]
        /\ payloads'[r] = content /\ \A q \in Backtests!Runs \ {r} : payloads'[q] = payloads[q]
    BY <2>1, <2>2, <2>4 DEF RunInv, RunTypes
  <2>9. \A q \in Backtests!Runs : payloads'[q] # payloads[q] => PayloadInv(q)'
    BY <2>1, <2>2, <2>3, <2>4, <2>8 DEF PayloadInv, FrameOf
  <2>10. /\ memory' \in [Callers -> [Backtests!Runs -> Backtests!Answers \cup {Nothing}]]
    BY <2>3 DEF RunInv, RunTypes
  <2>30. mixed' \subseteq Backtests!Days
    BY <2>3 DEF RunInv, RunTypes
  <2> QED
    BY <2>3, <2>5, <2>7, <2>8, <2>9, <2>10, RequestGoesOn, <2>30
<1>19. ASSUME NEW c \in Callers, Backtests!Return(c) PROVE RunInv'
  BY <1>3, <1>6, <1>8, <1>19 DEF Backtests!Return, Writing
<1>20. ASSUME NEW c \in Callers, Backtests!Crash(c) PROVE RunInv'
  <2>1. /\ memory' = [memory EXCEPT ![c] = [r \in Backtests!Runs |-> Nothing]]
        /\ call' = [call EXCEPT ![c] = Backtests!Idle]
        /\ UNCHANGED <<day, runs, payloads, features, mixed>>
    BY <1>20 DEF Backtests!Crash
  <2>2. /\ memory' \in [Callers -> [Backtests!Runs -> Backtests!Answers \cup {Nothing}]]
        /\ \A r \in Backtests!Runs : memory'[c][r] = Nothing
        /\ \A b \in Callers \ {c} : memory'[b] = memory[b]
    BY <2>1 DEF RunInv, RunTypes
  <2>3. \A b \in Callers : \A r \in Backtests!Runs : memory'[b][r] # memory[b][r] => MemoryInv(b, r)'
    BY <2>2 DEF MemoryInv
  <2>4. payloads' \in [Backtests!Runs -> Backtests!Answers \cup {Torn, Nothing}]
    BY <2>1 DEF RunInv, RunTypes
  <2>5. RequestInv(c)' /\ Backtests!Idle.at \notin Writing
    BY <1>3, <1>8, <2>1 DEF Writing
  <2>30. mixed' \subseteq Backtests!Days
    BY <2>1 DEF RunInv, RunTypes
  <2> QED
    BY <1>3, <2>1, <2>2, <2>3, <2>4, <2>5, RequestGoesOn, <2>30
<1> QED
  BY <1>1, <1>2, <1>9, <1>10, <1>12, <1>13, <1>14, <1>15, <1>16, <1>17, <1>18, <1>19, <1>20, RunAdded
  DEF Backtests!Next

LEMMA RunInit == ASSUME Backtests!Init PROVE RunInv
<1>1. Backtests!Idle \in RunCalls /\ Backtests!Idle.at = "idle"
  BY DEF Backtests!Idle, RunCalls
<1>2. runs \in Seq(Backtests!Days) /\ Len(runs) = 0
  BY DEF Backtests!Init
<1>3. RunTypes
  BY <1>1, <1>2, RunsAssumption DEF Backtests!Init, RunTypes, Backtests!Days
<1>4. \A c \in Callers : call[c].at = "idle"
  BY <1>1 DEF Backtests!Init
<1> QED
  BY <1>3, <1>4, FramesAreThere
  DEF Backtests!Init, RunInv, RequestInv, WritesFor, AfterAsking, Writing, MemoryInv, PayloadInv

LEMMA RunTypesSay == ASSUME RunInv PROVE Backtests!TypeOK
<1>1. day \in Backtests!Days /\ \A r \in DOMAIN runs : runs[r] \in 1..day
  <2>1. \A r \in DOMAIN runs : runs[r] \in Backtests!Days /\ runs[r] <= day
    BY DEF RunInv, RunTypes
  <2> QED
    BY <2>1, RunsAssumption DEF RunInv, RunTypes, Backtests!Days
<1>2. ASSUME NEW d \in Backtests!Days
      PROVE  features[d] \in [of : {d}, read : d..day] \cup {Torn, Nothing}
  BY DEF RunInv, RunTypes, Frames
<1> QED
  BY <1>1, <1>2 DEF RunInv, RunTypes, Backtests!TypeOK

-----------------------------------------------------------------------------
(* The behaviours of MCApi *)

ApiInv ==
  /\ part = "refresh" => RefreshTypes /\ OneHolder
  /\ part = "profile" => ProfileInv
  /\ part = "answers" => AnswerInv
  /\ part = "pages" => PageInv
  /\ part = "users" => UserTypes /\ Users!ReportsFollowTargets
  /\ part = "pool" => PoolInv
  /\ part = "tables" => TableTypes /\ Tables!ShownOnce
  /\ part = "runs" => RunInv

LEMMA ApiInit1 == ASSUME ApiInit PROVE ApiInv
BY RefreshInit, ProfileInit, AnswerInit, PageInit, UserInit, PoolInit, TableInit, RunInit DEF ApiInit, ApiInv

LEMMA ApiStep == ASSUME ApiInv, [ApiNext]_allVars PROVE ApiInv'
<1>1. part' = part
  BY PartStep
<1>2. part = "refresh" => (RefreshTypes /\ OneHolder)'
  BY PartStep, RefreshTypesStep, OneHolderStep DEF ApiInv
<1>3. part = "profile" => ProfileInv'
  BY PartStep, ProfileStep DEF ApiInv
<1>4. part = "answers" => AnswerInv'
  BY PartStep, AnswerStep DEF ApiInv
<1>5. part = "pages" => PageInv'
  BY PartStep, PageStep DEF ApiInv
<1>6. part = "users" => (UserTypes /\ Users!ReportsFollowTargets)'
  BY PartStep, UserTypesStep, UserFollowStep DEF ApiInv
<1>7. part = "pool" => PoolInv'
  BY PartStep, PoolTypesStep, MigratesReadStep, PoolShownStep DEF ApiInv, PoolInv
<1>8. part = "tables" => (TableTypes /\ Tables!ShownOnce)'
  BY PartStep, TableTypesStep, ShownOnceStep DEF ApiInv
<1>9. part = "runs" => RunInv'
  BY PartStep, RunStep DEF ApiInv
<1> QED
  BY <1>1, <1>2, <1>3, <1>4, <1>5, <1>6, <1>7, <1>8, <1>9 DEF ApiInv

LEMMA ApiAlways == ApiSpec => []ApiInv
<1>1. ApiInit => ApiInv
  BY ApiInit1
<1>2. ApiInv /\ [ApiNext]_allVars => ApiInv'
  BY ApiStep
<1> QED
  BY <1>1, <1>2, PTL DEF ApiSpec

\* The types of all parts that keep state: for any threads, symbols, rows and
\* bounds no interleaving takes a variable out of its range, and what a cached
\* page shows of a stock is what a source can say of it.
THEOREM ApiTypesHold == ApiSpec => []ApiTypes
<1>1. RefreshTypes => TypeOK
  BY DEF RefreshTypes
<1>2. ProfileInv => Profile!TypeOK
  BY DEF ProfileInv, ProfileTypes, ProfileCalls, Profile!TypeOK
<1>3. AnswerInv => Answers!TypeOK
  BY DEF AnswerInv, AnswerTypes, AnswerCalls, Answers!TypeOK, Answers!Qualities, Answers!None, Answers!Good
<1>4. PageInv => Pages!TypeOK
  BY PageTypes
<1>5. UserTypes => Users!TypeOK
  BY DEF UserTypes, UserCalls, Users!TypeOK
<1>6. PoolInv => Pool!TypeOK
  BY DEF PoolInv, PoolTypes, PoolCalls, Pool!TypeOK
<1>7. TableTypes => Tables!TypeOK
  BY DEF TableTypes, TableCalls, Tables!TypeOK
<1>8. RunInv => Backtests!TypeOK
  BY RunTypesSay
<1>9. ApiInv => ApiTypes
  BY <1>1, <1>2, <1>3, <1>4, <1>5, <1>6, <1>7, <1>8 DEF ApiInv, ApiTypes
<1> QED
  BY <1>9, ApiAlways, PTL

\* _claim_background_key and its callers: a key that is claimed has exactly one
\* request or job that will give it back, unless its claim was leaked.
THEOREM ClaimsAreBacked == ApiSpec => []JobsClaimsBacked
<1>1. ApiInv => JobsClaimsBacked
  BY OneHolderBacks DEF ApiInv, JobsClaimsBacked
<1> QED
  BY <1>1, ApiAlways, PTL

\* get_live_stock_profile and list_live_stocks: whatever a call was asked for
\* and whatever its sources fail to give, it takes no part from the profile
\* that it found, and a request for a page answers with the page that it read or
\* that page filled, and writes over a page that it read only to fill it.
THEOREM NothingGetsWorse == ApiSpec => NothingWorsens
<1>1. ApiInv /\ [ApiNext]_allVars =>
        [/\ part = "profile" => Profile!PartsKeptStep
         /\ part = "pages" => Pages!PagesImproveStep]_allVars
  BY PartStep, ProfileStep, PageStep DEF ApiInv
<1> QED
  BY <1>1, ApiAlways, PTL DEF ApiSpec, NothingWorsens

\* get_live_kline and the others: no request comes away with less than it had
\* in hand, and what is cached is neither empty nor rows without a signal.
THEOREM BestIsAnswered == ApiSpec => []BestInHand
<1>1. ApiInv => BestInHand
  BY BestSays DEF ApiInv, AnswerInv, BestInHand
<1> QED
  BY <1>1, ApiAlways, PTL

\* invalidate_target_report_cache: no accepted change of targets stays out of
\* the cached reports beyond the request that made it.
THEOREM UserReportsFollow == ApiSpec => []ReportsFollowTargets
<1>1. ApiInv => ReportsFollowTargets
  BY DEF ApiInv, ReportsFollowTargets
<1> QED
  BY <1>1, ApiAlways, PTL

\* A pool shows what its user last stored, however the move to rows is cut off,
\* as long as no two requests for the pool overlap.
THEOREM PoolFollowsWish == ApiSpec => []PoolShowsWish
<1>1. ApiInv => PoolShowsWish
  BY DEF ApiInv, PoolInv, PoolShowsWish
<1> QED
  BY <1>1, ApiAlways, PTL

\* A partition of reference data shows the rows of one fetch, unless two
\* requests filled it together.
THEOREM PartitionShownOnce == ApiSpec => []ShownOnce
<1>1. ApiInv => ShownOnce
  BY DEF ApiInv, ShownOnce
<1> QED
  BY <1>1, ApiAlways, PTL

\* get_smoke_butt_backtest: all processes say the same of runs of a day, through
\* crashes and files cut short, unless two made the day's features.
THEOREM BacktestsSayTheSame == ApiSpec => []BacktestsAgree
<1>1. ApiInv => BacktestsAgree
  BY RunInvAgrees DEF ApiInv, BacktestsAgree
<1> QED
  BY <1>1, ApiAlways, PTL

=============================================================================
