---------------------------- MODULE DbPoolProofs ----------------------------
(***************************************************************************)
(* TLAPS proofs about DbPool, for any threads and configurations: the      *)
(* locks are held by the threads inside their blocks, and a configuration  *)
(* has one engine until the engines are disposed of.                       *)
(***************************************************************************)
EXTENDS DbPool, TLAPS

PoolInv == TypeOK /\ LocksNested /\ EngineShared

LEMMA FreeIsNoThread == Free \notin Threads /\ LoaderConfig \in Configs
BY PoolAssumption

\* An engine that is served is the configuration's one engine afterwards.
LEMMA ServeStep ==
  ASSUME NEW t \in Threads, NEW e \in 1..MaxEngines, TypeOK, EngineShared,
         ServeEngine(t, e), Hand(t, e)
  PROVE  /\ created' \in 0..MaxEngines
         /\ created \in Nat /\ created' \in Nat /\ created <= created' /\ e \in 1..created'
         /\ engines' \in [Configs -> 0..created']
         /\ served' \in [Configs -> SUBSET (1..created')]
         /\ EngineShared'
<1> USE PoolAssumption DEF TypeOK
<1>1. CASE e = engines[want[t]] /\ e # 0 /\ UNCHANGED pool
  <2>1. UNCHANGED <<engines, created>> /\ e \in 1..created
    BY <1>1 DEF pool
  <2>2. served' \in [Configs -> SUBSET (1..created')]
    BY <2>1 DEF Hand
  <2>3. EngineShared'
    BY <1>1, <2>1 DEF Hand, EngineShared
  <2> QED
    BY <2>1, <2>2, <2>3
<1>2. CASE /\ engines[want[t]] = 0 /\ created < MaxEngines /\ e = created + 1
           /\ created' = e /\ engines' = [engines EXCEPT ![want[t]] = e]
  <2>1. served[want[t]] = {}
    BY <1>2 DEF EngineShared
  <2>2. created' \in 0..MaxEngines /\ created \in Nat /\ created' \in Nat
        /\ created <= created' /\ e \in 1..created'
    BY <1>2
  <2>3. engines' \in [Configs -> 0..created']
    BY <1>2, <2>2
  <2>4. served' \in [Configs -> SUBSET (1..created')]
    BY <1>2, <2>2 DEF Hand
  <2>5. EngineShared'
    BY <1>2, <2>1 DEF Hand, EngineShared
  <2> QED
    BY <2>2, <2>3, <2>4, <2>5
<1> QED
  BY <1>1, <1>2 DEF ServeEngine

\* Calls and waits for a lock: nothing is served and no lock is given back.
LEMMA WaitStep ==
  ASSUME NEW t \in Threads, PoolInv,
         CallEngine(t) \/ CallFactory(t) \/ CallLoader(t)
           \/ EnterEngine(t) \/ EnterFactory(t) \/ EnterLoader(t)
  PROVE  PoolInv'
<1> USE FreeIsNoThread DEF PoolInv, Goto, pool, history
<1>1. UNCHANGED <<engines, created, loader, served, disposals>>
  BY DEF CallEngine, CallFactory, CallLoader, EnterEngine, EnterFactory, EnterLoader
<1>2. EngineShared'
  BY <1>1 DEF EngineShared
<1>3. CASE CallEngine(t) \/ CallFactory(t) \/ CallLoader(t)
  <2>1. TypeOK'
    BY <1>1, <1>3 DEF TypeOK, CallEngine, CallFactory, CallLoader
  <2>2. LocksNested'
    BY <1>3 DEF TypeOK, LocksNested, CallEngine, CallFactory, CallLoader
  <2> QED
    BY <1>2, <2>1, <2>2
<1>4. CASE EnterEngine(t)
  <2>1. TypeOK'
    BY <1>1, <1>4 DEF TypeOK, EnterEngine
  <2>2. LocksNested'
    BY <1>4 DEF TypeOK, LocksNested, EnterEngine
  <2> QED
    BY <1>2, <2>1, <2>2
<1>5. CASE EnterFactory(t) \/ EnterLoader(t)
  <2>1. TypeOK'
    BY <1>1, <1>5 DEF TypeOK, EnterFactory, EnterLoader
  <2>2. LocksNested'
    BY <1>5 DEF TypeOK, LocksNested, EnterFactory, EnterLoader
  <2> QED
    BY <1>2, <2>1, <2>2
<1> QED
  BY <1>3, <1>4, <1>5

\* The blocks end, by a return or by an exception, and release what they hold.
LEMMA BlockEnds ==
  ASSUME NEW t \in Threads, PoolInv,
         EngineReturns(t) \/ EngineRaises(t) \/ LoaderConfigRaises(t) \/ LoaderBuilt(t)
  PROVE  PoolInv'
<1> USE FreeIsNoThread DEF PoolInv, Goto, pool, history
<1>1. LocksNested'
  BY DEF TypeOK, LocksNested, EngineReturns, EngineRaises, LoaderConfigRaises, LoaderBuilt
<1>2. CASE EngineRaises(t) \/ LoaderConfigRaises(t)
  <2>1. TypeOK'
    BY <1>2 DEF TypeOK, EngineRaises, LoaderConfigRaises
  <2>2. EngineShared'
    BY <1>2 DEF EngineShared, EngineRaises, LoaderConfigRaises
  <2> QED
    BY <1>1, <2>1, <2>2
<1>3. CASE EngineReturns(t)
  <2>1. PICK e \in 1..MaxEngines : ServeEngine(t, e) /\ Hand(t, e)
    BY <1>3 DEF EngineReturns
  <2>2. TypeOK'
    BY <1>3, <2>1, ServeStep DEF TypeOK, EngineReturns
  <2> QED
    BY <1>1, <2>1, <2>2, ServeStep
<1>4. CASE LoaderBuilt(t)
  <2>1. PICK e \in 1..MaxEngines : ServeEngine(t, e) /\ Hand(t, e) /\ loader' = e
    BY <1>4 DEF LoaderBuilt
  <2>2. TypeOK'
    BY <1>4, <2>1, ServeStep DEF TypeOK, LoaderBuilt
  <2> QED
    BY <1>1, <2>1, <2>2, ServeStep
<1> QED
  BY <1>2, <1>3, <1>4

LEMMA DropStep ==
  ASSUME NEW t \in Threads, PoolInv, DisposeAll(t) \/ ResetLoader(t) PROVE PoolInv'
<1> USE DEF PoolInv, pool, history
<1>1. LocksNested'
  BY DEF LocksNested, DisposeAll, ResetLoader
<1>2. TypeOK'
  BY DEF TypeOK, DisposeAll, ResetLoader
<1>3. EngineShared'
  BY DEF EngineShared, DisposeAll, ResetLoader
<1> QED
  BY <1>1, <1>2, <1>3

THEOREM PoolInvariant == Spec => []PoolInv
<1>1. Init => PoolInv
  BY PoolAssumption DEF Init, PoolInv, TypeOK, LocksNested, EngineShared
<1>2. PoolInv /\ [Next]_vars => PoolInv'
  <2> SUFFICES ASSUME PoolInv, [Next]_vars PROVE PoolInv'
    OBVIOUS
  <2>1. CASE UNCHANGED vars
    BY <2>1 DEF vars, PoolInv, TypeOK, LocksNested, EngineShared
  <2>2. ASSUME NEW t \in Threads,
               CallEngine(t) \/ CallFactory(t) \/ CallLoader(t) \/ DisposeAll(t)
                 \/ ResetLoader(t) \/ Step(t)
        PROVE  PoolInv'
    BY <2>2, WaitStep, BlockEnds, DropStep DEF Step
  <2> QED
    BY <2>1, <2>2 DEF Next
<1> QED
  BY <1>1, <1>2, PTL DEF Spec

\* get_engine, the loader singleton and their rebuilds share one engine per
\* configuration (etl/utils/db_pool.py, etl/loaders/pg_loader.py).
THEOREM PoolEngineShared == Spec => []EngineShared
<1>1. PoolInv => EngineShared
  BY DEF PoolInv
<1> QED
  BY <1>1, PoolInvariant, PTL

\* The two locks follow the blocks and are taken in one order.
THEOREM PoolLocksNested == Spec => []LocksNested
<1>1. PoolInv => LocksNested
  BY DEF PoolInv
<1> QED
  BY <1>1, PoolInvariant, PTL

\* Once a thread hangs in get_session_factory it hangs for good, the engine lock
\* with it, and no engine is served or built any more.
THEOREM PoolHungForGood == Spec => HungForGood
<1>1. PoolInv /\ [Next]_vars =>
        [(\E t \in Threads : Hung(t)) =>
           /\ engineLock' = engineLock
           /\ UNCHANGED pool
           /\ \A t \in Threads : Hung(t) => Hung(t)']_vars
  <2> SUFFICES ASSUME PoolInv, [Next]_vars, NEW h \in Threads, Hung(h)
               PROVE  /\ engineLock' = engineLock
                      /\ UNCHANGED pool
                      /\ \A t \in Threads : Hung(t) => Hung(t)'
    OBVIOUS
  <2> USE FreeIsNoThread DEF PoolInv, LocksNested, Hung
  <2>1. engineLock = h /\ \A t \in Threads \ {h} : pc[t] \notin {"inEngine", "inBuild", "factoryEngine"}
    OBVIOUS
  <2>2. CASE UNCHANGED vars
    BY <2>2 DEF vars, pool
  <2>3. ASSUME NEW t \in Threads,
               CallEngine(t) \/ CallFactory(t) \/ CallLoader(t) \/ DisposeAll(t)
                 \/ ResetLoader(t) \/ EnterLoader(t) \/ LoaderConfigRaises(t)
        PROVE  engineLock' = engineLock /\ UNCHANGED pool /\ pc'[h] = pc[h]
    <3>1. t # h \/ pc' = pc
      BY <2>3 DEF CallEngine, CallFactory, CallLoader, DisposeAll, ResetLoader,
                  EnterLoader, LoaderConfigRaises
    <3> QED
      BY <2>1, <2>3, <3>1 DEF TypeOK, CallEngine, CallFactory, CallLoader, DisposeAll,
           ResetLoader, EnterLoader, LoaderConfigRaises, Goto, pool
  <2>4. ASSUME NEW t \in Threads,
               EnterEngine(t) \/ EnterFactory(t) \/ EngineReturns(t) \/ EngineRaises(t)
                 \/ LoaderBuilt(t)
        PROVE  FALSE
    BY <2>1, <2>4 DEF EnterEngine, EnterFactory, EngineReturns, EngineRaises, LoaderBuilt
  <2> QED
    BY <2>1, <2>2, <2>3, <2>4 DEF Next, Step
<1> QED
  BY <1>1, PoolInvariant, PTL DEF Spec, HungForGood
=============================================================================
