------------------------------- MODULE DbPool -------------------------------
(***************************************************************************)
(* The shared database engines of the ETL: etl/utils/db_pool.py and the    *)
(* loader singleton of etl/loaders/pg_loader.py.  Each with-lock block is  *)
(* two steps, taking the lock and running the block.  threading.Lock is    *)
(* not reentrant.  _session_factory_cache is not a variable: the lines     *)
(* that would fill it come after a call that never returns.                *)
(***************************************************************************)
EXTENDS Naturals

CONSTANTS
  Threads,       \* threads of the ETL process
  Configs,       \* pool configurations, one cache key each
  LoaderConfig,  \* the one pg_loader uses
  Free,          \* a lock nobody holds
  MaxEngines,    \* bound: engines created
  MaxDisposals   \* bound: calls of dispose_all_engines

ASSUME PoolAssumption ==
  /\ LoaderConfig \in Configs /\ Free \notin Threads
  /\ MaxEngines \in Nat /\ MaxDisposals \in Nat

VARIABLES
  engineLock,  \* holder of _engine_lock
  loaderLock,  \* holder of _LOADER_LOCK
  engines,     \* _engine_cache: the engine of each configuration, 0 if none
  created,     \* engines created so far; engine ids count up from 1
  loader,      \* the engine of _LOADER, 0 if None
  pc,          \* where each thread stands
  want,        \* the configuration it asked for
  served,      \* history: the engines handed out for each configuration since
               \* the last dispose_all_engines
  disposals    \* bound: calls of dispose_all_engines that may still be made

vars == <<engineLock, loaderLock, engines, created, loader, pc, want, served, disposals>>
pool == <<engines, created>>
history == <<served, disposals>>

Goto(t, l) == pc' = [pc EXCEPT ![t] = l]

Init ==
  /\ engineLock = Free /\ loaderLock = Free
  /\ engines = [c \in Configs |-> 0] /\ created = 0 /\ loader = 0
  /\ pc = [t \in Threads |-> "idle"]
  /\ want = [t \in Threads |-> LoaderConfig]
  /\ served = [c \in Configs |-> {}]
  /\ disposals = MaxDisposals

-----------------------------------------------------------------------------
(* get_engine *)

CallEngine(t) ==
  /\ pc[t] = "idle"
  /\ \E c \in Configs : want' = [want EXCEPT ![t] = c]
  /\ Goto(t, "engine")
  /\ UNCHANGED <<engineLock, loaderLock, pool, loader, history>>

\* get_session_factory reaches this step with the lock in its own hand.
EnterEngine(t) ==
  /\ pc[t] \in {"engine", "buildLoader", "factoryEngine"}
  /\ engineLock = Free
  /\ engineLock' = t
  /\ Goto(t, IF pc[t] = "engine" THEN "inEngine" ELSE "inBuild")
  /\ UNCHANGED <<loaderLock, pool, loader, want, history>>

\* Mutant: the cache is not consulted.
ServeEngineAlwaysNew(t, e) ==
  /\ created < MaxEngines /\ e = created + 1
  /\ created' = e
  /\ engines' = [engines EXCEPT ![want[t]] = e]

\* The cached engine of the configuration, or a new one that is cached.
ServeEngine(t, e) ==
  \/ /\ e = engines[want[t]] /\ e # 0
     /\ UNCHANGED pool
  \/ /\ engines[want[t]] = 0
     /\ created < MaxEngines /\ e = created + 1
     /\ created' = e
     /\ engines' = [engines EXCEPT ![want[t]] = e]

Hand(t, e) == served' = [served EXCEPT ![want[t]] = @ \cup {e}]

EngineReturns(t) ==
  /\ pc[t] = "inEngine"
  /\ \E e \in 1..MaxEngines : ServeEngine(t, e) /\ Hand(t, e)
  /\ engineLock' = Free
  /\ Goto(t, "idle")
  /\ UNCHANGED <<loaderLock, loader, want, disposals>>

\* Mutant: the locks are taken and released by hand, and the exception skips it.
EngineRaisesLocked(t) ==
  /\ pc[t] \in {"inEngine", "inBuild"}
  /\ engines[want[t]] = 0
  /\ Goto(t, "idle")
  /\ UNCHANGED <<engineLock, loaderLock, pool, loader, want, history>>

\* create_engine raises: both with blocks are left.
EngineRaises(t) ==
  /\ pc[t] \in {"inEngine", "inBuild"}
  /\ engines[want[t]] = 0
  /\ engineLock' = Free
  /\ loaderLock' = IF pc[t] = "inBuild" THEN Free ELSE loaderLock
  /\ Goto(t, "idle")
  /\ UNCHANGED <<pool, loader, want, history>>

-----------------------------------------------------------------------------
(* get_session_factory and create_session *)

CallFactory(t) ==
  /\ pc[t] = "idle"
  /\ \E c \in Configs : want' = [want EXCEPT ![t] = c]
  /\ Goto(t, "factory")
  /\ UNCHANGED <<engineLock, loaderLock, pool, loader, history>>

\* The lock is taken, no factory is cached, and get_engine is called.
EnterFactory(t) ==
  /\ pc[t] = "factory" /\ engineLock = Free
  /\ engineLock' = t
  /\ Goto(t, "factoryEngine")
  /\ UNCHANGED <<loaderLock, pool, loader, want, history>>

-----------------------------------------------------------------------------
(* dispose_all_engines *)

DisposeAll(t) ==
  /\ pc[t] = "idle" /\ engineLock = Free
  /\ disposals > 0
  /\ disposals' = disposals - 1
  /\ engines' = [c \in Configs |-> 0]
  /\ served' = [c \in Configs |-> {}]
  /\ UNCHANGED <<engineLock, loaderLock, created, loader, pc, want>>

-----------------------------------------------------------------------------
(* pg_loader: _get_loader and _reset_loader_cache *)

\* The unlocked first look at _LOADER.
CallLoader(t) ==
  /\ pc[t] = "idle"
  /\ want' = [want EXCEPT ![t] = LoaderConfig]
  /\ Goto(t, IF loader # 0 THEN "idle" ELSE "loader")
  /\ UNCHANGED <<engineLock, loaderLock, pool, loader, history>>

\* The second look, under the lock.
EnterLoader(t) ==
  /\ pc[t] = "loader" /\ loaderLock = Free
  /\ IF loader # 0 THEN Goto(t, "idle") /\ UNCHANGED loaderLock
                   ELSE Goto(t, "buildLoader") /\ loaderLock' = t
  /\ UNCHANGED <<engineLock, pool, loader, want, history>>

\* load_config raises, or postgres_url is missing, before get_engine is called.
LoaderConfigRaises(t) ==
  /\ pc[t] = "buildLoader"
  /\ loaderLock' = Free
  /\ Goto(t, "idle")
  /\ UNCHANGED <<engineLock, pool, loader, want, history>>

LoaderBuilt(t) ==
  /\ pc[t] = "inBuild"
  /\ \E e \in 1..MaxEngines : ServeEngine(t, e) /\ Hand(t, e) /\ loader' = e
  /\ engineLock' = Free /\ loaderLock' = Free
  /\ Goto(t, "idle")
  /\ UNCHANGED <<want, disposals>>

\* _LOADER is dropped; its engine is disposed and stays in _engine_cache.
ResetLoader(t) ==
  /\ pc[t] = "idle" /\ loaderLock = Free
  /\ loader' = 0
  /\ UNCHANGED <<engineLock, loaderLock, pool, pc, want, history>>

-----------------------------------------------------------------------------
\* A call in progress goes on.
Step(t) ==
  \/ EnterEngine(t)
  \/ EngineReturns(t)
  \/ EngineRaises(t)
  \/ EnterFactory(t)
  \/ EnterLoader(t)
  \/ LoaderConfigRaises(t)
  \/ LoaderBuilt(t)

Next ==
  \E t \in Threads :
    \/ CallEngine(t)
    \/ CallFactory(t)
    \/ CallLoader(t)
    \/ DisposeAll(t)
    \/ ResetLoader(t)
    \/ Step(t)

Spec == Init /\ [][Next]_vars

\* A thread that can go on does; a waiter is granted a lock that is released
\* again and again.
FairSpec == Spec /\ \A t \in Threads : SF_vars(Step(t))

-----------------------------------------------------------------------------
(* Properties *)

TypeOK ==
  /\ engineLock \in Threads \cup {Free} /\ loaderLock \in Threads \cup {Free}
  /\ created \in 0..MaxEngines
  /\ engines \in [Configs -> 0..created] /\ loader \in 0..created
  /\ pc \in [Threads -> {"idle", "engine", "inEngine", "factory",
                         "factoryEngine", "loader", "buildLoader", "inBuild"}]
  /\ want \in [Threads -> Configs]
  /\ served \in [Configs -> SUBSET (1..created)]
  /\ disposals \in Nat

\* Every engine handed out for a configuration is the one engine it has until
\* the engines are disposed of: neither get_engine's callers nor the loader's
\* unlocked look and rebuilds bring a second pool for it into being.
EngineShared ==
  \A c \in Configs : \A e \in served[c] : e = engines[c]

\* Each lock is held exactly by the thread inside the block it guards, whether
\* the block was left by a return or by an exception, and the holder of the
\* engine lock never waits for the loader lock: the two are taken in one order.
LocksNested ==
  \A t \in Threads :
    /\ engineLock = t <=> pc[t] \in {"inEngine", "inBuild", "factoryEngine"}
    /\ loaderLock = t <=> pc[t] \in {"buildLoader", "inBuild"}
    /\ engineLock = t => pc[t] # "loader"

\* The thread inside get_session_factory waits for the lock it holds.
Hung(t) == pc[t] = "factoryEngine"

\* Every call returns, as long as nobody has entered get_session_factory.
CallsReturnUnlessHung ==
  \A t \in Threads : pc[t] # "idle" ~> (pc[t] = "idle" \/ \E u \in Threads : Hung(u))

\* Once a thread has entered get_session_factory, no engine is served or built
\* any more and no thread gets the lock: the whole process is stuck with it.
HungForGood ==
  [][(\E t \in Threads : Hung(t)) =>
       /\ engineLock' = engineLock
       /\ UNCHANGED pool
       /\ \A t \in Threads : Hung(t) => Hung(t)']_vars

\* What tests/test_db_pool_optimization.py and verify_db_pool.py expect:
\* get_session_factory returns.
FactoryReturns == \A t \in Threads : pc[t] = "factory" ~> pc[t] = "idle"
=============================================================================
