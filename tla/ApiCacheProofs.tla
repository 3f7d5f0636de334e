--------------------------- MODULE ApiCacheProofs ---------------------------
(***************************************************************************)
(* TLAPS proofs about ApiCache, for any threads, keys and bounds: types,   *)
(* the size of the memory map, how stale a value in it can be, and that    *)
(* invalidation leaves both levels coherent unless it raced.               *)
(***************************************************************************)
EXTENDS ApiCache, FiniteSetTheorems, TLAPS

\* While get_json or set_json runs it is about a key; Redis holds no entry
\* past its time.
Types ==
  /\ TypeOK
  /\ \A t \in Threads : pc[t] \notin {"idle", "drop", "list", "delete"} => key[t] \in Keys
  /\ \A k \in Keys : redis[k] # Nothing => redis[k].dies > now

LEMMA NothingIsNone == Nothing \notin Nat /\ Nothing \notin Keys /\ Nothing \notin Entry
BY CacheAssumption DEF Entry

LEMMA InitTypes == Init => Types
<1> SUFFICES ASSUME Init PROVE Types
  OBVIOUS
<1>1. TypeOK
  BY CacheAssumption DEF Init, TypeOK
<1> QED
  BY <1>1 DEF Init, Types

-----------------------------------------------------------------------------
(* What the memory map's operations do *)

Held == {j \in Keys : memory[j] # Nothing}

LEMMA HeldFinite == IsFiniteSet(Held) /\ Cardinality(Held) \in Nat
<1>1. Held \subseteq Keys
  BY DEF Held
<1> QED
  BY <1>1, CacheAssumption, FS_Subset, FS_CardinalityType

LEMMA GetStep ==
  ASSUME NEW k \in Keys, TypeOK, MemoryGet(k)
  PROVE  /\ memory' \in [Keys -> Entry \cup {Nothing}]
         /\ \A j \in Keys : memory'[j] \in {memory[j], Nothing}
BY DEF TypeOK, MemoryGet

\* Whatever is evicted, the entry of k is the only new one.
LEMMA SetStep ==
  ASSUME NEW k \in Keys, NEW entry \in Entry, TypeOK, MemorySet(k, entry)
  PROVE  /\ memory' \in [Keys -> Entry \cup {Nothing}]
         /\ memory'[k] = entry
         /\ \A j \in Keys \ {k} : memory'[j] \in {memory[j], Nothing}
<1>1. PICK out \in Evict(k) :
        memory' = [j \in Keys |-> IF j = k THEN entry
                                  ELSE IF j \in out THEN Nothing ELSE memory[j]]
  BY DEF MemorySet
<1> QED
  BY <1>1 DEF TypeOK

LEMMA HeldBound == MemoryBounded <=> Cardinality(Held) <= MaxMemory
BY DEF MemoryBounded, Held

\* A map that gains no key stays within its limit.
LEMMA FewerHeld ==
  ASSUME MemoryBounded, Held' \subseteq Held PROVE MemoryBounded'
<1>1. Cardinality(Held) \in Nat /\ IsFiniteSet(Held)
  BY HeldFinite
<1>2. Cardinality(Held') <= Cardinality(Held) /\ Cardinality(Held') \in Nat
  BY <1>1, FS_Subset, FS_CardinalityType
<1>3. Cardinality(Held') <= MaxMemory
  BY <1>1, <1>2, CacheAssumption, HeldBound
<1> QED
  BY <1>3 DEF MemoryBounded, Held

\* Room is made before the entry of k goes in: what stays of the other keys
\* is less than the limit.
LEMMA EvictMakesRoom ==
  ASSUME NEW k \in Keys, NEW out \in Evict(k), k \notin Held, MemoryBounded
  PROVE  Cardinality(Held \ out) < MaxMemory
<1> DEFINE left == {j \in Keys : Fresh(j)}
           kept == IF EvictCount < Cardinality(left) THEN Cardinality(left) - EvictCount ELSE 0
<1>1. IsFiniteSet(Held) /\ Cardinality(Held) \in Nat /\ Cardinality(Held) <= MaxMemory
  BY HeldFinite, HeldBound
<1>2. left \subseteq Held
  BY DEF Held, Fresh
<1>3. IsFiniteSet(left) /\ Cardinality(left) \in Nat /\ Cardinality(left) <= Cardinality(Held)
  BY <1>1, <1>2, FS_Subset, FS_CardinalityType
<1>4. CASE Cardinality(Held) < MaxMemory
  <2>1. Held \ out \subseteq Held
    OBVIOUS
  <2>2. Cardinality(Held \ out) <= Cardinality(Held) /\ Cardinality(Held \ out) \in Nat
    BY <1>1, <2>1, FS_Subset, FS_CardinalityType
  <2> QED
    BY <1>1, <1>4, <2>2, CacheAssumption
<1>5. CASE ~(Cardinality(Held) < MaxMemory) /\ Cardinality(left) < MaxMemory
  <2>1. out = Held \ left
    BY <1>5 DEF Evict, Held
  <2>2. Held \ out = left
    BY <1>2, <2>1
  <2> QED
    BY <1>5, <2>2
<1>6. CASE ~(Cardinality(Held) < MaxMemory) /\ ~(Cardinality(left) < MaxMemory)
  <2>1. out \in {Held \ s : s \in {s \in SUBSET left :
            /\ Cardinality(s) = kept
            /\ \A i \in left \ s, j \in s : memory[i].dies <= memory[j].dies}}
    BY <1>6 DEF Evict, Held
  <2>2. PICK s \in SUBSET left : Cardinality(s) = kept /\ out = Held \ s
    BY <2>1
  <2>3. Held \ out = s
    BY <1>2, <2>2
  <2>4. kept < MaxMemory
    BY <1>1, <1>3, CacheAssumption
  <2> QED
    BY <2>2, <2>3, <2>4
<1> QED
  BY <1>4, <1>5, <1>6

LEMMA SetKeepsBound ==
  ASSUME NEW k \in Keys, NEW entry \in Entry, TypeOK, MemoryBounded, MemorySet(k, entry)
  PROVE  MemoryBounded'
<1>1. PICK out \in Evict(k) :
        memory' = [j \in Keys |-> IF j = k THEN entry
                                  ELSE IF j \in out THEN Nothing ELSE memory[j]]
  BY DEF MemorySet
<1>2. CASE k \in Held
  <2>1. Held' \subseteq Held
    BY <1>1, <1>2 DEF Held
  <2> QED
    BY <2>1, FewerHeld
<1>3. CASE k \notin Held
  <2>1. Held' \subseteq (Held \ out) \cup {k}
    BY <1>1 DEF Held
  <2>2. Cardinality(Held \ out) < MaxMemory
    BY <1>3, EvictMakesRoom
  <2>3. IsFiniteSet(Held \ out) /\ Cardinality(Held \ out) \in Nat
    BY HeldFinite, FS_Subset, FS_CardinalityType
  <2>4. /\ IsFiniteSet((Held \ out) \cup {k})
        /\ Cardinality((Held \ out) \cup {k}) \in Nat
        /\ Cardinality((Held \ out) \cup {k}) <= Cardinality(Held \ out) + 1
    <3>1. /\ IsFiniteSet((Held \ out) \cup {k})
          /\ \/ Cardinality((Held \ out) \cup {k}) = Cardinality(Held \ out)
             \/ Cardinality((Held \ out) \cup {k}) = Cardinality(Held \ out) + 1
      BY <2>3, FS_AddElement
    <3> QED
      BY <2>3, <3>1
  <2>5. Cardinality(Held') <= Cardinality((Held \ out) \cup {k}) /\ Cardinality(Held') \in Nat
    BY <2>1, <2>4, FS_Subset, FS_CardinalityType
  <2>6. Cardinality(Held') <= MaxMemory
    BY <2>2, <2>3, <2>4, <2>5, CacheAssumption
  <2> QED
    BY <2>6 DEF MemoryBounded, Held
<1> QED
  BY <1>2, <1>3

-----------------------------------------------------------------------------
(* Types: one lemma for the steps that treat the two levels alike *)

LEMMA EnvironmentTypes ==
  ASSUME Types, Tick \/ (\E k \in Keys : SourceMoves(k)) PROVE Types'
<1> USE NothingIsNone, CacheAssumption DEF Types, TypeOK, local, writer
<1>1. CASE Tick
  <2>1. now' \in 0..MaxTime /\ now' = now + 1 /\ now \in Nat
    BY <1>1 DEF Tick
  <2>2. \A k \in Keys : redis[k] # Nothing => redis[k].dies \in Nat
    BY DEF Entry
  <2>3. /\ redis' \in [Keys -> Entry \cup {Nothing}]
        /\ \A k \in Keys : redis'[k] # Nothing => redis'[k].dies > now'
    BY <1>1, <2>1, <2>2 DEF Tick
  <2> QED
    BY <1>1, <2>1, <2>3 DEF Tick
<1>2. CASE \E k \in Keys : SourceMoves(k)
  <2>1. PICK k \in Keys : SourceMoves(k)
    BY <1>2
  <2>2. changed' \in [Keys -> Seq(Nat)]
    BY <2>1 DEF SourceMoves, Move
  <2>3. raced' \in [Keys -> BOOLEAN]
    BY <2>1, Zenon DEF SourceMoves, Move, Filling
  <2> QED
    BY <2>1, <2>2, <2>3 DEF SourceMoves
<1> QED
  BY <1>1, <1>2

\* Steps of get_json and of the computation that leave both levels alone.
LEMMA ReadTypes ==
  ASSUME Types, NEW t \in Threads,
         \/ \E k \in Keys : CallGet(t, k)
         \/ ReadRedis(t) \/ ReadTtl(t) \/ RedisHasNot(t) \/ Load(t) \/ LoadRaises(t)
  PROVE  Types'
<1> USE NothingIsNone, CacheAssumption DEF Types, TypeOK, source, local, writer, Goto, Finish, Take
<1>1. CASE \E k \in Keys : CallGet(t, k)
  BY <1>1 DEF CallGet, Ask
<1>2. CASE ReadRedis(t)
  <2>1. key[t] \in Keys /\ redis[key[t]].version \in Nat
    BY <1>2 DEF ReadRedis, Entry
  <2>2. raced' \in [Keys -> BOOLEAN]
    BY <1>2, <2>1, Zenon DEF ReadRedis, Deleting
  <2> QED
    BY <1>2, <2>1, <2>2 DEF ReadRedis
<1>3. CASE ReadTtl(t)
  <2>1. PICK left \in Told(key[t]) : ttl' = [ttl EXCEPT ![t] = left]
    BY <1>3 DEF ReadTtl
  <2>2. key[t] \in Keys /\ (redis[key[t]] # Nothing => redis[key[t]].dies \in Nat)
    BY <1>3 DEF ReadTtl, Entry
  <2>3. left \in Nat
    BY <2>1, <2>2 DEF Told
  <2> QED
    BY <1>3, <2>1, <2>3 DEF ReadTtl
<1>4. CASE RedisHasNot(t)
  <2>1. pc[t] \in {"redis", "ttl"} /\ key[t] \in Keys
    BY <1>4 DEF RedisHasNot
  <2>2. /\ pc' = [pc EXCEPT ![t] = "fallback"] /\ hand' = [hand EXCEPT ![t] = Nothing]
        /\ UNCHANGED <<source, memory, redis, key, began, ttl, writer, raced>>
    BY <1>4 DEF RedisHasNot
  <2> QED
    BY <2>1, <2>2
<1>5. CASE Load(t)
  <2>1. key[t] \in Keys /\ changed[key[t]] \in Seq(Nat)
    BY <1>5 DEF Load
  <2>2. Version(key[t]) \in Nat
    BY <2>1 DEF Version
  <2> QED
    BY <1>5, <2>1, <2>2 DEF Load
<1>6. CASE LoadRaises(t)
  BY <1>6 DEF LoadRaises
<1> QED
  BY <1>1, <1>2, <1>3, <1>4, <1>5, <1>6

\* Looks into the memory map.
LEMMA LookTypes ==
  ASSUME Types, NEW t \in Threads, LookMemoryFirst(t) \/ Fallback(t)
  PROVE  Types'
<1> USE NothingIsNone DEF Types, source, writer, local
<1>1. key[t] \in Keys /\ MemoryGet(key[t])
  BY DEF TypeOK, LookMemoryFirst, Fallback
<1>2. memory' \in [Keys -> Entry \cup {Nothing}]
  BY <1>1, GetStep
<1>3. /\ pc[t] \in {"memory", "fallback"} /\ UNCHANGED <<source, redis, writer, raced>>
      /\ \/ Finish(t)
         \/ /\ \E l \in {"redis", "fallback", "load"} : Goto(t, l)
            /\ UNCHANGED local
  BY DEF LookMemoryFirst, Fallback, Ask
<1>4. CASE Finish(t)
  BY <1>2, <1>3, <1>4 DEF TypeOK, Finish, Goto
<1>5. CASE (\E l \in {"redis", "fallback", "load"} : Goto(t, l)) /\ UNCHANGED local
  BY <1>1, <1>2, <1>3, <1>5 DEF TypeOK, Goto
<1> QED
  BY <1>3, <1>4, <1>5

\* Entries are stored with the version in hand.
LEMMA StoredEntry ==
  ASSUME Types, NEW t \in Threads, pc[t] \in {"fill", "store", "storeRedis"}
  PROVE  /\ key[t] \in Keys /\ hand[t] \in Nat
         /\ EntryOf(hand[t], Ttl) \in Entry /\ EntryOf(hand[t], ttl[t]) \in Entry
<1>1. key[t] \in Keys
  BY DEF Types
<1>2. hand[t] \in Nat
  BY DEF Types, TypeOK
<1>3. now + Ttl \in Nat /\ now + ttl[t] \in Nat
  BY CacheAssumption DEF Types, TypeOK
<1> QED
  BY <1>1, <1>2, <1>3 DEF EntryOf, Entry

LEMMA StoreTypes ==
  ASSUME Types, NEW t \in Threads, FillMemory(t) \/ StoreMemory(t) \/ StoreRedis(t)
  PROVE  Types'
<1> USE NothingIsNone DEF Types, source, writer, local
<1>1. CASE FillMemory(t)
  <2>1. memory' \in [Keys -> Entry \cup {Nothing}]
    BY <1>1, StoredEntry, SetStep DEF FillMemory
  <2> QED
    BY <1>1, <2>1 DEF TypeOK, FillMemory, Goto, Finish
<1>2. CASE StoreMemory(t)
  <2>1. memory' \in [Keys -> Entry \cup {Nothing}]
    BY <1>2, StoredEntry, SetStep DEF StoreMemory
  <2>2. pc[t] = "store" /\ UNCHANGED <<source, redis, writer, raced>> /\ key[t] \in Keys
    BY <1>2, StoredEntry DEF StoreMemory
  <2>3. CASE Goto(t, "storeRedis") /\ UNCHANGED local
    BY <2>1, <2>2, <2>3 DEF TypeOK, Goto
  <2>4. CASE Finish(t)
    BY <2>1, <2>2, <2>4 DEF TypeOK, Goto, Finish
  <2> QED
    BY <1>2, <2>3, <2>4 DEF StoreMemory
<1>3. CASE StoreRedis(t)
  <2>1. /\ redis' \in [Keys -> Entry \cup {Nothing}]
        /\ \A k \in Keys : redis'[k] # Nothing => redis'[k].dies > now
    <3> DEFINE entry == EntryOf(hand[t], Ttl)
    <3>1. entry \in Entry
      BY <1>3, StoredEntry DEF StoreRedis
    <3>2. entry.dies > now
      BY CacheAssumption DEF EntryOf, TypeOK
    <3>3. redis' = redis \/ redis' = [redis EXCEPT ![key[t]] = entry]
      BY <1>3 DEF StoreRedis
    <3>4. redis \in [Keys -> Entry \cup {Nothing}]
          /\ \A k \in Keys : redis[k] # Nothing => redis[k].dies > now
      BY DEF TypeOK
    <3> HIDE DEF entry, Types
    <3>5. CASE redis' = redis
      BY <3>4, <3>5
    <3>6. CASE redis' = [redis EXCEPT ![key[t]] = entry]
      <4>1. \A k \in Keys : redis'[k] = redis[k] \/ redis'[k] = entry
        BY <3>4, <3>6
      <4>2. redis' \in [Keys -> Entry \cup {Nothing}]
        BY <3>1, <3>4, <3>6
      <4> QED
        BY <3>2, <3>4, <4>1, <4>2
    <3> QED
      BY <3>3, <3>5, <3>6
  <2> QED
    BY <1>3, <2>1 DEF TypeOK, StoreRedis, Goto, Finish
<1> QED
  BY <1>1, <1>2, <1>3

\* Commits, and the steps of delete_cache_pattern.
LEMMA WriterTypes ==
  ASSUME Types, NEW t \in Threads,
         \/ Commit(t) \/ ClearCache(t) \/ DropMemory(t)
         \/ ListKeys(t) \/ NoRedis(t) \/ DeleteKeys(t) \/ DeleteRaises(t)
  PROVE  Types'
<1> USE NothingIsNone, CacheAssumption DEF Types, source, writer, local, Goto, ScopeDone
<1>1. CASE Commit(t)
  <2>1. changed' \in [Keys -> Seq(Nat)]
    BY <1>1 DEF TypeOK, Commit, Move
  <2>2. raced' \in [Keys -> BOOLEAN]
    BY <1>1, Zenon DEF TypeOK, Commit, Move, Filling
  <2>3. todo' \in [Threads -> SUBSET SUBSET Keys]
    BY <1>1 DEF TypeOK, Commit
  <2> QED
    BY <1>1, <2>1, <2>2, <2>3 DEF TypeOK, Commit
<1>2. CASE ClearCache(t)
  BY <1>2 DEF TypeOK, ClearCache
<1>3. CASE DropMemory(t)
  BY <1>3 DEF TypeOK, DropMemory, Dropped
<1>4. CASE ListKeys(t)
  <2> DEFINE found == {k \in scope[t] : redis[k] # Nothing}
  <2>1. /\ pc[t] = "list" /\ UNCHANGED <<source, memory, redis, local, todo, raced>>
        /\ \/ scope' = [scope EXCEPT ![t] = {}]
              /\ \E l \in {"idle", "drop"} : pc' = [pc EXCEPT ![t] = l]
           \/ scope' = [scope EXCEPT ![t] = found] /\ pc' = [pc EXCEPT ![t] = "delete"]
    BY <1>4 DEF ListKeys
  <2>2. found \in SUBSET Keys /\ {} \in SUBSET Keys /\ scope \in [Threads -> SUBSET Keys]
    BY DEF TypeOK
  <2> HIDE DEF found, Types
  <2>3. scope' \in [Threads -> SUBSET Keys]
    BY <2>1, <2>2
  <2>4. \E l \in {"idle", "drop", "delete"} : pc' = [pc EXCEPT ![t] = l]
    BY <2>1
  <2> QED
    BY <2>1, <2>3, <2>4 DEF TypeOK, Types
<1>5. CASE NoRedis(t)
  BY <1>5 DEF TypeOK, NoRedis
<1>6. CASE DeleteKeys(t)
  BY <1>6 DEF TypeOK, DeleteKeys
<1>7. CASE DeleteRaises(t)
  <2>1. raced' \in [Keys -> BOOLEAN]
    BY <1>7, Zenon DEF TypeOK, DeleteRaises
  <2> QED
    BY <1>7, <2>1 DEF TypeOK, DeleteRaises
<1> QED
  BY <1>1, <1>2, <1>3, <1>4, <1>5, <1>6, <1>7

LEMMA TypesStep == Types /\ [Next]_vars => Types'
<1> SUFFICES ASSUME Types, [Next]_vars PROVE Types'
  OBVIOUS
<1>1. CASE UNCHANGED vars
  BY <1>1 DEF Types, TypeOK, vars, source, local, writer
<1>2. CASE Next
  BY <1>2, EnvironmentTypes, ReadTypes, LookTypes, StoreTypes, WriterTypes DEF Next
<1> QED
  BY <1>1, <1>2

\* TypeOK holds of every behaviour: in particular a thread holds a version
\* exactly while it is between reading one and storing it.
THEOREM TypesHold == Spec => []TypeOK
<1>1. Spec => []Types
  BY InitTypes, TypesStep, PTL DEF Spec
<1>2. Types => TypeOK
  BY DEF Types
<1> QED
  BY <1>1, <1>2, PTL

-----------------------------------------------------------------------------
(* The memory map's limit *)

LEMMA BoundStep == Types /\ MemoryBounded /\ [Next]_vars => MemoryBounded'
<1> SUFFICES ASSUME Types, MemoryBounded, [Next]_vars PROVE MemoryBounded'
  OBVIOUS
<1>1. CASE memory' = memory
  BY <1>1 DEF MemoryBounded
<1>2. CASE \E t \in Threads : LookMemoryFirst(t) \/ Fallback(t) \/ DropMemory(t)
  <2>1. PICK t \in Threads : LookMemoryFirst(t) \/ Fallback(t) \/ DropMemory(t)
    BY <1>2
  <2>2. CASE LookMemoryFirst(t) \/ Fallback(t)
    <3>1. key[t] \in Keys /\ MemoryGet(key[t])
      BY <2>2 DEF Types, TypeOK, LookMemoryFirst, Fallback
    <3>2. \A j \in Keys : memory'[j] \in {memory[j], Nothing}
      BY <3>1, GetStep DEF Types
    <3>3. Held' \subseteq Held
      BY <3>2 DEF Held
    <3> QED
      BY <3>3, FewerHeld
  <2>3. CASE DropMemory(t)
    <3>1. Held' \subseteq Held
      BY <2>3 DEF DropMemory, Dropped, Held
    <3> QED
      BY <3>1, FewerHeld
  <2> QED
    BY <2>1, <2>2, <2>3
<1>3. CASE \E t \in Threads : FillMemory(t) \/ StoreMemory(t)
  <2>1. PICK t \in Threads : FillMemory(t) \/ StoreMemory(t)
    BY <1>3
  <2>2. CASE FillMemory(t)
    BY <2>2, StoredEntry, SetKeepsBound DEF FillMemory, Types
  <2>3. CASE StoreMemory(t)
    BY <2>3, StoredEntry, SetKeepsBound DEF StoreMemory, Types
  <2> QED
    BY <2>1, <2>2, <2>3
<1>4. CASE Next /\ ~(\E t \in Threads : \/ LookMemoryFirst(t) \/ Fallback(t) \/ DropMemory(t)
                                        \/ FillMemory(t) \/ StoreMemory(t))
  BY <1>1, <1>4 DEF Next, Tick, SourceMoves, CallGet, ReadRedis, ReadTtl, RedisHasNot, Load,
     LoadRaises, StoreRedis, Commit, ClearCache, ListKeys, NoRedis, DeleteKeys, DeleteRaises
<1> QED
  BY <1>1, <1>2, <1>3, <1>4 DEF vars

\* The memory map never outgrows MaxMemory, whatever the threads' calls leave
\* in it: eviction makes room for every new key before it goes in.
THEOREM MemoryBoundedHolds == Spec => []MemoryBounded
<1>1. Init => MemoryBounded
  <2> SUFFICES ASSUME Init PROVE MemoryBounded
    OBVIOUS
  <2>1. {k \in Keys : memory[k] # Nothing} = {}
    BY DEF Init
  <2> QED
    BY <2>1, FS_EmptySet, CacheAssumption DEF MemoryBounded
<1>2. Types /\ MemoryBounded /\ [Next]_vars => Types' /\ MemoryBounded'
  BY TypesStep, BoundStep
<1> QED
  BY <1>1, <1>2, InitTypes, PTL DEF Spec

-----------------------------------------------------------------------------
(* What one step of a thread does to the others, to memory and to Redis *)

GetActions(t) ==
  \/ \E k \in Keys : CallGet(t, k)
  \/ LookMemoryFirst(t) \/ ReadRedis(t) \/ ReadTtl(t) \/ FillMemory(t)
  \/ RedisHasNot(t) \/ Fallback(t)

SetActions(t) == Load(t) \/ LoadRaises(t) \/ StoreMemory(t) \/ StoreRedis(t)

DeleteActions(t) ==
  \/ ClearCache(t) \/ DropMemory(t) \/ ListKeys(t) \/ NoRedis(t)
  \/ DeleteKeys(t) \/ DeleteRaises(t)

LEMMA NextSplit ==
  Next => \/ Tick
          \/ \E k \in Keys : SourceMoves(k)
          \/ \E t \in Threads : Commit(t)
          \/ \E t \in Threads : GetActions(t) \/ SetActions(t) \/ DeleteActions(t)
BY DEF Next, GetActions, SetActions, DeleteActions

LEMMA SourceKept ==
  ASSUME NEW t \in Threads, GetActions(t) \/ SetActions(t) \/ DeleteActions(t)
  PROVE  UNCHANGED source
<1>1. CASE GetActions(t)
  BY <1>1 DEF GetActions, CallGet, LookMemoryFirst, ReadRedis, ReadTtl, FillMemory, RedisHasNot,
     Fallback
<1>2. CASE SetActions(t)
  BY <1>2 DEF SetActions, Load, LoadRaises, StoreMemory, StoreRedis
<1>3. CASE DeleteActions(t)
  BY <1>3 DEF DeleteActions, ClearCache, DropMemory, ListKeys, NoRedis, DeleteKeys, DeleteRaises
<1> QED
  BY <1>1, <1>2, <1>3

LEMMA OthersKept ==
  ASSUME Types, NEW t \in Threads, NEW u \in Threads \ {t},
         GetActions(t) \/ SetActions(t) \/ DeleteActions(t)
  PROVE  /\ pc'[u] = pc[u] /\ key'[u] = key[u] /\ hand'[u] = hand[u]
         /\ began'[u] = began[u] /\ ttl'[u] = ttl[u]
         /\ todo'[u] = todo[u] /\ scope'[u] = scope[u]
<1> USE DEF Types, TypeOK, local, writer, Goto, Finish, Take, ScopeDone
<1>1. CASE GetActions(t)
  BY <1>1 DEF GetActions, CallGet, LookMemoryFirst, ReadRedis, ReadTtl, FillMemory, RedisHasNot,
     Fallback
<1>2. CASE SetActions(t)
  BY <1>2 DEF SetActions, Load, LoadRaises, StoreMemory, StoreRedis
<1>3. CASE ClearCache(t) \/ DropMemory(t)
  BY <1>3 DEF ClearCache, DropMemory
<1>4. CASE ListKeys(t)
  BY <1>4 DEF ListKeys
<1>5. CASE NoRedis(t) \/ DeleteKeys(t) \/ DeleteRaises(t)
  BY <1>5 DEF NoRedis, DeleteKeys, DeleteRaises
<1> QED
  BY <1>1, <1>2, <1>3, <1>4, <1>5 DEF DeleteActions

\* A version comes to a thread by ReadRedis or Load and stays with it in
\* ReadTtl and StoreMemory.
LEMMA HandFate ==
  ASSUME Types, Types', NEW t \in Threads, hand'[t] # Nothing,
         GetActions(t) \/ SetActions(t) \/ DeleteActions(t)
  PROVE  \/ ReadRedis(t) \/ ReadTtl(t) \/ Load(t)
         \/ /\ pc[t] = "store" /\ pc'[t] = "storeRedis" /\ client
            /\ UNCHANGED <<key, hand, began, ttl>>
<1>1. pc'[t] \in {"ttl", "fill", "store", "storeRedis"}
  BY DEF Types, TypeOK
<1> USE DEF Types, TypeOK, Goto, Finish, ScopeDone, local
<1>2. CASE GetActions(t)
  BY <1>1, <1>2 DEF GetActions, CallGet, LookMemoryFirst, FillMemory, RedisHasNot, Fallback, Ask
<1>3. CASE SetActions(t)
  BY <1>1, <1>3 DEF SetActions, LoadRaises, StoreMemory, StoreRedis
<1>4. CASE DeleteActions(t)
  BY <1>1, <1>4 DEF DeleteActions, ClearCache, DropMemory, ListKeys, NoRedis, DeleteKeys,
     DeleteRaises
<1> QED
  BY <1>2, <1>3, <1>4

\* The memory map gains nothing but the version in the thread's hand.
LEMMA MemoryFate ==
  ASSUME Types, NEW t \in Threads, NEW k \in Keys, memory'[k] \notin {memory[k], Nothing},
         GetActions(t) \/ SetActions(t) \/ DeleteActions(t)
  PROVE  /\ k = key[t]
         /\ \/ pc[t] = "fill" /\ memory'[k] = EntryOf(hand[t], ttl[t])
            \/ pc[t] = "store" /\ memory'[k] = EntryOf(hand[t], Ttl)
<1>1. ~(LookMemoryFirst(t) \/ Fallback(t))
  <2> SUFFICES ASSUME LookMemoryFirst(t) \/ Fallback(t) PROVE FALSE
    OBVIOUS
  <2>1. key[t] \in Keys /\ MemoryGet(key[t])
    BY DEF Types, TypeOK, LookMemoryFirst, Fallback
  <2> QED
    BY <2>1, GetStep DEF Types
<1>2. memory' # memory /\ ~DropMemory(t)
  BY DEF DropMemory, Dropped
<1>3. FillMemory(t) \/ StoreMemory(t)
  BY <1>1, <1>2 DEF GetActions, SetActions, DeleteActions, CallGet, ReadRedis, ReadTtl,
     RedisHasNot, Load, LoadRaises, StoreRedis, ClearCache, ListKeys, NoRedis, DeleteKeys,
     DeleteRaises
<1>4. CASE FillMemory(t)
  BY <1>4, StoredEntry, SetStep DEF FillMemory, Types
<1>5. CASE StoreMemory(t)
  BY <1>5, StoredEntry, SetStep DEF StoreMemory, Types
<1> QED
  BY <1>3, <1>4, <1>5

\* Nor does Redis.
LEMMA RedisFate ==
  ASSUME Types, NEW t \in Threads, NEW k \in Keys, redis'[k] \notin {redis[k], Nothing},
         GetActions(t) \/ SetActions(t) \/ DeleteActions(t)
  PROVE  /\ k = key[t] /\ pc[t] = "storeRedis"
         /\ redis'[k] = EntryOf(hand[t], Ttl)
<1>1. redis' # redis /\ ~DeleteKeys(t)
  BY DEF DeleteKeys
<1>2. StoreRedis(t)
  BY <1>1 DEF GetActions, SetActions, DeleteActions, CallGet, LookMemoryFirst, ReadRedis, ReadTtl,
     FillMemory, RedisHasNot, Fallback, Load, LoadRaises, StoreMemory, ClearCache, DropMemory,
     ListKeys, NoRedis, DeleteRaises
<1>3. redis' = [redis EXCEPT ![key[t]] = EntryOf(hand[t], Ttl)]
  BY <1>1, <1>2 DEF StoreRedis
<1> QED
  BY <1>2, <1>3 DEF StoreRedis, Types, TypeOK

-----------------------------------------------------------------------------
(* How stale the memory map can be *)

\* What each stage of a value's way into the memory map adds to its age: a
\* thread holds it for MaxDelay at most, Redis lets it live for Ttl, and the
\* time to live copied from there is that or the default.
InHand(t) ==
  /\ began[t] <= now /\ now <= began[t] + MaxDelay
  /\ pc[t] \in {"store", "storeRedis"} => began[t] <= Current(key[t], hand[t])
  /\ pc[t] \in {"ttl", "fill"} => began[t] <= Current(key[t], hand[t]) + MaxDelay + Ttl - 1
  /\ pc[t] = "fill" => ttl[t] <= LongerTtl

InRedis(k) ==
  /\ redis[k].dies <= Current(k, redis[k].version) + MaxDelay + Ttl
  /\ redis[k].dies <= now + Ttl

AgeInv ==
  /\ Types
  /\ \A k \in Keys : \A i \in 1..Version(k) : changed[k][i] <= now
  /\ \A t \in Threads : hand[t] # Nothing => InHand(t)
  /\ \A k \in Keys : redis[k] # Nothing => InRedis(k)
  /\ StalenessBounded

LEMMA InitAge == Init => AgeInv
<1> SUFFICES ASSUME Init PROVE AgeInv
  OBVIOUS
<1>1. \A k \in Keys : Version(k) = 0 /\ memory[k] = Nothing /\ redis[k] = Nothing
  BY DEF Init, Version
<1>2. \A t \in Threads : hand[t] = Nothing
  BY DEF Init
<1> QED
  BY <1>1, <1>2, InitTypes DEF AgeInv, StalenessBounded, StaleAtMost

LEMMA LongerTtlBounds == LongerTtl \in Nat /\ Ttl <= LongerTtl /\ DefaultTtl <= LongerTtl /\ 1 <= LongerTtl
BY CacheAssumption DEF LongerTtl

LEMMA CurrentBounds ==
  ASSUME AgeInv, NEW k \in Keys, NEW v \in Nat
  PROVE  Current(k, v) \in Nat /\ Current(k, v) <= now
<1>1. changed[k] \in Seq(Nat) /\ now \in Nat /\ Version(k) \in Nat
  BY DEF AgeInv, Types, TypeOK, Version
<1>2. CASE v < Version(k)
  <2>1. v + 1 \in 1..Version(k) /\ Version(k) = Len(changed[k])
    BY <1>1, <1>2 DEF Version
  <2>2. changed[k][v + 1] \in Nat /\ changed[k][v + 1] <= now
    BY <1>1, <2>1 DEF AgeInv
  <2> QED
    BY <1>2, <2>2 DEF Current
<1>3. CASE ~(v < Version(k))
  BY <1>1, <1>3 DEF Current
<1> QED
  BY <1>2, <1>3

LEMMA SameCurrent ==
  ASSUME UNCHANGED <<now, changed>>, NEW k, NEW v
  PROVE  Current(k, v)' = Current(k, v)
BY DEF Current, Version

\* A change of the source turns "now" into the moment of the change.
LEMMA MoveCurrent ==
  ASSUME AgeInv, NEW keys \in SUBSET Keys, Move(keys), UNCHANGED now,
         NEW k \in Keys
  PROVE  /\ \A v \in Nat : Current(k, v)' = Current(k, v)
         /\ \A i \in 1..Version(k)' : changed'[k][i] <= now'
<1>1. changed[k] \in Seq(Nat) /\ now \in Nat /\ Version(k) \in Nat /\ Version(k) = Len(changed[k])
  BY DEF AgeInv, Types, TypeOK, Version
<1>2. \A i \in 1..Version(k) : changed[k][i] <= now
  BY DEF AgeInv
<1>3. CASE k \notin keys
  <2>1. changed'[k] = changed[k]
    BY <1>3 DEF Move
  <2> QED
    BY <1>2, <2>1 DEF Current, Version
<1>4. CASE k \in keys
  <2>1. changed'[k] = Append(changed[k], now)
    BY <1>4 DEF Move
  <2>2. /\ Len(changed'[k]) = Version(k) + 1
        /\ \A i \in 1..Version(k) : changed'[k][i] = changed[k][i]
        /\ changed'[k][Version(k) + 1] = now
    BY <1>1, <2>1
  <2>3. \A i \in 1..Version(k)' : changed'[k][i] <= now'
    BY <1>1, <1>2, <2>2 DEF Version
  <2>4. ASSUME NEW v \in Nat PROVE Current(k, v)' = Current(k, v)
    <3>1. CASE v < Version(k)
      <4>1. v + 1 \in 1..Version(k) /\ v < Version(k)'
        BY <1>1, <2>2, <3>1 DEF Version
      <4> QED
        BY <2>2, <3>1, <4>1 DEF Current
    <3>2. CASE v = Version(k)
      <4>1. v < Version(k)' /\ ~(v < Version(k))
        BY <1>1, <2>2, <3>2 DEF Version
      <4> QED
        BY <2>2, <3>2, <4>1 DEF Current
    <3>3. CASE v > Version(k)
      <4>1. ~(v < Version(k)') /\ ~(v < Version(k))
        BY <1>1, <2>2, <3>3 DEF Version
      <4> QED
        BY <4>1 DEF Current
    <3> QED
      BY <1>1, <3>1, <3>2, <3>3
  <2> QED
    BY <2>3, <2>4
<1> QED
  BY <1>3, <1>4

LEMMA MoveAge ==
  ASSUME AgeInv, Types',
         \/ \E k \in Keys : SourceMoves(k)
         \/ \E t \in Threads : Commit(t)
  PROVE  AgeInv'
<1>1. PICK keys \in SUBSET Keys : Move(keys)
  BY CacheAssumption DEF SourceMoves, Commit
<1>2. UNCHANGED <<now, memory, redis, key, hand, began, ttl>>
  BY DEF SourceMoves, Commit, local
<1>3. \A t \in Threads : hand[t] # Nothing => pc'[t] = pc[t]
  BY DEF SourceMoves, Commit, Goto, AgeInv, Types, TypeOK
<1>4. \A k \in Keys : /\ \A v \in Nat : Current(k, v)' = Current(k, v)
                      /\ \A i \in 1..Version(k)' : changed'[k][i] <= now'
  BY <1>1, <1>2, MoveCurrent
<1>5. ASSUME NEW t \in Threads, hand'[t] # Nothing PROVE InHand(t)'
  <2>1. key[t] \in Keys /\ hand[t] \in Nat /\ InHand(t) /\ pc'[t] = pc[t]
    BY <1>2, <1>3, <1>5, ZenonT(60) DEF AgeInv, Types, TypeOK
  <2>2. Current(key[t], hand[t])' = Current(key[t], hand[t])
    BY <1>2, <1>4, <2>1 DEF Current, Version
  <2> QED
    BY <1>2, <2>1, <2>2 DEF InHand
<1>6. ASSUME NEW k \in Keys, redis'[k] # Nothing PROVE InRedis(k)'
  <2>1. redis[k].version \in Nat /\ InRedis(k)
    BY <1>2, <1>6 DEF AgeInv, Types, TypeOK, Entry
  <2>2. Current(k, redis[k].version)' = Current(k, redis[k].version)
    BY <1>2, <1>4, <2>1 DEF Current, Version
  <2> QED
    BY <1>2, <2>1, <2>2 DEF InRedis
<1>7. ASSUME NEW k \in Keys, memory'[k] # Nothing
      PROVE  memory'[k].dies <= Current(k, memory[k].version)' + (2 * MaxDelay + Ttl + LongerTtl - 1)
  <2>1. memory[k].version \in Nat
        /\ memory[k].dies <= Current(k, memory[k].version) + (2 * MaxDelay + Ttl + LongerTtl - 1)
    BY <1>2, <1>7 DEF AgeInv, Types, TypeOK, Entry, StalenessBounded, StaleAtMost
  <2>2. Current(k, memory[k].version)' = Current(k, memory[k].version)
    BY <1>2, <1>4, <2>1 DEF Current, Version
  <2> QED
    BY <1>2, <2>1, <2>2
<1> QED
  BY <1>4, <1>5, <1>6, <1>7 DEF AgeInv, StalenessBounded, StaleAtMost


\* Time passing only makes a version current for longer.
LEMMA TickAge == ASSUME AgeInv, Types', Tick PROVE AgeInv'
<1> USE CacheAssumption
<1>1. now \in Nat /\ now' = now + 1 /\ UNCHANGED <<changed, memory, pc, key, hand, began, ttl>>
  BY DEF Tick, AgeInv, Types, TypeOK, local
<1>2. ASSUME NEW k \in Keys, NEW v \in Nat
      PROVE  Current(k, v) \in Nat /\ Current(k, v)' \in Nat /\ Current(k, v) <= Current(k, v)'
  <2>1. Current(k, v) \in Nat
    BY CurrentBounds
  <2>2. Current(k, v)' = Current(k, v) \/ (Current(k, v) = now /\ Current(k, v)' = now')
    BY <1>1 DEF Current, Version
  <2> QED
    BY <1>1, <2>1, <2>2
<1>3. ASSUME NEW t \in Threads, hand'[t] # Nothing PROVE InHand(t)'
  <2>1. key[t] \in Keys /\ hand[t] \in Nat /\ began[t] \in Nat /\ InHand(t) /\ now < began[t] + MaxDelay
    BY <1>1, <1>3 DEF AgeInv, Types, TypeOK, Tick
  <2>2. Current(key[t], hand[t])' = Current(key[t], hand[t])
        \/ (Current(key[t], hand[t]) = now /\ Current(key[t], hand[t])' = now')
    BY <1>1 DEF Current, Version
  <2>3. Current(key[t], hand[t]) \in Nat
    BY <2>1, CurrentBounds
  <2> QED
    BY <1>1, <2>1, <2>2, <2>3 DEF InHand
<1>4. ASSUME NEW k \in Keys, redis'[k] # Nothing PROVE InRedis(k)'
  <2>1. redis[k] # Nothing /\ redis'[k] = redis[k] /\ redis[k] \in Entry
    BY <1>4 DEF Tick, AgeInv, Types, TypeOK
  <2>2. redis[k].version \in Nat /\ redis[k].dies \in Nat /\ InRedis(k)
    BY <2>1 DEF AgeInv, Entry
  <2>3. Current(k, redis[k].version)' = Current(k, redis[k].version)
        \/ (Current(k, redis[k].version) = now /\ Current(k, redis[k].version)' = now')
    BY <1>1, <2>1 DEF Current, Version
  <2>4. Current(k, redis[k].version) \in Nat
    BY <2>2, CurrentBounds
  <2> QED
    BY <1>1, <2>1, <2>2, <2>3, <2>4 DEF InRedis
<1>5. ASSUME NEW k \in Keys PROVE StaleAtMost(k, 2 * MaxDelay + Ttl + LongerTtl - 1)'
  <2> DEFINE bound == 2 * MaxDelay + Ttl + LongerTtl - 1
  <2>1. bound \in Int
    BY LongerTtlBounds
  <2> SUFFICES ASSUME memory'[k] # Nothing
               PROVE  memory[k].dies <= Current(k, memory[k].version)' + bound
    BY <1>1 DEF StaleAtMost
  <2>2. memory[k].version \in Nat /\ memory[k].dies \in Nat
        /\ memory[k].dies <= Current(k, memory[k].version) + bound
    BY <1>1 DEF AgeInv, Types, TypeOK, Entry, StalenessBounded, StaleAtMost
  <2>3. Current(k, memory[k].version)' = Current(k, memory[k].version)
        \/ (Current(k, memory[k].version) = now /\ Current(k, memory[k].version)' = now')
    BY <1>1 DEF Current, Version
  <2>4. Current(k, memory[k].version) \in Nat
    BY <2>2, CurrentBounds
  <2> HIDE DEF bound
  <2> QED
    BY <1>1, <2>1, <2>2, <2>3, <2>4
<1>6. \A k \in Keys : \A i \in 1..Version(k)' : changed'[k][i] <= now'
  <2> SUFFICES ASSUME NEW k \in Keys, NEW i \in 1..Version(k) PROVE changed[k][i] <= now'
    BY <1>1 DEF Version
  <2>1. changed[k] \in Seq(Nat)
    BY DEF AgeInv, Types, TypeOK
  <2>2. changed[k][i] \in Nat /\ changed[k][i] <= now
    BY <2>1 DEF AgeInv, Version
  <2> QED
    BY <1>1, <2>2
<1> QED
  BY <1>3, <1>4, <1>5, <1>6 DEF AgeInv, StalenessBounded

LEMMA HandAge ==
  ASSUME AgeInv, Types', NEW t \in Threads, hand'[t] # Nothing, UNCHANGED <<now, changed>>,
         GetActions(t) \/ SetActions(t) \/ DeleteActions(t)
  PROVE  InHand(t)'
<1> USE CacheAssumption
<1>1. now \in Nat /\ now + MaxDelay >= now
  BY DEF AgeInv, Types, TypeOK
<1>2. CASE Load(t)
  <2>1. key[t] \in Keys /\ key' = key /\ hand'[t] = Version(key[t]) /\ began'[t] = now
        /\ pc'[t] = "store"
    BY <1>2 DEF Load, Take, Goto, AgeInv, Types, TypeOK
  <2>2. Version(key[t]) \in Nat
    BY <2>1 DEF AgeInv, Types, TypeOK, Version
  <2>3. Current(key[t], hand[t])' = now
    BY <2>1, <2>2 DEF Current, Version
  <2> QED
    BY <1>1, <2>1, <2>3 DEF InHand
<1>3. CASE ReadRedis(t)
  <2>1. key[t] \in Keys /\ redis[key[t]] # Nothing /\ key' = key /\ began'[t] = now
        /\ hand'[t] = redis[key[t]].version /\ pc'[t] = "ttl"
    BY <1>3 DEF ReadRedis, Take, Goto, AgeInv, Types, TypeOK
  <2>2. redis[key[t]].version \in Nat /\ redis[key[t]].dies \in Nat
        /\ redis[key[t]].dies > now /\ InRedis(key[t])
    BY <2>1 DEF AgeInv, Types, TypeOK, Entry
  <2>3. Current(key[t], hand[t])' = Current(key[t], redis[key[t]].version)
    BY <2>1 DEF Current, Version
  <2>4. Current(key[t], redis[key[t]].version) \in Nat
    BY <2>1, <2>2, CurrentBounds
  <2>5. now <= Current(key[t], redis[key[t]].version) + MaxDelay + Ttl - 1
    BY <1>1, <2>2, <2>4 DEF InRedis
  <2> QED
    BY <1>1, <2>1, <2>3, <2>5 DEF InHand
<1>4. CASE ReadTtl(t)
  <2>1. key[t] \in Keys /\ UNCHANGED <<key, hand, began>> /\ pc'[t] = "fill" /\ pc[t] = "ttl"
        /\ hand[t] # Nothing /\ InHand(t)
    BY <1>4 DEF ReadTtl, Goto, AgeInv, Types, TypeOK
  <2>2. PICK left \in Told(key[t]) : ttl' = [ttl EXCEPT ![t] = left]
    BY <1>4 DEF ReadTtl
  <2>3. left <= LongerTtl
    <3>1. CASE left = DefaultTtl
      BY <3>1, LongerTtlBounds
    <3>2. CASE redis[key[t]] # Nothing /\ left = redis[key[t]].dies - now
      <4>1. redis[key[t]].dies \in Nat /\ redis[key[t]].dies <= now + Ttl
        BY <2>1, <3>2 DEF AgeInv, Types, TypeOK, Entry, InRedis
      <4> QED
        BY <1>1, <3>2, <4>1, LongerTtlBounds
    <3> QED
      BY <2>2, <3>1, <3>2 DEF Told
  <2>4. ttl'[t] = left
    BY <2>2 DEF AgeInv, Types, TypeOK
  <2>5. Current(key[t], hand[t])' = Current(key[t], hand[t])
    BY <2>1 DEF Current, Version
  <2> QED
    BY <2>1, <2>3, <2>4, <2>5 DEF InHand
<1>5. CASE pc[t] = "store" /\ pc'[t] = "storeRedis" /\ UNCHANGED <<key, hand, began, ttl>>
  <2>1. InHand(t)
    BY <1>5 DEF AgeInv
  <2>2. Current(key[t], hand[t])' = Current(key[t], hand[t])
    BY <1>5 DEF Current, Version
  <2> QED
    BY <1>5, <2>1, <2>2 DEF InHand
<1> QED
  BY <1>2, <1>3, <1>4, <1>5, HandFate DEF AgeInv

\* What a thread stores is as old as what it holds, and the time to live.
LEMMA StoredAge ==
  ASSUME AgeInv, NEW t \in Threads, pc[t] \in {"fill", "store", "storeRedis"}
  PROVE  /\ key[t] \in Keys /\ hand[t] \in Nat /\ Current(key[t], hand[t]) \in Nat
         /\ pc[t] \in {"store", "storeRedis"} =>
              now + Ttl <= Current(key[t], hand[t]) + MaxDelay + Ttl
         /\ pc[t] = "fill" =>
              now + ttl[t] <= Current(key[t], hand[t]) + (2 * MaxDelay + Ttl + LongerTtl - 1)
<1> USE CacheAssumption
<1>1. key[t] \in Keys /\ hand[t] \in Nat
  BY StoredEntry DEF AgeInv
<1>2. Current(key[t], hand[t]) \in Nat
  BY <1>1, CurrentBounds
<1>3. now \in Nat /\ began[t] \in Nat /\ ttl[t] \in Nat
  BY DEF AgeInv, Types, TypeOK
<1>4. InHand(t)
  BY <1>1 DEF AgeInv
<1> QED
  BY <1>1, <1>2, <1>3, <1>4, LongerTtlBounds DEF InHand

LEMMA ThreadAge ==
  ASSUME AgeInv, Types', NEW t \in Threads,
         GetActions(t) \/ SetActions(t) \/ DeleteActions(t)
  PROVE  AgeInv'
<1> USE CacheAssumption
<1> DEFINE bound == 2 * MaxDelay + Ttl + LongerTtl - 1
<1>1. UNCHANGED <<now, changed>>
  BY SourceKept DEF source
<1>2. ASSUME NEW u \in Threads, hand'[u] # Nothing PROVE InHand(u)'
  <2>1. CASE u = t
    BY <1>1, <1>2, <2>1, HandAge
  <2>2. CASE u # t
    <3>1. pc'[u] = pc[u] /\ key'[u] = key[u] /\ hand'[u] = hand[u]
          /\ began'[u] = began[u] /\ ttl'[u] = ttl[u]
      BY <2>2, OthersKept DEF AgeInv
    <3>2. InHand(u)
      BY <1>2, <3>1 DEF AgeInv
    <3>3. Current(key[u], hand[u])' = Current(key[u], hand[u])
      BY <1>1, <3>1 DEF Current, Version
    <3> QED
      BY <1>1, <3>1, <3>2, <3>3 DEF InHand
  <2> QED
    BY <2>1, <2>2
<1>3. ASSUME NEW k \in Keys, redis'[k] # Nothing PROVE InRedis(k)'
  <2>1. CASE redis'[k] = redis[k]
    BY <1>1, <1>3, <2>1 DEF AgeInv, InRedis, Current, Version
  <2>2. CASE redis'[k] # redis[k]
    <3>1. k = key[t] /\ pc[t] = "storeRedis" /\ redis'[k] = EntryOf(hand[t], Ttl)
      BY <1>3, <2>2, RedisFate DEF AgeInv
    <3>2. now + Ttl <= Current(k, hand[t]) + MaxDelay + Ttl /\ now + Ttl <= now + Ttl
      <4>1. now + Ttl <= Current(k, hand[t]) + MaxDelay + Ttl
        BY <3>1, StoredAge
      <4>2. now + Ttl \in Nat
        BY DEF AgeInv, Types, TypeOK
      <4> QED
        BY <4>1, <4>2
    <3>3. redis'[k].version = hand[t] /\ redis'[k].dies = now + Ttl
      BY <3>1 DEF EntryOf
    <3>4. Current(k, redis[k].version)' = Current(k, hand[t])
      BY <1>1, <3>3 DEF Current, Version
    <3> QED
      BY <1>1, <3>2, <3>3, <3>4 DEF InRedis
  <2> QED
    BY <2>1, <2>2
<1>4. ASSUME NEW k \in Keys PROVE StaleAtMost(k, bound)'
  <2> SUFFICES ASSUME memory'[k] # Nothing
               PROVE  memory'[k].dies <= Current(k, memory[k].version)' + bound
    BY LongerTtlBounds DEF StaleAtMost
  <2>1. CASE memory'[k] = memory[k]
    BY <1>1, <2>1 DEF AgeInv, StalenessBounded, StaleAtMost, Current, Version
  <2>2. CASE memory'[k] # memory[k]
    <3>1. /\ k = key[t]
          /\ \/ pc[t] = "fill" /\ memory'[k] = EntryOf(hand[t], ttl[t])
             \/ pc[t] = "store" /\ memory'[k] = EntryOf(hand[t], Ttl)
      BY <2>2, MemoryFate DEF AgeInv
    <3>2. memory'[k].version = hand[t]
          /\ (pc[t] = "fill" => memory'[k].dies = now + ttl[t])
          /\ (pc[t] = "store" => memory'[k].dies = now + Ttl)
      BY <3>1 DEF EntryOf
    <3>3. Current(k, memory[k].version)' = Current(k, hand[t])
      BY <1>1, <3>2 DEF Current, Version
    <3>4. CASE pc[t] = "fill"
      BY <3>1, <3>2, <3>3, <3>4, StoredAge
    <3>5. CASE pc[t] = "store"
      <4>1. now + Ttl <= Current(k, hand[t]) + MaxDelay + Ttl /\ Current(k, hand[t]) \in Nat
        BY <3>1, <3>5, StoredAge
      <4>2. now \in Nat
        BY DEF AgeInv, Types, TypeOK
      <4>3. now + Ttl <= Current(k, hand[t]) + bound
        BY <4>1, <4>2, LongerTtlBounds
      <4> QED
        BY <3>2, <3>3, <3>5, <4>3
    <3> QED
      BY <3>1, <3>4, <3>5
  <2> QED
    BY <2>1, <2>2
<1>5. \A k \in Keys : \A i \in 1..Version(k)' : changed'[k][i] <= now'
  BY <1>1 DEF AgeInv, Version
<1> QED
  BY <1>2, <1>3, <1>4, <1>5 DEF AgeInv, StalenessBounded

LEMMA AgeStep == AgeInv /\ [Next]_vars => AgeInv'
<1> SUFFICES ASSUME AgeInv, [Next]_vars PROVE AgeInv'
  OBVIOUS
<1>1. Types'
  BY TypesStep DEF AgeInv
<1>2. CASE UNCHANGED vars
  BY <1>1, <1>2 DEF vars, source, local, AgeInv, InHand, InRedis, StalenessBounded, StaleAtMost,
     Current, Version
<1>3. CASE Next
  BY <1>1, <1>3, NextSplit, TickAge, MoveAge, ThreadAge
<1> QED
  BY <1>2, <1>3

\* However the threads' calls interleave, what the memory map holds is gone a
\* bounded time after its source changed.
THEOREM StalenessBoundedHolds == Spec => []StalenessBounded
<1>1. Spec => []AgeInv
  BY InitAge, AgeStep, PTL DEF Spec
<1>2. AgeInv => StalenessBounded
  BY DEF AgeInv
<1> QED
  BY <1>1, <1>2, PTL

-----------------------------------------------------------------------------
(* Coherence after an invalidation *)

ToDrop(k) == \E u \in Threads : k \in UNION todo[u]

\* Unless a change of k raced: no thread holds another version than the
\* current one, and where a level does, its deletion is still to come.
Consistent(k) ==
  /\ \A t \in Threads : key[t] = k /\ hand[t] # Nothing => hand[t] = Version(k)
  /\ memory[k] # Nothing => memory[k].version = Version(k) \/ ToDrop(k)
  /\ redis[k] # Nothing => redis[k].version = Version(k) \/ Deleting(k)

\* Only a thread inside delete_cache_pattern has scopes to delete, and without
\* a client nothing is in Redis.
Marked ==
  /\ \A t \in Threads : todo[t] # {} => pc[t] \in {"drop", "list", "delete"}
  /\ \A t \in Threads : scope[t] # {} => pc[t] \in {"list", "delete"}
  /\ ~client => /\ \A k \in Keys : redis[k] = Nothing
                /\ \A t \in Threads : pc[t] # "storeRedis"

CoherenceInv ==
  /\ Types
  /\ Marked
  /\ \A k \in Reports : raced[k] \/ Consistent(k)

LEMMA InitCoherence == Init => CoherenceInv
<1> SUFFICES ASSUME Init PROVE CoherenceInv
  OBVIOUS
<1>1. \A t \in Threads : todo[t] = {} /\ scope[t] = {} /\ hand[t] = Nothing /\ pc[t] = "idle"
  BY DEF Init
<1>2. \A k \in Keys : memory[k] = Nothing /\ redis[k] = Nothing
  BY DEF Init
<1> QED
  BY <1>1, <1>2, InitTypes, CacheAssumption DEF CoherenceInv, Marked, Consistent

LEMMA MarkedStep == Types /\ Marked /\ [Next]_vars => Marked'
<1> SUFFICES ASSUME Types, Marked, [Next]_vars PROVE Marked'
  OBVIOUS
<1>1. CASE UNCHANGED vars
  BY <1>1 DEF vars, source, writer, Marked
<1>2. CASE Tick
  BY <1>2 DEF Tick, writer, Types, TypeOK, Marked
<1>3. CASE \E k \in Keys : SourceMoves(k)
  BY <1>3 DEF SourceMoves, writer, Marked
<1>4. CASE \E t \in Threads : Commit(t)
  BY <1>4 DEF Commit, Goto, Types, TypeOK, Marked
<1>5. CASE \E t \in Threads : GetActions(t) \/ SetActions(t) \/ DeleteActions(t)
  <2>1. PICK t \in Threads : GetActions(t) \/ SetActions(t) \/ DeleteActions(t)
    BY <1>5
  <2>2. \A u \in Threads \ {t} : pc'[u] = pc[u] /\ todo'[u] = todo[u] /\ scope'[u] = scope[u]
    BY <2>1, OthersKept
  <2>3. client' = client
    BY <2>1, SourceKept DEF source
  <2>4. /\ todo'[t] # {} => pc'[t] \in {"drop", "list", "delete"}
        /\ scope'[t] # {} => pc'[t] \in {"list", "delete"}
    <3>1. CASE GetActions(t)
      <4>1. pc[t] \notin {"drop", "list", "delete"} /\ UNCHANGED <<todo, scope>>
        BY <3>1 DEF GetActions, CallGet, LookMemoryFirst, ReadRedis, ReadTtl, FillMemory,
           RedisHasNot, Fallback, writer
      <4> QED
        BY <4>1 DEF Marked
    <3>2. CASE SetActions(t)
      <4>1. pc[t] \notin {"drop", "list", "delete"} /\ UNCHANGED <<todo, scope>>
        BY <3>2 DEF SetActions, Load, LoadRaises, StoreMemory, StoreRedis, writer
      <4> QED
        BY <4>1 DEF Marked
    <3>3. CASE ClearCache(t)
      BY <3>3 DEF ClearCache, Goto, Types, TypeOK, Marked
    <3>4. CASE DropMemory(t)
      BY <3>4 DEF DropMemory, Goto, Types, TypeOK, Marked
    <3>5. CASE ListKeys(t)
      BY <3>5 DEF ListKeys, ScopeDone, Goto, Types, TypeOK, Marked
    <3>6. CASE NoRedis(t)
      BY <3>6 DEF NoRedis, ScopeDone, Goto, Types, TypeOK, Marked
    <3>7. CASE DeleteKeys(t)
      BY <3>7 DEF DeleteKeys, ScopeDone, Goto, Types, TypeOK, Marked
    <3>8. CASE DeleteRaises(t)
      BY <3>8 DEF DeleteRaises, ScopeDone, Goto, Types, TypeOK, Marked
    <3> QED
      BY <2>1, <3>1, <3>2, <3>3, <3>4, <3>5, <3>6, <3>7, <3>8 DEF DeleteActions
  <2>5. ~client => pc'[t] # "storeRedis"
    <3> SUFFICES ASSUME ~client, pc'[t] = "storeRedis" PROVE FALSE
      OBVIOUS
    <3>1. hand'[t] # Nothing
      BY TypesStep DEF Types, TypeOK
    <3>2. Types'
      BY TypesStep
    <3> QED
      BY <2>1, <3>1, <3>2, HandFate DEF ReadRedis, ReadTtl, Load, Goto, Types, TypeOK
  <2>6. ASSUME ~client, NEW k \in Keys PROVE redis'[k] = Nothing
    BY <2>1, <2>6, RedisFate DEF Marked
  <2> QED
    BY <2>1, <2>2, <2>3, <2>4, <2>5, <2>6 DEF Marked
<1> QED
  BY <1>1, <1>2, <1>3, <1>4, <1>5, NextSplit

\* Scopes leave todo only in DropMemory, for the thread's own scope, and that
\* empties the memory map.
LEMMA DropFate ==
  ASSUME Types, Marked, NEW t \in Threads, NEW k \in Keys, ToDrop(k),
         GetActions(t) \/ SetActions(t) \/ DeleteActions(t)
  PROVE  ToDrop(k)' \/ memory'[k] = Nothing
<1>1. CASE DropMemory(t)
  BY <1>1 DEF DropMemory, Dropped
<1>2. CASE ~DropMemory(t)
  <2>1. PICK u \in Threads : k \in UNION todo[u]
    BY DEF ToDrop
  <2>2. CASE u # t
    BY <2>1, <2>2, OthersKept DEF ToDrop
  <2>3. CASE u = t
    <3>1. pc[t] # "idle"
      BY <2>1, <2>3 DEF Marked
    <3>2. todo'[t] = todo[t]
      BY <1>2, <3>1 DEF GetActions, SetActions, DeleteActions, CallGet, LookMemoryFirst, ReadRedis,
         ReadTtl, FillMemory, RedisHasNot, Fallback, Load, LoadRaises, StoreMemory, StoreRedis,
         ClearCache, ListKeys, NoRedis, DeleteKeys, DeleteRaises, writer
    <3> QED
      BY <2>1, <2>3, <3>2 DEF ToDrop
  <2> QED
    BY <2>2, <2>3
<1> QED
  BY <1>1, <1>2

\* A key that is in Redis stays in its deleter's scope until it is deleted or
\* the failure is recorded.
LEMMA DeleteFate ==
  ASSUME Types, Marked, NEW t \in Threads, NEW k \in Keys, Deleting(k), redis[k] # Nothing,
         GetActions(t) \/ SetActions(t) \/ DeleteActions(t)
  PROVE  Deleting(k)' \/ redis'[k] = Nothing \/ raced'[k]
<1>1. PICK u \in Threads : k \in scope[u] \cup UNION todo[u]
  BY DEF Deleting
<1>2. CASE u # t
  BY <1>1, <1>2, OthersKept DEF Deleting
<1>3. CASE u = t
  <2>1. pc[t] \in {"drop", "list", "delete"}
    BY <1>1, <1>3 DEF Marked
  <2>2. DropMemory(t) \/ ListKeys(t) \/ NoRedis(t) \/ DeleteKeys(t) \/ DeleteRaises(t)
    BY <2>1 DEF GetActions, SetActions, DeleteActions, CallGet, LookMemoryFirst, ReadRedis,
       ReadTtl, FillMemory, RedisHasNot, Fallback, Load, LoadRaises, StoreMemory, StoreRedis,
       ClearCache
  <2>3. CASE k \in UNION todo[t] /\ ~DropMemory(t)
    <3>1. todo' = todo
      BY <2>2, <2>3 DEF ListKeys, NoRedis, DeleteKeys, DeleteRaises
    <3> QED
      BY <2>3, <3>1 DEF Deleting
  <2>4. CASE DropMemory(t)
    <3>1. PICK s \in todo[t] : /\ scope' = [scope EXCEPT ![t] = s]
                               /\ todo' = [todo EXCEPT ![t] = @ \ {s}]
      BY <2>4 DEF DropMemory
    <3>2. scope[t] = {}
      BY <2>4 DEF DropMemory, Marked
    <3>3. scope'[t] = s /\ todo'[t] = todo[t] \ {s}
      BY <3>1 DEF Types, TypeOK
    <3>4. k \in s \cup UNION (todo[t] \ {s})
      BY <1>1, <1>3, <3>2
    <3> QED
      BY <3>3, <3>4 DEF Deleting
  <2>5. CASE k \in scope[t] /\ ListKeys(t)
    <3>1. scope'[t] = {j \in scope[t] : redis[j] # Nothing}
      BY <2>5 DEF ListKeys, ScopeDone, Types, TypeOK
    <3> QED
      BY <2>5, <3>1 DEF Deleting
  <2>6. CASE NoRedis(t)
    BY <2>6 DEF NoRedis, Marked
  <2>7. CASE k \in scope[t] /\ DeleteKeys(t)
    BY <2>7 DEF DeleteKeys
  <2>8. CASE k \in scope[t] /\ DeleteRaises(t)
    BY <2>8, Zenon DEF DeleteRaises
  <2> QED
    BY <1>1, <1>3, <2>2, <2>3, <2>4, <2>5, <2>6, <2>7, <2>8
<1> QED
  BY <1>2, <1>3

LEMMA RacedKept ==
  ASSUME Types, NEW k \in Keys, raced[k], [Next]_vars PROVE raced'[k]
<1>1. CASE raced' = raced
  BY <1>1
<1>2. CASE \E keys \in SUBSET Keys : Move(keys)
  BY <1>2, Zenon DEF Move
<1>3. CASE \E t \in Threads : DeleteRaises(t)
  BY <1>3, Zenon DEF DeleteRaises
<1>4. CASE \E t \in Threads : ReadRedis(t)
  <2>1. PICK t \in Threads : raced' = [raced EXCEPT ![key[t]] = @ \/ Deleting(key[t])]
    BY <1>4 DEF ReadRedis
  <2>2. CASE k = key[t]
    <3>1. raced'[k] = (raced[k] \/ Deleting(key[t]))
      BY <2>1, <2>2, Zenon DEF Types, TypeOK
    <3> QED
      BY <3>1, Zenon
  <2>3. CASE k # key[t]
    BY <2>1, <2>3 DEF Types, TypeOK
  <2> QED
    BY <2>2, <2>3
<1>5. raced' = raced \/ (\E keys \in SUBSET Keys : Move(keys))
      \/ (\E t \in Threads : DeleteRaises(t)) \/ (\E t \in Threads : ReadRedis(t))
  <2>1. CASE \E k_1 \in Keys : SourceMoves(k_1)
    BY <2>1 DEF SourceMoves
  <2>2. CASE \E t \in Threads : Commit(t)
    BY <2>2, CacheAssumption DEF Commit
  <2>3. CASE \E t \in Threads : GetActions(t) \/ SetActions(t) \/ DeleteActions(t)
    BY <2>3 DEF GetActions, SetActions, DeleteActions, CallGet, LookMemoryFirst, ReadRedis,
       ReadTtl, FillMemory, RedisHasNot, Fallback, Load, LoadRaises, StoreMemory, StoreRedis,
       ClearCache, DropMemory, ListKeys, NoRedis, DeleteKeys, DeleteRaises
  <2>4. CASE Tick \/ UNCHANGED vars
    BY <2>4 DEF Tick, vars
  <2> QED
    BY <2>1, <2>2, <2>3, <2>4, NextSplit
<1> QED
  BY <1>1, <1>2, <1>3, <1>4, <1>5

LEMMA CommitCoherent ==
  ASSUME CoherenceInv, NEW t \in Threads, Commit(t),
         NEW k \in Reports, ~raced'[k], Consistent(k)
  PROVE  Consistent(k)'
<1>1. k \in Keys /\ UNCHANGED <<memory, redis, key, hand>>
  BY CacheAssumption DEF Commit, local
<1>2. ~Filling(k)
  BY <1>1, Zenon DEF Commit, Move
<1>3. todo'[t] = {{j} : j \in Reports}
  BY DEF Commit, CoherenceInv, Types, TypeOK
<1>4. ToDrop(k)' /\ Deleting(k)'
  BY <1>3 DEF ToDrop, Deleting
<1> QED
  BY <1>1, <1>2, <1>4 DEF Consistent, Filling

LEMMA EnvironmentCoherent ==
  ASSUME CoherenceInv, Tick \/ (\E j \in Keys : SourceMoves(j)),
         NEW k \in Reports, Consistent(k)
  PROVE  Consistent(k)'
<1>1. k \in Keys /\ UNCHANGED <<memory, key, hand, todo, scope>>
  BY CacheAssumption DEF Tick, SourceMoves, local, writer
<1>2. Version(k)' = Version(k)
  BY <1>1 DEF Tick, SourceMoves, Move, Version
<1>3. redis'[k] \in {redis[k], Nothing}
  BY <1>1 DEF Tick, SourceMoves
<1> QED
  BY <1>1, <1>2, <1>3 DEF Consistent, ToDrop, Deleting

\* A thread takes the current version from Redis, unless that is being
\* deleted there.
LEMMA HandCoherent ==
  ASSUME CoherenceInv, Types', NEW t \in Threads,
         GetActions(t) \/ SetActions(t) \/ DeleteActions(t),
         NEW k \in Reports, ~raced'[k], Consistent(k), key'[t] = k, hand'[t] # Nothing
  PROVE  hand'[t] = Version(k)
<1> USE DEF CoherenceInv
<1>1. k \in Keys
  BY CacheAssumption
<1>2. CASE ReadRedis(t)
  <2>1. /\ k = key[t] /\ redis[k] # Nothing /\ hand'[t] = redis[k].version
        /\ raced' = [raced EXCEPT ![k] = @ \/ Deleting(k)]
    BY <1>2 DEF ReadRedis, Take, Types, TypeOK
  <2>2. raced'[k] = (raced[k] \/ Deleting(k))
    BY <1>1, <2>1, Zenon DEF Types, TypeOK
  <2>3. ~Deleting(k)
    BY <2>2, Zenon
  <2> QED
    BY <2>1, <2>3 DEF Consistent
<1>3. CASE Load(t)
  BY <1>3 DEF Load, Take, Types, TypeOK
<1>4. CASE ReadTtl(t) \/ UNCHANGED <<key, hand>>
  BY <1>4 DEF ReadTtl, Consistent
<1> QED
  BY <1>2, <1>3, <1>4, HandFate

LEMMA ThreadCoherent ==
  ASSUME CoherenceInv, Types', NEW t \in Threads,
         GetActions(t) \/ SetActions(t) \/ DeleteActions(t),
         NEW k \in Reports, ~raced'[k], Consistent(k)
  PROVE  Consistent(k)'
<1> USE DEF CoherenceInv
<1>1. k \in Keys /\ Version(k)' = Version(k)
  BY CacheAssumption, SourceKept DEF source, Version
<1>2. ASSUME NEW u \in Threads, key'[u] = k, hand'[u] # Nothing PROVE hand'[u] = Version(k)
  <2>1. CASE u = t
    BY <1>2, <2>1, HandCoherent
  <2>2. CASE u # t
    BY <1>2, <2>2, OthersKept DEF Consistent
  <2> QED
    BY <2>1, <2>2
<1>3. pc[t] \in {"fill", "store", "storeRedis"} /\ key[t] = k => hand[t] = Version(k)
  BY DEF Consistent, Types, TypeOK
<1>4. ASSUME memory'[k] # Nothing PROVE memory'[k].version = Version(k) \/ ToDrop(k)'
  <2>1. CASE memory'[k] = memory[k]
    <3>1. memory[k].version = Version(k) \/ ToDrop(k)
      BY <1>4, <2>1 DEF Consistent
    <3>2. ToDrop(k) => ToDrop(k)'
      BY <1>1, <1>4, DropFate
    <3> QED
      BY <2>1, <3>1, <3>2
  <2>2. CASE memory'[k] # memory[k]
    <3>1. /\ k = key[t]
          /\ \/ pc[t] = "fill" /\ memory'[k] = EntryOf(hand[t], ttl[t])
             \/ pc[t] = "store" /\ memory'[k] = EntryOf(hand[t], Ttl)
      BY <1>1, <1>4, <2>2, MemoryFate
    <3>2. memory'[k].version = hand[t]
      BY <3>1 DEF EntryOf
    <3>3. hand[t] = Version(k)
      BY <1>3, <3>1
    <3> QED
      BY <3>2, <3>3
  <2> QED
    BY <2>1, <2>2
<1>5. ASSUME redis'[k] # Nothing PROVE redis'[k].version = Version(k) \/ Deleting(k)'
  <2>1. CASE redis'[k] = redis[k]
    <3>1. redis[k].version = Version(k) \/ Deleting(k)
      BY <1>5, <2>1 DEF Consistent
    <3>2. Deleting(k) => Deleting(k)'
      BY <1>1, <1>5, <2>1, DeleteFate
    <3> QED
      BY <2>1, <3>1, <3>2
  <2>2. CASE redis'[k] # redis[k]
    <3>1. k = key[t] /\ pc[t] = "storeRedis" /\ redis'[k] = EntryOf(hand[t], Ttl)
      BY <1>1, <1>5, <2>2, RedisFate
    <3>2. redis'[k].version = hand[t]
      BY <3>1 DEF EntryOf
    <3>3. hand[t] = Version(k)
      BY <1>3, <3>1
    <3> QED
      BY <3>2, <3>3
  <2> QED
    BY <2>1, <2>2
<1> QED
  BY <1>1, <1>2, <1>4, <1>5 DEF Consistent

LEMMA CoherenceStep == CoherenceInv /\ [Next]_vars => CoherenceInv'
<1> SUFFICES ASSUME CoherenceInv, [Next]_vars PROVE CoherenceInv'
  OBVIOUS
<1>1. Types' /\ Marked'
  BY TypesStep, MarkedStep DEF CoherenceInv
<1>2. ASSUME NEW k \in Reports, ~raced'[k] PROVE Consistent(k)'
  <2>1. Consistent(k)
    BY <1>2, RacedKept, CacheAssumption DEF CoherenceInv
  <2>2. CASE UNCHANGED vars
    BY <2>1, <2>2 DEF vars, source, local, writer, Consistent, ToDrop, Deleting, Version
  <2>3. CASE Next
    BY <1>1, <1>2, <2>1, <2>3, NextSplit, CommitCoherent, EnvironmentCoherent, ThreadCoherent
  <2> QED
    BY <2>2, <2>3
<1> QED
  BY <1>1, <1>2 DEF CoherenceInv

\* Once delete_cache_pattern has done its work after a change of the targets,
\* no report from before it is in memory or in Redis, except by the races that
\* "raced" records.
THEOREM CoherentUnlessRacedHolds == Spec => []CoherentUnlessRaced
<1>1. Spec => []CoherenceInv
  BY InitCoherence, CoherenceStep, PTL DEF Spec
<1>2. CoherenceInv => CoherentUnlessRaced
  BY CacheAssumption DEF CoherenceInv, Consistent, CoherentUnlessRaced, ToDrop, Deleting
<1> QED
  BY <1>1, <1>2, PTL
=============================================================================
