------------------------------ MODULE ApiCache ------------------------------
(***************************************************************************)
(* The two-level cache of the API (api/app/core/cache.py): a memory map    *)
(* inside the process and Redis beside it, as the services use it:         *)
(* get_json; on a miss compute from the source and set_json; and, for the  *)
(* reports on a user's targets, commit a change and then                   *)
(* delete_cache_pattern (user_targets_service.py).  Every call of Redis    *)
(* and every block under _memory_lock is a step of its own.  A cached      *)
(* value is the version of the source that it was computed from.           *)
(***************************************************************************)
EXTENDS Integers, FiniteSets, Sequences

CONSTANTS
  Threads,       \* request threads of the API process
  Keys,          \* cache keys
  Reports,       \* the keys computed from one user's targets, and invalidated
                 \* when those change; the others have a source each that
                 \* moves without telling the cache (the market)
  MemoryFirst,   \* keys of a data type that should_use_memory_cache
  Nothing,       \* no entry, no value
  Ttl,           \* the ttl that set_json is called with
  DefaultTtl,    \* DEFAULT_CACHE_TTL
  MaxMemory,     \* MAX_MEMORY_CACHE_SIZE
  EvictCount,    \* entries that _evict_oldest_memory_cache drops
  RedisFails,    \* whether a call of Redis may raise
  MaxDelay,      \* bound: ticks between reading a value and storing it
  MaxTime,       \* bound: the clock
  MaxVersion     \* bound: changes of one source

ASSUME CacheAssumption ==
  /\ Reports \subseteq Keys /\ MemoryFirst \subseteq Keys /\ IsFiniteSet(Keys)
  /\ Ttl \in Nat \ {0} /\ DefaultTtl \in Nat \ {0}
  /\ MaxMemory \in Nat \ {0} /\ EvictCount \in Nat \ {0}
  /\ RedisFails \in BOOLEAN
  /\ MaxDelay \in Nat /\ MaxTime \in Nat /\ MaxVersion \in Nat
  /\ Nothing \notin Nat /\ Nothing \notin Keys
  /\ Nothing \notin [version : Nat, dies : Nat]

VARIABLES
  now,      \* the clock
  changed,  \* when each key's source changed: its version is their number
  client,   \* whether get_redis_client found Redis when it was first asked
  memory,   \* _memory_cache: each key's [version, dies], or Nothing
  redis,    \* the same in Redis, which forgets expired keys by itself
  pc,       \* where each thread stands
  key,      \* the key its get_json or set_json is about
  hand,     \* the version it holds, or Nothing
  began,    \* when it read or computed that version
  ttl,      \* the time to live that client.ttl told it
  todo,     \* the scopes (sets of keys) it has yet to delete
  scope,    \* the scope it is deleting; after client.keys, what that listed
  raced     \* history: a change of the key overlapped a call that may fill
            \* the cache with it, or Redis failed to delete it

source == <<now, changed, client>>
local == <<key, hand, began, ttl>>
writer == <<todo, scope>>
vars == <<source, memory, redis, pc, local, writer, raced>>

Init ==
  /\ now = 0 /\ changed = [k \in Keys |-> <<>>] /\ client \in BOOLEAN
  /\ memory = [k \in Keys |-> Nothing] /\ redis = [k \in Keys |-> Nothing]
  /\ pc = [t \in Threads |-> "idle"]
  /\ key = [t \in Threads |-> Nothing] /\ hand = [t \in Threads |-> Nothing]
  /\ began = [t \in Threads |-> 0] /\ ttl = [t \in Threads |-> 0]
  /\ todo = [t \in Threads |-> {}] /\ scope = [t \in Threads |-> {}]
  /\ raced = [k \in Keys |-> FALSE]

Goto(t, l) == pc' = [pc EXCEPT ![t] = l]
Version(k) == Len(changed[k])
EntryOf(v, lives) == [version |-> v, dies |-> now + lives]

\* The thread's call is over: it holds nothing any more.
Finish(t) ==
  /\ Goto(t, "idle")
  /\ key' = [key EXCEPT ![t] = Nothing] /\ hand' = [hand EXCEPT ![t] = Nothing]
  /\ began' = [began EXCEPT ![t] = 0] /\ ttl' = [ttl EXCEPT ![t] = 0]

\* A value read or computed now.
Take(t, v) ==
  /\ hand' = [hand EXCEPT ![t] = v]
  /\ began' = [began EXCEPT ![t] = now]
  /\ UNCHANGED <<key, ttl>>

-----------------------------------------------------------------------------
(* _memory_get and _memory_set *)

Fresh(k) == memory[k] # Nothing /\ memory[k].dies > now

\* An expired entry is popped by the look at it.
MemoryGet(k) ==
  memory' = IF Fresh(k) THEN memory ELSE [memory EXCEPT ![k] = Nothing]

\* Mutant: only the expired entries are evicted.
EvictExpiredOnly(k) ==
  IF memory[k] = Nothing /\ Cardinality({j \in Keys : memory[j] # Nothing}) >= MaxMemory
    THEN {{j \in Keys : memory[j] # Nothing /\ ~Fresh(j)}} ELSE {{}}

\* The sets of keys that may be evicted to make room for k: none while there
\* is room; the expired ones; and, if that is not enough, the EvictCount that
\* die first.
Evict(k) ==
  LET held == {j \in Keys : memory[j] # Nothing}
      left == {j \in Keys : Fresh(j)}
      kept == IF EvictCount < Cardinality(left) THEN Cardinality(left) - EvictCount ELSE 0
  IN IF k \in held \/ Cardinality(held) < MaxMemory THEN {{}}
     ELSE IF Cardinality(left) < MaxMemory THEN {held \ left}
     ELSE {held \ s : s \in {s \in SUBSET left :
            /\ Cardinality(s) = kept
            /\ \A i \in left \ s, j \in s : memory[i].dies <= memory[j].dies}}

MemorySet(k, entry) ==
  \E out \in Evict(k) :
    memory' = [j \in Keys |-> IF j = k THEN entry
                              ELSE IF j \in out THEN Nothing ELSE memory[j]]

-----------------------------------------------------------------------------
(* get_json *)

Ask == IF client THEN "redis" ELSE "fallback"

CallGet(t, k) ==
  /\ pc[t] = "idle"
  /\ key' = [key EXCEPT ![t] = k]
  /\ Goto(t, IF k \in MemoryFirst THEN "memory" ELSE Ask)
  /\ UNCHANGED <<source, memory, redis, hand, began, ttl, writer, raced>>

LookMemoryFirst(t) ==
  /\ pc[t] = "memory"
  /\ MemoryGet(key[t])
  /\ IF Fresh(key[t]) THEN Finish(t) ELSE Goto(t, Ask) /\ UNCHANGED local
  /\ UNCHANGED <<source, redis, writer, raced>>

Deleting(k) == \E u \in Threads : k \in scope[u] \cup UNION todo[u]

ReadRedis(t) ==
  /\ pc[t] = "redis"
  /\ redis[key[t]] # Nothing
  /\ Take(t, redis[key[t]].version)
  /\ Goto(t, "ttl")
  /\ raced' = [raced EXCEPT ![key[t]] = @ \/ Deleting(key[t])]
  /\ UNCHANGED <<source, memory, redis, writer>>

\* Mutant: a time to live in milliseconds.
ToldMillis(k) == IF redis[k] = Nothing THEN {DefaultTtl} ELSE {1000 * (redis[k].dies - now)}

\* What memory_ttl may be.  The key may be gone since client.get, or its time
\* be rounded down to 0, and then client.ttl is not positive.
Told(k) ==
  IF redis[k] = Nothing THEN {DefaultTtl}
  ELSE {redis[k].dies - now} \cup (IF redis[k].dies = now + 1 THEN {DefaultTtl} ELSE {})

ReadTtl(t) ==
  /\ pc[t] = "ttl"
  /\ \E left \in Told(key[t]) : ttl' = [ttl EXCEPT ![t] = left]
  /\ Goto(t, "fill")
  /\ UNCHANGED <<source, memory, redis, key, hand, began, writer, raced>>

FillMemory(t) ==
  /\ pc[t] = "fill"
  /\ MemorySet(key[t], EntryOf(hand[t], ttl[t]))
  /\ Finish(t)
  /\ UNCHANGED <<source, redis, writer, raced>>

\* client.get found nothing, or client.get or client.ttl raised.
RedisHasNot(t) ==
  /\ \/ pc[t] = "redis" /\ redis[key[t]] = Nothing
     \/ pc[t] \in {"redis", "ttl"} /\ RedisFails
  /\ Goto(t, "fallback")
  /\ hand' = [hand EXCEPT ![t] = Nothing]
  /\ UNCHANGED <<source, memory, redis, key, began, ttl, writer, raced>>

Fallback(t) ==
  /\ pc[t] = "fallback"
  /\ MemoryGet(key[t])
  /\ IF Fresh(key[t]) THEN Finish(t) ELSE Goto(t, "load") /\ UNCHANGED local
  /\ UNCHANGED <<source, redis, writer, raced>>

-----------------------------------------------------------------------------
(* The miss: compute the value and set_json *)

Load(t) ==
  /\ pc[t] = "load"
  /\ Take(t, Version(key[t]))
  /\ Goto(t, "store")
  /\ UNCHANGED <<source, memory, redis, writer, raced>>

LoadRaises(t) ==
  /\ pc[t] = "load"
  /\ Finish(t)
  /\ UNCHANGED <<source, memory, redis, writer, raced>>

StoreMemory(t) ==
  /\ pc[t] = "store"
  /\ MemorySet(key[t], EntryOf(hand[t], Ttl))
  /\ IF client THEN Goto(t, "storeRedis") /\ UNCHANGED local ELSE Finish(t)
  /\ UNCHANGED <<source, redis, writer, raced>>

StoreRedis(t) ==
  /\ pc[t] = "storeRedis"
  /\ \/ redis' = [redis EXCEPT ![key[t]] = EntryOf(hand[t], Ttl)]
     \/ RedisFails /\ UNCHANGED redis
  /\ Finish(t)
  /\ UNCHANGED <<source, memory, writer, raced>>

-----------------------------------------------------------------------------
(* Changes of a source, and delete_cache_pattern *)

\* Threads that hold a version of k, or may still write one.
Filling(k) == \E u \in Threads : key[u] = k /\ hand[u] # Nothing

Move(keys) ==
  /\ \A k \in keys : Version(k) < MaxVersion
  /\ changed' = [k \in Keys |-> IF k \in keys THEN Append(changed[k], now) ELSE changed[k]]
  /\ raced' = [k \in Keys |-> raced[k] \/ (k \in keys /\ Filling(k))]

\* db.commit() of a user's targets; one pattern for each kind of report.
Commit(t) ==
  /\ pc[t] = "idle"
  /\ Reports # {} /\ Move(Reports)
  /\ todo' = [todo EXCEPT ![t] = {{k} : k \in Reports}]
  /\ Goto(t, "drop")
  /\ UNCHANGED <<now, client, memory, redis, local, scope>>

\* A source that tells the cache nothing.
SourceMoves(k) ==
  /\ k \notin Reports
  /\ Move({k})
  /\ UNCHANGED <<now, client, memory, redis, pc, local, writer>>

\* The administrator clears the cache: one scope, everything.
ClearCache(t) ==
  /\ pc[t] = "idle"
  /\ todo' = [todo EXCEPT ![t] = {Keys}]
  /\ Goto(t, "drop")
  /\ UNCHANGED <<source, memory, redis, local, scope, raced>>

\* Mutant: _match_pattern never matches.
DroppedNone == memory

\* The patterns hold '|', which _match_pattern leaves to the regular expression
\* as an alternative, and the last alternative matches every key.
Dropped == [k \in Keys |-> Nothing]

DropMemory(t) ==
  /\ pc[t] = "drop"
  /\ memory' = Dropped
  /\ \E s \in todo[t] :
       /\ scope' = [scope EXCEPT ![t] = s]
       /\ todo' = [todo EXCEPT ![t] = @ \ {s}]
  /\ Goto(t, "list")
  /\ UNCHANGED <<source, redis, local, raced>>

ScopeDone(t) ==
  /\ scope' = [scope EXCEPT ![t] = {}]
  /\ Goto(t, IF todo[t] = {} THEN "idle" ELSE "drop")

\* client.keys
ListKeys(t) ==
  /\ pc[t] = "list" /\ client
  /\ LET found == {k \in scope[t] : redis[k] # Nothing}
     IN IF found = {} THEN ScopeDone(t)
        ELSE scope' = [scope EXCEPT ![t] = found] /\ Goto(t, "delete")
  /\ UNCHANGED <<source, memory, redis, local, todo, raced>>

NoRedis(t) ==
  /\ pc[t] = "list" /\ ~client
  /\ ScopeDone(t)
  /\ UNCHANGED <<source, memory, redis, local, todo, raced>>

\* client.delete
DeleteKeys(t) ==
  /\ pc[t] = "delete"
  /\ redis' = [k \in Keys |-> IF k \in scope[t] THEN Nothing ELSE redis[k]]
  /\ ScopeDone(t)
  /\ UNCHANGED <<source, memory, local, todo, raced>>

\* client.keys or client.delete raises: the scope stays in Redis.
DeleteRaises(t) ==
  /\ pc[t] \in {"list", "delete"} /\ client /\ RedisFails
  /\ raced' = [k \in Keys |-> raced[k] \/ k \in scope[t]]
  /\ ScopeDone(t)
  /\ UNCHANGED <<source, memory, redis, local, todo>>

-----------------------------------------------------------------------------
\* Time passes, but no thread sits on a value for more than MaxDelay.
Tick ==
  /\ now < MaxTime
  /\ \A t \in Threads : hand[t] # Nothing => now < began[t] + MaxDelay
  /\ now' = now + 1
  /\ redis' = [k \in Keys |-> IF redis[k] # Nothing /\ redis[k].dies <= now + 1
                              THEN Nothing ELSE redis[k]]
  /\ UNCHANGED <<changed, client, memory, pc, local, writer, raced>>

Next ==
  \/ Tick
  \/ \E k \in Keys : SourceMoves(k)
  \/ \E t \in Threads :
       \/ \E k \in Keys : CallGet(t, k)
       \/ LookMemoryFirst(t)
       \/ ReadRedis(t)
       \/ ReadTtl(t)
       \/ FillMemory(t)
       \/ RedisHasNot(t)
       \/ Fallback(t)
       \/ Load(t)
       \/ LoadRaises(t)
       \/ StoreMemory(t)
       \/ StoreRedis(t)
       \/ Commit(t)
       \/ ClearCache(t)
       \/ DropMemory(t)
       \/ ListKeys(t)
       \/ NoRedis(t)
       \/ DeleteKeys(t)
       \/ DeleteRaises(t)

Spec == Init /\ [][Next]_vars

-----------------------------------------------------------------------------
(* Properties *)

Entry == [version : Nat, dies : Nat]

\* A thread holds a version exactly between reading it and storing it.
TypeOK ==
  /\ now \in 0..MaxTime /\ client \in BOOLEAN
  /\ changed \in [Keys -> Seq(Nat)]
  /\ memory \in [Keys -> Entry \cup {Nothing}] /\ redis \in [Keys -> Entry \cup {Nothing}]
  /\ key \in [Threads -> Keys \cup {Nothing}] /\ hand \in [Threads -> Nat \cup {Nothing}]
  /\ began \in [Threads -> Nat] /\ ttl \in [Threads -> Nat]
  /\ todo \in [Threads -> SUBSET SUBSET Keys] /\ scope \in [Threads -> SUBSET Keys]
  /\ raced \in [Keys -> BOOLEAN]
  /\ pc \in [Threads -> {"idle", "memory", "redis", "ttl", "fill", "fallback", "load",
                         "store", "storeRedis", "drop", "list", "delete"}]
  /\ \A t \in Threads : hand[t] # Nothing <=> pc[t] \in {"ttl", "fill", "store", "storeRedis"}

\* The memory map never outgrows its limit, whatever mix of expired, live and
\* replaced entries the threads' calls leave in it.
MemoryBounded == Cardinality({k \in Keys : memory[k] # Nothing}) <= MaxMemory

\* The last moment, so far, at which version v of k's source was current.
Current(k, v) == IF v < Version(k) THEN changed[k][v + 1] ELSE now

StaleAtMost(k, bound) == memory[k] # Nothing => memory[k].dies <= Current(k, memory[k].version) + bound

LongerTtl == IF Ttl < DefaultTtl THEN DefaultTtl ELSE Ttl

\* However computing, storing, expiring, copying from Redis and invalidating
\* interleave, a value leaves the memory map, and with it the cache, a bounded
\* time after its source changed: one life in Redis and one, which may be the
\* default, in memory.
StalenessBounded == \A k \in Keys : StaleAtMost(k, 2 * MaxDelay + Ttl + LongerTtl - 1)

\* Once the invalidation after a change of the targets is over, neither level
\* holds a report from before it, unless the change overlapped a request for
\* that report that was past reading the database or Redis, or one read Redis
\* before it was deleted there, or Redis failed.
CoherentUnlessRaced ==
  \A k \in Reports :
    raced[k] \/ Deleting(k) \/
      \A entry \in {memory[k], redis[k]} \ {Nothing} : entry.version = Version(k)
=============================================================================
