----------------------------- MODULE MCEtlJobs -------------------------------
(***************************************************************************)
(* Parts of the ETL that share no state: two jobs with checkpoints, the    *)
(* file of stock basics and the requests that it serves, the tables that   *)
(* jobs fill and the relations of news items, and the token of the         *)
(* Snowball client.  Each behaviour is one of one part.  A variable that   *)
(* several parts declare holds what the behaviour's part keeps in it;      *)
(* those of the other parts are Nothing.                                   *)
(***************************************************************************)
EXTENDS Naturals, FiniteSets, TLC

CONSTANTS Threads, Stocks, HongKong, Names, Tokens, News, Tables, BatchSize, MinHk,
          MaxStarts, MaxBatches, LastDay, LastUnit, Torn, NoPayload, Nothing

\* Symbols have an order; a batch has one at least.
ASSUME StocksAssumption ==
  /\ Stocks \subseteq Nat \ {0} /\ IsFiniteSet(Stocks) /\ HongKong \subseteq Stocks
  /\ BatchSize \in Nat \ {0} /\ MinHk \in Nat

ASSUME BoundsAssumption ==
  {MaxStarts, MaxBatches} \subseteq Nat /\ {LastDay, LastUnit} \subseteq Nat \ {0}

\* What stands for nothing is told from what may be there, and so is what
\* stands for a torn file and for a collection that raised.
ASSUME NothingAssumption ==
  /\ Nothing # Torn /\ Nothing \notin Nat /\ Nothing \notin Tokens
  /\ \A S \in SUBSET Names \cup SUBSET {"snapshot", "research", "intraday"} : S \notin {Nothing, NoPayload}
  /\ \A row \in [Names -> {Nothing, 0, 1}] : row \notin {Nothing, Torn}
  /\ \A file \in [symbols : SUBSET Stocks, next : 0..Cardinality(Stocks)] : file \notin {Nothing, Torn}
  /\ \A file \in [day : 1..LastDay, symbols : SUBSET Stocks, next : 0..Cardinality(Stocks), indexDone : BOOLEAN] :
       file \notin {Nothing, Torn}
  /\ \A file \in [load : SUBSET HongKong, next : 0..Cardinality(HongKong)] : file # Nothing

VARIABLES part, kind, day, checkpoint, status, run, starts, reached, loaded, cache, temp, save,
          wish, mixed, db, cooling, call, replaced, env, accepted, current, ready, blocked,
          rejected, unsure, text, rows, used, made, batches, whole, asked, answer, failed, got

Details == INSTANCE StockDetails
  WITH Runs <- Threads, Symbols <- Stocks
History == INSTANCE Bootstrap WITH Runs <- Threads, Symbols <- Stocks
BasicsFile == INSTANCE BasicsCache WITH Savers <- Threads, Symbols <- Names
Basics == INSTANCE StockBasics
  WITH Callers <- Threads, Symbols <- Stocks, Requests <- {Stocks}
Token == INSTANCE SnowballToken
Relations == INSTANCE NewsRelations WITH Writers <- Threads, Items <- News, Symbols <- Names
Loader == INSTANCE EtlTables
  WITH Writers <- Threads, Keys <- Stocks, Undated <- HongKong
MarketCaches == INSTANCE FetchCaches WITH LastDay <- LastUnit
Requests == INSTANCE Fetchers WITH Symbols <- Stocks, Days <- 1..LastDay

allVars == <<part, kind, day, checkpoint, status, run, starts, reached, loaded, cache, temp, save,
             wish, mixed, db, cooling, call, replaced, env, accepted, current, ready, blocked,
             rejected, unsure, text, rows, used, made, batches, whole, asked, answer, failed, got>>

\* What holds of the variables that are not among own.
Others(own, Holds(_)) ==
  /\ IF "kind" \in own THEN TRUE ELSE Holds(kind)
  /\ IF "day" \in own THEN TRUE ELSE Holds(day)
  /\ IF "checkpoint" \in own THEN TRUE ELSE Holds(checkpoint)
  /\ IF "status" \in own THEN TRUE ELSE Holds(status) /\ Holds(starts) /\ Holds(reached)
  /\ IF "run" \in own THEN TRUE ELSE Holds(run) /\ Holds(loaded)
  /\ IF "cache" \in own THEN TRUE ELSE Holds(cache)
  /\ IF "temp" \in own THEN TRUE ELSE Holds(temp) /\ Holds(save)
  /\ IF "wish" \in own THEN TRUE ELSE Holds(wish) /\ Holds(mixed)
  /\ IF "db" \in own THEN TRUE ELSE Holds(db) /\ Holds(cooling) /\ Holds(replaced)
  /\ IF "call" \in own THEN TRUE ELSE Holds(call)
  /\ IF "env" \in own THEN TRUE ELSE Holds(env) /\ Holds(accepted) /\ Holds(current) /\ Holds(blocked) /\ Holds(rejected) /\ Holds(unsure)
  /\ IF "ready" \in own THEN TRUE ELSE Holds(ready)
  /\ IF "text" \in own THEN TRUE ELSE Holds(text) /\ Holds(used)
  /\ IF "rows" \in own THEN TRUE ELSE Holds(rows)
  /\ IF "made" \in own THEN TRUE ELSE Holds(made) /\ Holds(batches) /\ Holds(whole)
  /\ IF "asked" \in own THEN TRUE ELSE Holds(asked) /\ Holds(answer)
  /\ IF "failed" \in own THEN TRUE ELSE Holds(failed) /\ Holds(got)

IsNothing(v) == v = Nothing
Stays(v) == v' = v
Unused(own) == Others(own, IsNothing)
Keeps(own) == Others(own, Stays)

OfDetails == {"checkpoint", "status", "run"}
OfHistory == {"day", "checkpoint", "run"}
OfBasicsFile == {"cache", "temp", "wish"}
OfBasics == {"cache", "db", "checkpoint", "call"}
OfToken == {"env", "ready", "call"}
OfRelations == {"text", "rows", "call", "wish"}
OfLoader == {"kind", "rows", "made", "ready", "call"}
OfMarketCaches == {"day", "cache", "call", "failed"}
OfRequests == {"asked"}

EtlInit ==
  \/ part = "details" /\ Details!Init /\ Unused(OfDetails)
  \/ part = "history" /\ History!Init /\ Unused(OfHistory)
  \/ part = "basics file" /\ BasicsFile!Init /\ Unused(OfBasicsFile)
  \/ part = "basics" /\ Basics!Init /\ Unused(OfBasics)
  \/ part = "token" /\ Token!Init /\ Unused(OfToken)
  \/ part = "relations" /\ Relations!Init /\ Unused(OfRelations)
  \/ part = "loader" /\ Loader!Init /\ Unused(OfLoader)
  \/ part = "market caches" /\ MarketCaches!Init /\ Unused(OfMarketCaches)
  \/ part = "requests" /\ Requests!Init /\ Unused(OfRequests)

EtlNext ==
  /\ UNCHANGED part
  /\ \/ part = "details" /\ Details!Next /\ Keeps(OfDetails)
     \/ part = "history" /\ History!Next /\ Keeps(OfHistory)
     \/ part = "basics file" /\ BasicsFile!Next /\ Keeps(OfBasicsFile)
     \/ part = "basics" /\ Basics!Next /\ Keeps(OfBasics)
     \/ part = "token" /\ Token!Next /\ Keeps(OfToken)
     \/ part = "relations" /\ Relations!Next /\ Keeps(OfRelations)
     \/ part = "loader" /\ Loader!Next /\ Keeps(OfLoader)
     \/ part = "market caches" /\ MarketCaches!Next /\ Keeps(OfMarketCaches)
     \/ part = "requests" /\ Requests!Next /\ Keeps(OfRequests)

\* No part tells the threads, nor the names, from one another.
Interchangeable == Permutations(Threads) \cup Permutations(Names)

EtlSpec == EtlInit /\ [][EtlNext]_allVars

EtlTypes ==
  /\ part = "details" => Details!TypeOK
  /\ part = "history" => History!TypeOK
  /\ part = "basics file" => BasicsFile!TypeOK
  /\ part = "basics" => Basics!TypeOK
  /\ part = "token" => Token!TypeOK
  /\ part = "relations" => Relations!TypeOK
  /\ part = "loader" => Loader!TypeOK
  /\ part = "market caches" => MarketCaches!TypeOK

\* A checkpoint, or an entry of the status file, never claims what was not stored.
ProgressBacked ==
  /\ part = "details" => Details!ProgressBacked
  /\ part = "history" => History!NothingSkipped
  /\ part = "basics" => Basics!LoadedIsStored

\* What was fetched once survives a save that fails and a fetch that fails.
FetchedIsKept ==
  /\ part = "basics file" => BasicsFile!FileKeepsRows
  /\ part = "market caches" => MarketCaches!FailuresPass

AnsweredInFull == part = "basics" => Basics!AnsweredInFull
BlockedWasRejected == part = "token" => Token!BlockedWasRejected
RelationsMatch == part = "relations" => Relations!RelationsMatch
FetchedAsAsked == part = "requests" => Requests!FetchedAsAsked
BatchesWhole == part = "loader" => Loader!BatchesWhole
=============================================================================
