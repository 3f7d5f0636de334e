------------------------------- MODULE MCApi --------------------------------
(***************************************************************************)
(* Parts of the API that share no state: background work, the profile of   *)
(* one stock, answers about it, pages of the stock list, a user's rows and *)
(* stock pool, tables of reference data, and the analyses: the strategy    *)
(* with its runs, graphs of news, stress tests, macro scenarios and cigar  *)
(* butts.  Each behaviour is of one part.  A variable that several parts   *)
(* declare holds what the behaviour's part keeps in it; those of others    *)
(* are Nothing.                                                            *)
(***************************************************************************)
EXTENDS BackgroundRefresh

CONSTANTS Refresher, Extras, MaxMarket, Symbols, Foreign, Indices, Limit, Databases, MaxSourced,
          MaxBeside, Rows, Values, Partitions, MaxBlocks, LastDay, MaxRuns, Torn, Nothing

\* Of the strategy: the stocks and days of a request, and its settings.
CONSTANTS Scored, Sessions, Warm, Step, SampleStep, Horizons, MinRows, MinDates, MinValidation,
          Buckets, Window

\* Of graphs: who and what news may name, and how much is shown.
CONSTANTS Subject, Components, Pieces, MaxNews, MaxPeers, MaxThemes, MaxSectors, MaxChains, Related,
          SectorLists

\* Of stress tests: when a stock has prices, and what exposures need.
CONSTANTS Calendars, MinSample, MinIndex, StaleDays

\* Of cigar butts: amounts and prices.
CONSTANTS Cash, Owed, Prices

\* There are partitions to try, and among any of them a latest one.
ASSUME PartitionAssumption ==
  /\ Partitions # {} /\ Partitions \subseteq Nat /\ MaxBlocks \in Nat
  /\ \A S \in SUBSET Partitions : S # {} => \E p \in S : \A q \in S : p >= q

\* What stands for nothing, and for a torn file, is told from each other, from
\* versions of the market and from features.
ASSUME NothingAssumption ==
  Nothing # Torn /\ Nothing \notin Nat /\ {Nothing, Torn} \cap [of : Nat, read : Nat] = {}

ASSUME ProfileAssumption == MaxMarket \in Nat

\* Symbols have an order, and a page has a length.
ASSUME SymbolsAssumption == Symbols \subseteq Nat /\ IsFiniteSet(Symbols) /\ Limit \in Nat

ASSUME RunsAssumption == LastDay \in Nat \ {0} /\ MaxRuns \in Nat

\* Returns span a day or more, rows are taken at a step, and a backtest has buckets.
ASSUME StrategyAssumption ==
  /\ {Scored, Sessions, Warm, MinRows, MinDates, MinValidation, Window} \subseteq Nat
  /\ {Step, SampleStep, Buckets} \cup Horizons \subseteq Nat \ {0}

\* News names stocks that there are.
ASSUME NewsAssumption ==
  /\ Pieces \in Nat \ {0} /\ MaxNews \in Nat /\ MaxSectors \in Nat \ {0} /\ MaxChains \in Nat
  /\ \A list \in Related : list \in Seq({Subject} \cup Components)
  /\ \A list \in SectorLists : list \in Seq(Nat)

ASSUME StressAssumption ==
  /\ MinSample \in Nat \ {0} /\ MinIndex \in Nat /\ StaleDays \in Nat
  /\ \A days \in Calendars : days \subseteq Nat /\ IsFiniteSet(days)

ASSUME AmountsAssumption == Cash \subseteq Int /\ Owed \subseteq Int /\ Prices \subseteq Nat

VARIABLES part, market, snapshot, cache, wanted, call, local, risk,
          query, db, basics, profile, page, cached, missed, table, json, items,
          wish, mixed, made, day, runs, memory, payloads, features

MCRelated == {<<>>, <<1>>, <<2, 3>>, <<3, 1>>}
MCSectors == {<<>>, <<1>>, <<2, 1>>}
\* Nothing, no names, one name without a sector, everything.
MCDatabases ==
  LET Has(s, name, sector) == [symbol |-> s, name |-> name, sector |-> sector]
  IN {<<Nothing, Nothing, Nothing>>,
      <<Has(1, FALSE, FALSE), Has(2, FALSE, FALSE), Nothing>>,
      <<Has(1, FALSE, FALSE), Has(2, TRUE, FALSE), Nothing>>,
      <<Has(1, TRUE, TRUE), Has(2, TRUE, TRUE), Nothing>>}
MCWorkers == [pool \in Pools |-> IF pool = "basics" THEN 1 ELSE 2]

\* One request and the background refresh work on a profile.
Profile == INSTANCE LiveProfile WITH Callers <- {CHOOSE c \in Callers : TRUE}
Answers == INSTANCE LiveAnswers
Pages == INSTANCE StockPages
Users == INSTANCE UserRows
Pool == INSTANCE StockPools WITH Symbols <- Rows
Tables == INSTANCE PartitionTable
Strategy == INSTANCE SmokeButt
  WITH asked <- query, answer <- page, Candidates <- Scored, LastDay <- Sessions
Backtests == INSTANCE StrategyRuns
Graph == INSTANCE NewsGraph WITH asked <- query, answer <- page
Stress == INSTANCE PortfolioStress
  WITH asked <- query, answer <- page, LastDay <- 4, PositionLimit <- 1, DefaultLambda <- 22
Macro == INSTANCE MacroScenarios WITH asked <- query, answer <- page
Cigar == INSTANCE CigarButt WITH asked <- query, answer <- page

allVars == <<part, kind, claimed, jobs, caller, value, rows, leaked, market, snapshot,
             cache, wanted, call, local, risk, query, db, basics, profile, page, cached, missed,
             table, json, items, wish, mixed, made, day, runs, memory, payloads, features>>

\* What holds of the variables that are not among own.
Others(own, Holds(_)) ==
  /\ IF "kind" \in own THEN TRUE ELSE Holds(kind)
  /\ IF "claimed" \in own THEN TRUE
     ELSE Holds(claimed) /\ Holds(jobs) /\ Holds(caller) /\ Holds(value) /\ Holds(leaked)
  /\ IF "rows" \in own THEN TRUE ELSE Holds(rows)
  /\ IF "market" \in own THEN TRUE ELSE Holds(market) /\ Holds(snapshot) /\ Holds(wanted)
  /\ IF "cache" \in own THEN TRUE ELSE Holds(cache)
  /\ IF "call" \in own THEN TRUE ELSE Holds(call)
  /\ IF "local" \in own THEN TRUE ELSE Holds(local) /\ Holds(risk)
  /\ IF "query" \in own THEN TRUE ELSE Holds(query) /\ Holds(page)
  /\ IF "db" \in own THEN TRUE ELSE Holds(db) /\ Holds(basics) /\ Holds(profile)
  /\ IF "cached" \in own THEN TRUE ELSE Holds(cached) /\ Holds(missed)
  /\ IF "table" \in own THEN TRUE ELSE Holds(table) /\ Holds(json) /\ Holds(items) /\ Holds(wish)
  /\ IF "mixed" \in own THEN TRUE ELSE Holds(mixed)
  /\ IF "made" \in own THEN TRUE ELSE Holds(made)
  /\ IF "day" \in own THEN TRUE
     ELSE Holds(day) /\ Holds(runs) /\ Holds(memory) /\ Holds(payloads) /\ Holds(features)

IsNothing(v) == v = Nothing
Stays(v) == v' = v
Unused(own) == Others(own, IsNothing)
Keeps(own) == Others(own, Stays)

OfRefresh == {"kind", "claimed", "rows"}
OfProfile == {"market", "cache", "call"}
OfAnswers == {"kind", "local", "cache", "call"}
OfPages == {"query", "db", "call"}
OfUsers == {"kind", "rows", "cached", "call"}
OfPool == {"table", "mixed", "call"}
OfTables == {"rows", "made", "mixed", "call"}
OfBacktests == {"day", "call", "mixed"}
OfAnalysis == {"query"}

ApiInit ==
  \/ part = "refresh" /\ Init /\ Unused(OfRefresh)
  \/ part = "profile" /\ Profile!Init /\ Unused(OfProfile)
  \/ part = "answers" /\ Answers!Init /\ Unused(OfAnswers)
  \/ part = "pages" /\ Pages!Init /\ Unused(OfPages)
  \/ part = "users" /\ Users!Init /\ Unused(OfUsers)
  \/ part = "pool" /\ Pool!Init /\ Unused(OfPool)
  \/ part = "tables" /\ Tables!Init /\ Unused(OfTables)
  \/ part = "runs" /\ Backtests!Init /\ Unused(OfBacktests)
  \/ part = "strategy" /\ Strategy!Init /\ Unused(OfAnalysis)
  \/ part = "graph" /\ Graph!Init /\ Unused(OfAnalysis)
  \/ part = "stress" /\ Stress!Init /\ Unused(OfAnalysis)
  \/ part = "macro" /\ Macro!Init /\ Unused(OfAnalysis)
  \/ part = "cigarbutt" /\ Cigar!Init /\ Unused(OfAnalysis)

ApiNext ==
  /\ UNCHANGED part
  /\ \/ part = "refresh" /\ Next /\ Keeps(OfRefresh)
     \/ part = "profile" /\ Profile!Next /\ Keeps(OfProfile)
     \/ part = "answers" /\ Answers!Next /\ Keeps(OfAnswers)
     \/ part = "pages" /\ Pages!Next /\ Keeps(OfPages)
     \/ part = "users" /\ Users!Next /\ Keeps(OfUsers)
     \/ part = "pool" /\ Pool!Next /\ Keeps(OfPool)
     \/ part = "tables" /\ Tables!Next /\ Keeps(OfTables)
     \/ part = "runs" /\ Backtests!Next /\ Keeps(OfBacktests)
     \/ part = "strategy" /\ Strategy!Next /\ Keeps(OfAnalysis)
     \/ part = "graph" /\ Graph!Next /\ Keeps(OfAnalysis)
     \/ part = "stress" /\ Stress!Next /\ Keeps(OfAnalysis)
     \/ part = "macro" /\ Macro!Next /\ Keeps(OfAnalysis)
     \/ part = "cigarbutt" /\ Cigar!Next /\ Keeps(OfAnalysis)

ApiSpec ==
  /\ ApiInit
  /\ [][ApiNext]_allVars
  /\ WF_vars(part = "refresh" /\ OldestProceeds)
  /\ \A c \in Callers : WF_vars(part = "refresh" /\ Proceeds(c))

ApiTypes ==
  /\ part = "refresh" => TypeOK
  /\ part = "profile" => Profile!TypeOK
  /\ part = "answers" => Answers!TypeOK
  /\ part = "pages" => Pages!TypeOK
  /\ part = "users" => Users!TypeOK
  /\ part = "pool" => Pool!TypeOK
  /\ part = "tables" => Tables!TypeOK
  /\ part = "runs" => Backtests!TypeOK

\* The rest of what the analyses say: the chains from news to other stocks, the
\* sums of stress tests, macro scenarios, and companies that differ in a figure.
AnalysesSound ==
  /\ part = "graph" => Graph!ImpactsLead
  /\ part = "stress" => Stress!StressSound
  /\ part = "macro" => Macro!MacroSound
  /\ part = "cigarbutt" => Cigar!CigarSound

JobsClaimsBacked == part = "refresh" => ClaimsBacked
JobsClaimsReleased ==
  \A k \in Keys :
    part = "refresh" /\ k \in claimed ~> part # "refresh" \/ k \notin claimed \/ k \in leaked
\* What a profile or a page shows is not given up for less.
NothingWorsens ==
  [][/\ part = "profile" => Profile!PartsKeptStep
     /\ part = "pages" => Pages!PagesImproveStep]_allVars
BestInHand == part = "answers" => Answers!BestInHand
ReportsFollowTargets == part = "users" => Users!ReportsFollowTargets
PoolShowsWish == part = "pool" => Pool!PoolShowsWish
ShownOnce == part = "tables" => Tables!ShownOnce
StrategySound == part = "strategy" => Strategy!StrategySound
NewsInOrder == part = "graph" => Graph!GraphWhole /\ Graph!NamedFirst /\ Graph!PropagationsLead
ExposuresSettle == part = "stress" => Stress!ExposuresSettle
VerdictsStand == part = "cigarbutt" => Cigar!VerdictsStand

\* What the strategy, a news graph, the exposures and the cigar butt analyzer say
\* agrees with the data that they were asked about.
AnalysesAgree == StrategySound /\ NewsInOrder /\ ExposuresSettle /\ VerdictsStand

BacktestsAgree == part = "runs" => Backtests!BacktestsAgree
=============================================================================
