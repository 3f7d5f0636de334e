--------------------------- MODULE PortfolioStress ---------------------------
(***************************************************************************)
(* Stress tests of a user's targets (services/portfolio_stress_service.py, *)
(* services/portfolio_snapshot_service.py): what the targets are worth,    *)
(* the built-in scenarios, a scenario of the user's rules, and the factor  *)
(* exposures of stocks that such a scenario uses, kept in a table.  A      *)
(* behaviour is one request.  Shocks are in hundredths of a percent; a     *)
(* regression is told by the days it is made of, and betas and             *)
(* correlations are -1, 0 or 1.                                            *)
(***************************************************************************)
EXTENDS Integers, Sequences, FiniteSets, SequencesExt, FiniteSetsExt, Functions

CONSTANTS
  LastDay,        \* bound: the newest day with prices
  Calendars,      \* bound: the sets of days on which a stock may have prices
  PositionLimit,
  DefaultLambda,  \* FACTOR_DEFAULT_PROPAGATION_LAMBDA, in percent
  MinSample,      \* FACTOR_LOOKBACK_MIN
  MinIndex,       \* returns that an index needs
  StaleDays,      \* FACTOR_CACHE_STALE_DAYS
  Nothing         \* no price, no answer, no exposure, no override

VARIABLES
  asked,    \* what is asked, and the data
  answer

vars == <<asked, answer>>

Days == 1..LastDay
Abs(n) == IF n < 0 THEN -n ELSE n
Larger(a, b) == IF a > b THEN a ELSE b
Smaller(a, b) == IF a < b THEN a ELSE b

\* clip_shock_pct.
Clip(shock) == Larger(-9500, Smaller(9500, shock))

-----------------------------------------------------------------------------
(* Snapshots *)

\* A stock's market and sector, and what its sector's own label says.
Kind(market, sector, label) == [market |-> market, sector |-> sector, label |-> label]

\* load_bought_target_snapshots: a target without a price is worth what was paid.
Bought(target) ==
  [kind |-> target.kind,
   value |-> target.lots * (IF target.price \in {Nothing, 0} THEN target.paid ELSE target.price)]

\* load_watch_target_snapshots: a hundred each.
Watched(target) == [kind |-> target.kind, value |-> 100]

Holdings == [i \in DOMAIN asked.targets |->
               IF asked.list = "bought" THEN Bought(asked.targets[i]) ELSE Watched(asked.targets[i])]
Total(holdings) == SumFunction([i \in DOMAIN holdings |-> holdings[i].value])

-----------------------------------------------------------------------------
(* Scenarios *)

\* _bank_sector_shock, _hk_tech_shock and _us_yield_up_shock.
Overseas == {"HK", "US"}
Growth == {"tech", "media"}
BankDrop(kind) == IF "finance" \in {kind.sector, kind.label} THEN -500 ELSE 0
TechPullback(kind) ==
  IF kind.market = "HK" /\ (kind.sector \in Growth \/ kind.label = "tech") THEN -800 ELSE 0
YieldUp(kind) ==
  LET growth == kind.sector \in Growth \/ kind.label = "tech"
      drops == [property |-> -500, utilities |-> -300, health |-> -300, consumer |-> -200]
  IN CASE kind.sector = "finance" -> 100
       [] kind.sector # "finance" /\ growth -> IF kind.market \in Overseas THEN -600 ELSE -400
       [] kind.sector \in DOMAIN drops /\ ~growth -> drops[kind.sector]
       [] OTHER -> IF kind.market \in Overseas THEN -200 ELSE -100

Sorted(S, Before(_, _)) ==
  [i \in 1..Cardinality(S) |-> CHOOSE x \in S : Cardinality({y \in S : Before(y, x)}) = i - 1]

\* evaluate_scenario and _evaluate_scenario_from_shock_map: the holdings that a
\* scenario moves, the largest changes first, and their changes by sector and market.
Evaluate(holdings, shocks) ==
  LET Change(i) == holdings[i].value * shocks[i]
      moved == {i \in DOMAIN holdings : shocks[i] # 0}
      Before(i, j) == \/ Abs(Change(i)) > Abs(Change(j))
                      \/ Abs(Change(i)) = Abs(Change(j)) /\ i < j
      Over(S) == SumFunction([i \in S |-> Change(i)])
      Worth(S) == SumFunction([i \in S |-> holdings[i].value])
      Bucket(S) == [change |-> Over(S), value |-> Worth(S)]
      order == Sorted(moved, Before)
  IN [change |-> Over(DOMAIN holdings),
      loss |-> Larger(-Over(DOMAIN holdings), 0),
      impacted |-> Worth(moved),
      positions |-> SubSeq(order, 1, Smaller(Len(order), Larger(1, PositionLimit))),
      sectors |-> [s \in {holdings[i].kind.sector : i \in moved} |->
                     Bucket({i \in moved : holdings[i].kind.sector = s})],
      markets |-> [m \in {holdings[i].kind.market : i \in moved} |->
                     Bucket({i \in moved : holdings[i].kind.market = m})]]

\* _build_portfolio_stress_payload: the first of the worst scenarios.
StressTest ==
  LET By(Shock(_)) == Evaluate(Holdings, [i \in DOMAIN Holdings |-> Shock(Holdings[i].kind)])
      scenarios == <<By(BankDrop), By(TechPullback), By(YieldUp)>>
      Worst(k) == /\ \A j \in DOMAIN scenarios : scenarios[j].loss <= scenarios[k].loss
                  /\ \A j \in 1..(k - 1) : scenarios[j].loss < scenarios[k].loss
  IN [scenarios |-> scenarios, worst |-> CHOOSE k \in DOMAIN scenarios : Worst(k)]

-----------------------------------------------------------------------------
(* A scenario of the user's rules *)

Names == <<"0700", "600036">>

\* scope_value_matches.
Matches(rule, i) ==
  CASE rule.scope = "all" -> TRUE
    [] rule.scope = "market" -> Holdings[i].kind.market = rule.of
    [] rule.scope = "sector" -> Holdings[i].kind.sector = rule.of
    [] rule.scope = "symbol" -> rule.of = Names[i]

Shocks(rules, Of(_)) ==
  SumFunction([k \in {k \in DOMAIN rules : Of(rules[k])} |-> rules[k].shock])

\* Mutant: the sum is clipped at each rule.
ClippedRules(rules, i) ==
  LET Added(shock, rule) == IF Matches(rule, i) THEN Clip(shock + rule.shock) ELSE shock
  IN FoldLeft(Added, 0, rules)

\* build_custom_shock_function.
Ruled(rules, i) ==
  LET Here(rule) == Matches(rule, i)
  IN Clip(Shocks(rules, Here))

\* _build_factor_shock_vector: rules about markets are averaged, whatever the
\* market; an override replaces the market's shock and adds to a sector's.
Vector(rules) ==
  LET OfMarket(rule) == rule.scope \in {"all", "market"}
      hits == Cardinality({k \in DOMAIN rules : OfMarket(rules[k])})
      Sector(s) == LET Of(rule) == rule.scope = "sector" /\ rule.of = s
                   IN Shocks(rules, Of) + (IF s = asked.override.sector THEN asked.override.shock ELSE 0)
      Own(i) == LET Of(rule) == rule.scope = "symbol" /\ rule.of = Names[i] IN Shocks(rules, Of)
  IN [market |-> Clip(IF asked.override.market # Nothing THEN asked.override.market
                      ELSE Shocks(rules, OfMarket) \div Larger(hits, 1)),
      sector |-> [i \in DOMAIN Holdings |-> Clip(Sector(Holdings[i].kind.sector))],
      rate |-> Clip(asked.override.rate),
      own |-> [i \in DOMAIN Holdings |-> Clip(Own(i))],
      lambda |-> IF asked.lambda = Nothing THEN DefaultLambda
                 ELSE Larger(0, Smaller(100, asked.lambda))]

\* A stock without exposures moves as the rules say.
Direct(rules, i) ==
  LET e == asked.exposures[i]
      v == Vector(rules)
  IN IF e = Nothing THEN Ruled(rules, i)
     ELSE Clip(e.market * v.market + e.sector * v.sector[i] + e.rate * v.rate + e.own + v.own[i])

\* What the others' shocks add to a stock's.
Spill(rules, i) ==
  SumFunction([j \in DOMAIN Holdings \ {i} |-> asked.correlation * Direct(rules, j)])

Propagated(rules, i) ==
  Clip(Direct(rules, i) + (Vector(rules).lambda * Spill(rules, i)) \div 100)

\* _evaluate_custom_stress_scenario.
ShockMap(rules) ==
  [i \in DOMAIN Holdings |-> IF \A j \in DOMAIN Holdings : asked.exposures[j] = Nothing
                             THEN Ruled(rules, i) ELSE Propagated(rules, i)]
CustomScenario == Evaluate(Holdings, ShockMap(asked.rules))

-----------------------------------------------------------------------------
(* Exposures *)

\* _series_pct_change: a return on every day of prices but the first.
Returns(traded) == IF traded = {} THEN {} ELSE traded \ {Min(traded)}

Stocks == DOMAIN asked.traded
Newest(s) == Max(Returns(asked.traded[s]))
Priced == {s \in Stocks : Returns(asked.traded[s]) # {}}
Union(S) == UNION {Returns(asked.traded[s]) : s \in S}

\* _build_market_factor_series: the index, or else the holdings' own average.
MarketDays(s) ==
  IF Cardinality(asked.index) >= MinIndex THEN asked.index
  ELSE Union({t \in Stocks : asked.kinds[t].market = asked.kinds[s].market})

\* Mutant: of the other stocks of the sector.
SectorDaysOfOthers(s) == Union({t \in Stocks \ {s} : asked.kinds[t] = asked.kinds[s]})

\* _build_sector_factor_series.
SectorDays(s) == Union({t \in Stocks : asked.kinds[t] = asked.kinds[s]})

Sample(s) == Returns(asked.traded[s]) \cap MarketDays(s) \cap SectorDays(s)

\* _load_cached_factor_exposures: a stock's newest row that is not too old for
\* the oldest of the stocks' returns, and of a sample that is large enough.
Cached(table, s) ==
  LET oldest == Min({Newest(t) : t \in Priced})
      rows == {row \in table : row.stock = s /\ row.asOf + StaleDays >= oldest /\ row.asOf <= Newest(s)}
  IN {row \in rows : /\ \A other \in rows : other.asOf <= row.asOf
                     /\ row.sample >= MinSample}

\* Mutant: a row of the day of the request.
ComputedToday(s) == [stock |-> s, asOf |-> LastDay + 1, sample |-> Cardinality(Sample(s))]

\* The row that _upsert_factor_exposure_cache stores.
Computed(s) == [stock |-> s, asOf |-> Newest(s), sample |-> Cardinality(Sample(s))]

\* _estimate_latest_factor_exposures: the exposures, and the table that it leaves
\* (its regressions are taken to have an answer).
Estimate(table) ==
  LET found == UNION {Cached(table, s) : s \in Priced}
      missing == {s \in Priced : Cached(table, s) = {} /\ Cardinality(Sample(s)) >= MinSample}
      made == {Computed(s) : s \in missing}
      Replaced(row) == \E new \in made : new.stock = row.stock /\ new.asOf = row.asOf
  IN [rows |-> found \cup made, made |-> made,
      table |-> {row \in table : ~Replaced(row)} \cup made]
-----------------------------------------------------------------------------

Kinds == {Kind("A", "finance", Nothing), Kind("HK", "tech", "tech"), Kind("HK", "consumer", "tech"),
          Kind("US", "property", Nothing), Kind("A", "others", "finance"), Kind("US", "others", Nothing)}
Target(kind, lots, paid, price) == [kind |-> kind, lots |-> lots, paid |-> paid, price |-> price]
Targets == {Target(kind, lots, 2, price) : kind \in Kinds, lots \in {1, 3}, price \in {Nothing, 1}}

Rule(scope, of, shock) == [scope |-> scope, of |-> of, shock |-> shock]
Rules == {Rule("all", Nothing, -6000), Rule("all", Nothing, 8000), Rule("market", "HK", 6000),
          Rule("sector", "tech", -8000), Rule("symbol", "0700", 2000)}
Exposure(market, own) == [market |-> market, sector |-> 1, rate |-> -1, own |-> own]
NoOverride == [market |-> Nothing, sector |-> Nothing, shock |-> 0, rate |-> 0]
Overrides == {NoOverride, [market |-> 5000, sector |-> "tech", shock |-> -4000, rate |-> 1000]}

\* Two stocks that are held, and a stock without exposures or with its own.
Pair == <<Target(Kind("HK", "tech", Nothing), 2, 1, 1), Target(Kind("A", "finance", Nothing), 3, 1, 1)>>

Custom(rules, exposures, lambda, correlation, override) ==
  [what |-> "custom", list |-> "bought", targets |-> Pair, rules |-> rules, exposures |-> exposures,
   lambda |-> lambda, correlation |-> correlation, override |-> override]

Row(stock, asOf, sample) == [stock |-> stock, asOf |-> asOf, sample |-> sample]
Tables == {{Row(1, 1, MinSample)}, {Row(1, 2, MinSample)}, {Row(1, 4, MinSample)}, {Row(1, 4, 1)},
           {Row(1, 2, MinSample), Row(1, 4, 1)}, {Row(2, 3, MinSample)}, {}}

\* The primary key of the table of exposures.
Keyed(table) == \A r, q \in table : r.stock = q.stock /\ r.asOf = q.asOf => r = q

Init ==
  /\ \/ \E n \in 0..2, list \in {"bought", "watched"} : \E targets \in [1..n -> Targets] :
          asked = [what |-> "stress", list |-> list, targets |-> targets]
     \/ \E n \in 0..2, exposed \in [1..2 -> {Nothing, Exposure(1, 0), Exposure(-1, 300)}],
           lambda \in {Nothing, 0, 130}, correlation \in {-1, 1}, override \in Overrides :
           \E rules \in [1..n -> Rules] : asked = Custom(rules, exposed, lambda, correlation, override)
     \/ \E rules \in [1..3 -> Rules], e \in {Nothing, Exposure(1, 0)} :
           asked = Custom(rules, <<Nothing, e>>, Nothing, 1, NoOverride)
     \/ \E traded \in [1..2 -> Calendars], index \in {{}, {2, 3}, {3}}, a, b \in Tables,
           second \in {Kind("HK", "tech", Nothing), Kind("HK", "finance", Nothing)} :
           /\ Keyed(a \cup b)
           /\ asked = [what |-> "exposures", traded |-> traded, index |-> index, table |-> a \cup b,
                       kinds |-> <<Kind("HK", "tech", Nothing), second>>]
  /\ answer = Nothing

Answer(what, value) ==
  /\ asked.what = what /\ answer = Nothing
  /\ answer' = value
  /\ UNCHANGED asked

Next ==
  \/ Answer("stress", StressTest)
  \/ Answer("custom", CustomScenario)
  \/ Answer("exposures", Estimate(asked.table))

Spec == Init /\ [][Next]_vars

-----------------------------------------------------------------------------
(* Properties *)

Answered(what) == answer # Nothing /\ asked.what = what

\* A scenario says the same about the whole, the sectors, the markets and the
\* positions, no position that it leaves out moves more than one that it shows,
\* and nobody loses more than clipping leaves.
AddsUp(scenario, total) ==
  LET Parts(buckets) ==
        /\ SumFunction([b \in DOMAIN buckets |-> buckets[b].change]) = scenario.change
        /\ SumFunction([b \in DOMAIN buckets |-> buckets[b].value]) = scenario.impacted
  IN /\ Parts(scenario.sectors) /\ Parts(scenario.markets)
     /\ scenario.impacted <= total /\ scenario.loss <= 9500 * total
     /\ scenario.change <= 9500 * scenario.impacted
ScenariosAddUp ==
  /\ Answered("stress") =>
       /\ \A k \in DOMAIN answer.scenarios :
            /\ AddsUp(answer.scenarios[k], Total(Holdings))
            /\ answer.scenarios[k].loss <= answer.scenarios[answer.worst].loss
  /\ Answered("custom") => AddsUp(answer, Total(Holdings))

\* The positions that are shown are those that move most.
LargestShown ==
  Answered("custom") =>
    LET shocks == ShockMap(asked.rules)
        Moves(i) == Abs(Holdings[i].value * shocks[i])
    IN /\ \A k \in DOMAIN answer.positions, i \in DOMAIN Holdings :
            i \notin Range(answer.positions) => Moves(i) <= Moves(answer.positions[k])
       /\ answer.positions = <<>> => answer.change = 0

\* The order of the rules does not matter, and what spreads from the others to
\* a stock is at most lambda of their shocks together, but for rounding.
RulesCommute ==
  Answered("custom") =>
    /\ ShockMap(Reverse(asked.rules)) = ShockMap(asked.rules)
    /\ \A i \in DOMAIN Holdings :
         LET own == Direct(asked.rules, i)
             others == SumFunction([j \in DOMAIN Holdings \ {i} |-> Abs(Direct(asked.rules, j))])
         IN 100 * Abs(ShockMap(asked.rules)[i] - own) < Vector(asked.rules).lambda * others + 100

\* No exposure is of a day after the stock's own prices or of too few days; a
\* second request with the table that the first left makes none and has the
\* same; and a stock with enough returns has one where no index is to match.
ExposuresSettle ==
  Answered("exposures") =>
    /\ \A row \in answer.rows : row.asOf <= Newest(row.stock) /\ row.sample >= MinSample
    /\ \A s \in Stocks : Cardinality({row \in answer.rows : row.stock = s}) <= 1
    /\ Estimate(answer.table).made = {} /\ Estimate(answer.table).rows = answer.rows
    /\ Cardinality(asked.index) < MinIndex =>
         \A s \in Stocks : Cardinality(Returns(asked.traded[s])) >= MinSample =>
           \E row \in answer.rows : row.stock = s

StressSound == ScenariosAddUp /\ LargestShown /\ RulesCommute
=============================================================================
