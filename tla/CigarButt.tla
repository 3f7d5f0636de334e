------------------------------ MODULE CigarButt ------------------------------
(***************************************************************************)
(* What a company is worth dead: the analyzer of static values             *)
(* (etl/strategies/cigarbutt/cigarbutt_analyzer.py) and the service that   *)
(* asks it about a symbol (services/cigarbutt_strategy_service.py).  The   *)
(* company has one share; amounts are in one unit, values of assets in its *)
(* hundredths, shares of capital in percent and positions in thousandths.  *)
(* What the panel lacks is Nothing, and so is a price that is unknown.     *)
(***************************************************************************)
EXTENDS Integers, Sequences, FiniteSets, SequencesExt, FiniteSetsExt

CONSTANTS
  Cash, Owed,  \* bound: what a company may have, and may owe
  Prices,      \* bound: the prices that a share may have
  Nothing

VARIABLES
  asked,    \* a symbol's rows and quote, or a panel and a price
  answer

vars == <<asked, answer>>

Known(v) == v # Nothing
Given(v) == IF v = Nothing THEN 0 ELSE v
Lesser(a, b) == IF a < b THEN a ELSE b
Greater(a, b) == IF a > b THEN a ELSE b
Points(holds, n) == IF holds THEN n ELSE 0
Total(numbers) == FoldLeft(LAMBDA sum, n : sum + n, 0, numbers)

\* a / b is above so many percent.
Above(a, b, percent) ==
  b # 0 /\ IF b > 0 THEN 100 * a > percent * b ELSE 100 * a < percent * b

-----------------------------------------------------------------------------
(* Panels *)

\* FinancialPanel, without the fields that nothing reads; short investments and
\* deposits are one, and there are no notes among the receivables.
Blank ==
  [shares |-> Nothing, market |-> "A",
   assets |-> Nothing, liabilities |-> Nothing, equity |-> Nothing,
   currentAssets |-> Nothing, currentLiabilities |-> Nothing,
   cash |-> Nothing, deposits |-> Nothing, restricted |-> Nothing, contract |-> Nothing,
   receivables |-> Nothing, inventory |-> Nothing, otherCurrent |-> Nothing, fixed |-> Nothing,
   shortDebt |-> Nothing, longDebt |-> Nothing, goodwill |-> Nothing, intangibles |-> Nothing,
   unidentifiable |-> Nothing,
   revenue |-> Nothing, annual |-> Nothing, profit |-> Nothing, parentProfit |-> Nothing,
   operating |-> Nothing, free |-> Nothing,
   yield |-> Nothing, years |-> Nothing, payout |-> Nothing, dividend |-> Nothing, history |-> <<>>,
   holdings |-> <<>>, events |-> <<>>, authorized |-> Nothing, executed |-> Nothing,
   owner |-> "none", stake |-> Nothing,
   pledged |-> Nothing, impaired |-> FALSE, overdue |-> Nothing, related |-> Nothing,
   dio |-> <<>>, industryDio |-> Nothing, offBalance |-> Nothing, commitments |-> Nothing,
   pension |-> Nothing, payables |-> Nothing, relatedRevenue |-> Nothing, top5 |-> Nothing,
   q4 |-> Nothing, audit |-> "clean", fraud |-> FALSE, subsidy |-> Nothing, nonCurrent |-> Nothing]

\* _build_financial_panel: the newest rows of a symbol; the number of shares is
\* a snapshot's market value over its price.
FromDatabase(market, statements, snapshots) ==
  LET Newest(rows) == CHOOSE row \in rows : \A other \in rows : other.day <= row.day
      Reported == IF statements = {} THEN Blank
                  ELSE [Blank EXCEPT !.revenue = Newest(statements).revenue,
                                     !.profit = Newest(statements).income,
                                     !.operating = Newest(statements).cashFlow]
      Shares(row) == IF Given(row.value) # 0 /\ Given(row.price) > 0 THEN 1 ELSE Nothing
  IN IF snapshots = {} THEN [Reported EXCEPT !.market = market]
     ELSE [Reported EXCEPT !.market = market, !.shares = Shares(Newest(snapshots)),
                           !.yield = Newest(snapshots).yield]

-----------------------------------------------------------------------------
(* Phase 1: net asset values *)

CashPool(p) == IF Known(p.cash) THEN p.cash + Given(p.deposits) ELSE Nothing
Debt(p) == Given(p.shortDebt) + Given(p.longDebt)
NetCash(p) == Given(p.cash) + Given(p.deposits) - Debt(p)

\* _calculate_t0_nav, _calculate_t1_nav, _calculate_t2_nav: contract liabilities
\* are added where cash is all that counts, and taken off where stocks count.
Nav0(p) == IF Known(CashPool(p)) /\ Known(p.liabilities)
           THEN 100 * (CashPool(p) + Given(p.contract) - p.liabilities) ELSE Nothing
Nav1(p) == IF Known(CashPool(p)) /\ (Known(p.shortDebt) \/ Known(p.longDebt) \/ Known(p.liabilities))
           THEN 100 * (CashPool(p) + Given(p.contract) - Debt(p)) ELSE Nothing
Nav2(p) == IF Known(p.liabilities)
           THEN 100 * (Given(CashPool(p)) - p.liabilities - Given(p.contract))
                + 85 * Given(p.receivables) + 60 * Given(p.inventory) + 50 * Given(p.otherCurrent)
           ELSE Nothing
Navs(p) == [t0 |-> Nav0(p), t1 |-> Nav1(p), t2 |-> Nav2(p)]

\* A price below so many percent of a value that is above zero.
Cheap(price, nav, percent) == price > 0 /\ Given(nav) > 0 /\ 10000 * price < percent * nav

Discount(level) == CASE level = "T0" -> 85 [] level = "T1" -> 80 [] level = "T2" -> 70
NavOf(nav, level) == CASE level = "T0" -> nav.t0 [] level = "T1" -> nav.t1 [] level = "T2" -> nav.t2

\* analyze: the strictest level that passes.
BestLevel(nav, price) ==
  CASE Cheap(price, nav.t0, 85) -> "T0"
    [] ~Cheap(price, nav.t0, 85) /\ Cheap(price, nav.t1, 80) -> "T1"
    [] OTHER -> IF ~Cheap(price, nav.t0, 85) /\ Cheap(price, nav.t2, 70) THEN "T2" ELSE "none"

\* _calculate_liquidation_value.
Liquidation(p) ==
  LET rest == Given(p.currentAssets) - Given(p.cash) - Given(p.receivables) - Given(p.inventory)
  IN IF Known(p.currentAssets) /\ Known(p.liabilities)
     THEN 100 * (Given(p.cash) - p.liabilities) + 75 * Given(p.receivables) + 50 * Given(p.inventory)
          + 50 * Greater(0, rest) + 20 * Given(p.fixed)
     ELSE Nothing

\* The price is below so many percent of the book value.
BelowBook(p, price, percent) == Given(p.equity) > 0 /\ 100 * price < percent * p.equity

\* _calculate_asset_burn_rate and its veto line: free cash flow against the
\* first of the values that is known and not zero.
Burns(p, nav, level) ==
  LET base == IF Given(nav.t0) # 0 THEN nav.t0
              ELSE IF Given(nav.t1) # 0 THEN nav.t1 ELSE Given(nav.t2)
      veto == CASE level = "T0" -> -5 [] level = "T1" -> 0 [] level = "T2" -> 5 [] OTHER -> 0
  IN level # "none" /\ Known(p.free) /\ base > 0 /\ 10000 * p.free < veto * base

-----------------------------------------------------------------------------
(* Phase 2: ways to the money *)

\* DIVIDEND_YIELD_THRESHOLDS and RISK_FREE_RATES, by market.
MinYield(market) == CASE market = "HK" -> 60 [] market = "A" -> 40 [] market = "US" -> 50
RiskFree(market) == CASE market = "HK" -> 40 [] market = "A" -> 25 [] market = "US" -> 45

\* SubTypeAAnalyzer.analyze: its conditions of safety decide nothing.
HighDividend(p, price) ==
  /\ 10 * Given(p.yield) >= MinYield(p.market)
  /\ Given(p.equity) > 0 /\ 2 * price <= p.equity
  /\ Given(p.years) >= 5

\* _calculate_sustainability_score: growth is taken for flat.
Sustainability(p) ==
  LET covered == Known(p.free) /\ Given(p.dividend) > 0
      known == Given(p.assets) > 0
  IN Points(Given(p.years) >= 10, 2) + Points(Given(p.years) \in 5..9, 1)
     + Points(Given(p.payout) \in 30..60, 2) + Points(Given(p.payout) \in 61..79, 1)
     + Points(covered /\ 10 * Given(p.free) > 12 * Given(p.dividend), 2)
     + Points(covered /\ 10 * Given(p.free) >= 8 * Given(p.dividend)
                      /\ 10 * Given(p.free) <= 12 * Given(p.dividend), 1)
     + 1
     + Points(known /\ 100 * Debt(p) < 15 * Given(p.assets), 2)
     + Points(known /\ 100 * Debt(p) >= 15 * Given(p.assets)
                    /\ 100 * Debt(p) <= 30 * Given(p.assets), 1)
     + Points(~known, 1)

\* A holding counts when it is listed and is worth something.
Listed(p) == SelectSeq(p.holdings, LAMBDA h : h.listed /\ h.value > 0 /\ h.ratio > 0)
Visible(p) == Total([i \in DOMAIN Listed(p) |-> Listed(p)[i].value * Listed(p)[i].ratio])

\* SubTypeBAnalyzer: the parts are worth more than the whole costs.
Arbitrage(p, price, visible) ==
  LET sum == visible + 100 * NetCash(p)
  IN /\ p.holdings # <<>> /\ sum > 0 /\ price > 0
     /\ 10 * (sum - 100 * price) >= 3 * sum
     /\ \E h \in Range(Listed(p)) : h.ratio >= 10
     /\ visible >= 30 * price
     /\ NetCash(p) > 0

Likely(event) == event.odds \in {"A", "B"}

\* _check_c1a, _check_c1b, _check_c1c: the price of a purchase of own shares is
\* divided by 10^8 once too often, so any net cash is a tenth of it.
Disposal(p, price, nav) ==
  \E e \in Range(p.events) : e.kind = "disposal" /\ Likely(e) /\ Known(nav.t0) /\ nav.t0 > 50 * price
Buyback(p, price) ==
  /\ NetCash(p) > 0 /\ BelowBook(p, price, 60)
  /\ Given(p.authorized) > 5 /\ Given(p.executed) * 10 > 3 * p.authorized
Exit(p, price, nav) ==
  \E e \in Range(p.events) :
    /\ e.kind = "exit" /\ Likely(e)
    /\ \/ Known(e.offer) /\ 100 * e.offer > 105 * price
       \/ Known(nav.t2) /\ 80 * nav.t2 > 10000 * price

\* Mutant: the last event's odds replace the others'.
LastOdds(best, odds) == IF odds = "D" THEN best ELSE odds

\* _check_c2.
BetterOdds(best, odds) ==
  CASE odds = "A" -> "A"
    [] odds = "B" -> IF best = "A" THEN best ELSE "B"
    [] odds = "C" -> IF best \in {"A", "B"} THEN best ELSE "C"
    [] OTHER -> best
Policies(p) == SelectSeq(p.events, LAMBDA e : e.kind = "policy")
PolicyOdds(p) ==
  LET policies == Policies(p)
  IN FoldLeft(BetterOdds, "D", [i \in DOMAIN policies |-> policies[i].odds])
PolicyScore(p, price, nav) ==
  LET policies == Policies(p)
      Worth(e) == CASE e.odds = "A" -> 3 [] e.odds = "B" -> 2 [] e.odds = "C" -> 1 [] e.odds = "D" -> 0
      value == IF Known(nav.t0) THEN nav.t0 ELSE Given(nav.t2)
  IN IF policies = <<>> THEN 0
     ELSE Lesser(10, Total([i \in DOMAIN policies |-> Worth(policies[i])])
                     + Points(value > 200 * price, 2) + Points(value > 150 * price /\ value <= 200 * price, 1))
Policy(p, price, nav) ==
  /\ PolicyScore(p, price, nav) >= 6
  /\ Given(nav.t0) > 150 * price \/ Given(nav.t2) > 150 * price

\* SubTypeCAnalyzer.analyze: the first that is valid, or a pair of them.
EventKind(a, b, c, d) ==
  CASE a /\ b -> "C1a+C1b"
    [] a /\ ~b -> IF d THEN "C1a+C2" ELSE "C1a"
    [] ~a /\ b -> IF d THEN "C1b+C2" ELSE "C1b"
    [] OTHER -> IF c THEN "C1c" ELSE IF d THEN "C2" ELSE "none"
EventOdds(a, b, c, best) == IF a \/ b THEN "B" ELSE IF c THEN "A" ELSE best
Ways(p, price, a, b, c1a, c1b, c1c, c2) ==
  [a |-> a, b |-> b, c |-> EventKind(c1a, c1b, c1c, c2),
   odds |-> IF c1a \/ c1b \/ c1c \/ c2 THEN EventOdds(c1a, c1b, c1c, PolicyOdds(p)) ELSE "none",
   capped |-> ~(a \/ b \/ c1a \/ c1b \/ c1c \/ c2),
   \* RedemptionPathChecker.check
   idle |-> Known(p.yield) /\ 10 * Given(p.yield) < RiskFree(p.market)
            /\ ~(b \/ c1a \/ c1b \/ c1c \/ c2)]
WaysOf(p, price, nav) ==
  Ways(p, price, HighDividend(p, price), Arbitrage(p, price, Visible(p)),
       Disposal(p, price, nav), Buyback(p, price), Exit(p, price, nav), Policy(p, price, nav))

-----------------------------------------------------------------------------
(* Phase 3: facts *)

\* One fact: a part of a whole against a limit that warns and one that forbids.
Never == 1000000
Fact(part, whole, warns, forbids) ==
  IF ~Known(part) \/ Given(whole) <= 0 THEN "data"
  ELSE IF 100 * part > forbids * whole THEN "veto"
  ELSE IF 100 * part > warns * whole THEN "risk" ELSE "pass"
Risky(holds) == IF holds THEN "risk" ELSE "pass"

Restricted(p) == IF Given(p.cash) <= 0 THEN "pass" ELSE Fact(Given(p.restricted), p.cash, 5, 20)

\* _check_fc05_ar_quality.
Receivables(p) ==
  LET all == Given(p.receivables)
  IN Risky(all > 0 /\ (100 * Given(p.overdue) > 15 * all \/ 100 * Given(p.related) > 20 * all))

\* _check_fc06_inventory_turnover.
Turnover(p) ==
  IF Len(p.dio) < 3 THEN "data"
  ELSE Risky(/\ Given(p.industryDio) > 0
             /\ \A i \in 1..Len(p.dio) - 1 : p.dio[i] < p.dio[i + 1]
             /\ 2 * Last(p.dio) > 3 * p.industryDio)

\* Facts 1 to 7.
FactsOfAssets(p) == <<
  Restricted(p), Fact(p.pledged, p.assets, 20, 50), Fact(p.goodwill, p.assets, 15, 30),
  Risky(p.impaired), Receivables(p), Turnover(p),
  Fact(IF Known(p.unidentifiable) THEN p.unidentifiable ELSE p.intangibles, p.equity, 40, Never)>>

\* Facts 8 to 13; guarantees and lawsuits are left to a reader.
FactsOfDebts(p, price) == <<
  Fact(p.offBalance, price, 15, Never),
  IF Known(p.commitments) /\ NetCash(p) <= 0 THEN "risk" ELSE Fact(p.commitments, NetCash(p), 30, Never),
  "pass", Fact(p.pension, price, 10, Never), "pass",
  Fact(p.payables, p.currentLiabilities, 30, Never)>>

\* Facts 14 to 19.
FactsOfTrade(p) == <<
  Fact(p.relatedRevenue, IF Given(p.annual) # 0 THEN p.annual ELSE p.revenue, 30, Never),
  IF Known(p.top5) THEN Risky(p.top5 > 60 /\ p.owner = "none") ELSE "data",
  Fact(p.q4, p.annual, 40, Never),
  CASE p.audit = "clean" -> "pass" [] p.audit = "qualified" -> "risk" [] p.audit = "adverse" -> "veto",
  IF p.fraud THEN "veto" ELSE "pass",
  IF Known(p.subsidy) /\ Given(p.profit) # 0 THEN Risky(Above(p.subsidy, p.profit, 50)) ELSE "data">>

\* Facts 20 to 22.
FactsOfHoldings(p) == <<
  IF p.holdings = <<>> THEN "data" ELSE "pass", "pass", Fact(p.nonCurrent, p.assets, 15, 50)>>

\* FactCheckEngine.run.
FactsOf(p, price) == FactsOfAssets(p) \o FactsOfDebts(p, price) \o FactsOfTrade(p) \o FactsOfHoldings(p)

Count(facts, status) == Cardinality({i \in DOMAIN facts : facts[i] = status})

\* calculate_rating: what is not known is not held against the company.
Rating(vetoes, risks) ==
  IF vetoes > 0 THEN "D" ELSE IF risks = 0 THEN "A" ELSE IF risks <= 3 THEN "B" ELSE "C"

-----------------------------------------------------------------------------
(* Phase 4: bonus *)

\* StateOwnedBonusCalculator and ListedSubsidiaryBonusCalculator.
OwnerBonus(p) ==
  LET full == CASE p.owner = "central" -> 3 [] p.owner = "province" -> 2 [] p.owner = "city" -> 1
                [] p.owner = "none" -> 0
  IN IF Given(p.stake) >= 30 THEN full ELSE IF Given(p.stake) >= 10 THEN full \div 2 ELSE 0
ListedBonus(price, visible) ==
  IF visible <= 0 THEN 0
  ELSE IF visible > 100 * price THEN 3
  ELSE IF visible >= 50 * price THEN 2 ELSE IF visible >= 20 * price THEN 1 ELSE 0

\* BonusAggregator.aggregate: holdings count once.
Bonus(p, price, ways) == Lesser(5, OwnerBonus(p) + IF ways.b THEN 0 ELSE ListedBonus(price, Visible(p)))

\* Mutant: a bonus lifts what is forbidden as well.
AdjustedAlways(rating, bonus) ==
  CASE rating \in {"C", "D"} -> IF bonus >= 3 THEN "B" ELSE rating
    [] rating = "B" -> IF bonus >= 2 THEN "B+" ELSE "B"
    [] OTHER -> rating

Adjusted(rating, bonus) ==
  CASE rating = "C" -> IF bonus >= 3 THEN "B" ELSE "C"
    [] rating = "B" -> IF bonus >= 2 THEN "B+" ELSE "B"
    [] OTHER -> rating

-----------------------------------------------------------------------------
(* Phase 5: the plan *)

\* _calculate_position_cap and _calculate_half_kelly: a pair of events has no
\* limit of its own.
CapOf(level, kind) ==
  CASE level = "T0" -> 100
    [] level = "T1" -> 80
    [] level = "T2" -> 50
    [] OTHER -> IF kind \in {"C1a", "C1b", "C1c"} THEN 80 ELSE IF kind = "C2" THEN 50 ELSE 0
Position(level, ways) ==
  IF CapOf(level, ways.c) = 0 /\ ~ways.capped THEN 30 ELSE CapOf(level, ways.c)
HalfKelly == (1000 * (65 * 5 - 35 * 2)) \div (2 * 100 * 5)

\* Mutant: the latest year is part of what it is compared with.
BeforeWithLatest(history) ==
  LET n == Len(history)
      of == Lesser(3, n)
  IN [sum |-> Total(SubSeq(history, Greater(1, n - of + 1), n)), of |-> of]

\* _check_dividend_cut: the years before the last; the divisor counts one more
\* than there are when the history is short.
Before(history) ==
  LET n == Len(history)
      of == Lesser(3, n)
  IN [sum |-> Total(SubSeq(history, Greater(1, n - of), n - 1)), of |-> of]
CutAgainst(latest, before) == before.sum > 0 /\ 100 * latest * before.of < 85 * before.sum
Cut(history) == Len(history) >= 2 /\ CutAgainst(Last(history), Before(history))
Watched(history) ==
  /\ Len(history) >= 2 /\ Before(history).sum > 0 /\ ~Cut(history)
  /\ history[Len(history) - 1] > 0 /\ 10 * Last(history) < 7 * history[Len(history) - 1]

\* _calculate_stop_loss: the facts of audit and fraud forbid, and so does a D.
\* That of arbitrage needs a discount below 15% where a valid one has 30%.
Stops(p, facts, rating, ways) ==
  {s \in {"fundamental", "event", "dividend"} :
     CASE s = "fundamental" -> rating = "D" \/ facts[17] = "veto" \/ facts[18] = "veto"
       [] s = "event" -> ways.c \in {"C1a", "C1b", "C1c", "C2"} /\ \E e \in Range(p.events) : ~Likely(e)
       [] s = "dividend" -> Cut(p.history)}

\* _calculate_entry_plan and _calculate_take_profit: prices in ten thousandths,
\* those of later purchases and of the hard stop in millionths.
Plan(p, nav, level, facts, rating, ways) ==
  LET buy == IF level = "none" THEN Nothing ELSE Discount(level) * NavOf(nav, level)
      Priced(percent) == IF level = "none" THEN Nothing ELSE percent * Discount(level) * NavOf(nav, level)
      Target(value) == IF Given(value) = 0 THEN Nothing ELSE value
  IN [position |-> Position(level, ways),
      target |-> IF level = "none" THEN 0 ELSE Lesser(Position(level, ways), HalfKelly),
      buy |-> buy, adds |-> <<Priced(90), Priced(85)>>, hardStop |-> Priced(90),
      profits |-> <<Target(nav.t0), Target(nav.t1), Target(nav.t2)>>,
      stops |-> Stops(p, facts, rating, ways), watched |-> Watched(p.history)]

-----------------------------------------------------------------------------
(* Flags and score *)

\* _check_risk_flags, counted.
Flags(p, nav, level, ways, facts) ==
  LET flagged == <<
        Given(p.profit) < 0, Given(p.operating) < 0,
        Known(p.liabilities) /\ Given(p.equity) > 0 /\ Above(p.liabilities, p.equity, 150),
        Known(p.currentAssets) /\ Given(p.currentLiabilities) > 0 /\ p.currentAssets < p.currentLiabilities,
        Known(p.cash) /\ Known(p.shortDebt) /\ Given(p.cash) < Given(p.shortDebt),
        Restricted(p) # "pass", Burns(p, nav, level), ways.capped, ways.idle>>
  IN Cardinality({i \in DOMAIN flagged : flagged[i]}) + Count(facts, "veto")

\* _calculate_quality_score: a company that burns cash faster than it loses money
\* converts its profit well.
Merits(p, price, nav, level, ways, bonus) ==
  (CASE level = "T0" -> 30 [] level = "T1" -> 25 [] level = "T2" -> 15
     [] OTHER -> Points(price > 0 /\ Given(nav.t0) > 0 /\ 200 * price < 3 * nav.t0, 5))
  + Points(ways.a, 5) + Points(ways.b, 5) + Points(ways.c # "none", 5) + bonus
  + Points(price > 0 /\ Given(Liquidation(p)) > 100 * price, 10)
  + Points(Known(p.currentAssets) /\ Given(p.currentLiabilities) > 0
             /\ Above(p.currentAssets, p.currentLiabilities, 200), 5)
  + Points(Known(p.cash) /\ Given(p.liabilities) > 0 /\ Above(p.cash, p.liabilities, 50), 5)
  + Points(Given(p.operating) > 0, 5)
  + Points(price > 0 /\ Given(p.parentProfit) > 0 /\ price < 10 * p.parentProfit, 3)
  + Points(Known(p.free) /\ Given(p.profit) # 0 /\ Above(p.free, p.profit, 80), 5)
Faults(p, ways, flags, rating) ==
  6 * flags
  + Points(Known(p.liabilities) /\ Given(p.equity) > 0 /\ Above(p.liabilities, p.equity, 200), 10)
  + Points(Given(p.profit) < 0, 5) + Points(Restricted(p) = "veto", 20) + Points(ways.capped, 15)
  + CASE rating = "D" -> 30 [] rating = "C" -> 15 [] rating = "B" -> 5 [] OTHER -> 0
Score(merits, faults) == Greater(0, Lesser(100, 50 + merits - faults))

-----------------------------------------------------------------------------
(* Analysis *)

NoWays == [a |-> FALSE, b |-> FALSE, c |-> "none", odds |-> "none", capped |-> FALSE, idle |-> FALSE]
NoPlan == [position |-> 0, target |-> 0, buy |-> Nothing, adds |-> <<Nothing, Nothing>>, hardStop |-> Nothing,
           profits |-> <<Nothing, Nothing, Nothing>>, stops |-> {}, watched |-> FALSE]

Outcome(p, level, ways, facts, rating, bonus, plan, flags, merits) ==
  [level |-> level, ways |-> ways, sustains |-> Sustainability(p), facts |-> facts, rating |-> rating,
   bonus |-> bonus, adjusted |-> Adjusted(rating, bonus), plan |-> plan, flags |-> flags,
   score |-> Score(merits, Faults(p, ways, flags, rating))]
Rated(p, price, nav, level, ways, facts, rating, bonus) ==
  Outcome(p, level, ways, facts, rating, bonus, Plan(p, nav, level, facts, rating, ways),
          Flags(p, nav, level, ways, facts), Merits(p, price, nav, level, ways, bonus))
Weighed(p, price, nav, level, ways, facts) ==
  Rated(p, price, nav, level, ways, facts, Rating(Count(facts, "veto"), Count(facts, "risk")),
        Bonus(p, price, ways))

\* CigarButtAnalyzer.analyze: without a number of shares there is one flag, and
\* without a price neither ways nor facts nor a plan.
Analysis(p, price, nav) ==
  IF Given(p.shares) <= 0 THEN [flags |-> 1, score |-> 0]
  ELSE IF Given(price) = 0
  THEN Outcome(p, "none", NoWays, <<>>, "none", 0, NoPlan, Flags(p, nav, "none", NoWays, <<>>),
               Merits(p, 0, nav, "none", NoWays, 0))
  ELSE Weighed(p, price, nav, BestLevel(nav, price), WaysOf(p, price, nav), FactsOf(p, price))

-----------------------------------------------------------------------------
(* Questions *)

Firm == [Blank EXCEPT !.shares = 1, !.assets = 40, !.liabilities = 8, !.equity = 32, !.currentAssets = 30,
           !.currentLiabilities = 8, !.cash = 20, !.shortDebt = 2, !.receivables = 4, !.inventory = 4,
           !.revenue = 40, !.profit = 3, !.parentProfit = 3, !.operating = 4, !.free = 3,
           !.pledged = 2, !.goodwill = 1, !.intangibles = 3]
Troubles ==
  ({"impaired", "fraud"} \X BOOLEAN) \cup ({"audit"} \X {"clean", "qualified", "adverse"})
    \cup ({"pledged"} \X {10, 21}) \cup ({"restricted"} \X {2, 5}) \cup ({"offBalance", "subsidy"} \X {2})
    \cup ({"goodwill"} \X {7}) \cup ({"overdue"} \X {1}) \cup ({"commitments"} \X {9})
    \cup ({"dio"} \X {<<10, 20, 40>>}) \cup ({"nonCurrent"} \X {21}) \cup ({"equity"} \X {4})
    \cup ({"liabilities"} \X {30})
Troubled(firm, trouble) == [firm EXCEPT ![trouble[1]] = trouble[2]]
Suspect == [Firm EXCEPT !.impaired = TRUE, !.overdue = 1, !.pledged = 10, !.goodwill = 7]

Event(kind, odds, offer) == [kind |-> kind, odds |-> odds, offer |-> offer]
Events == {Event("disposal", "A", Nothing), Event("disposal", "C", Nothing), Event("exit", "B", 7),
           Event("exit", "A", Nothing), Event("exit", "D", 30)}
          \cup {Event("policy", odds, Nothing) : odds \in {"A", "B", "C", "D"}}
Holding(value, ratio, listed) == [value |-> value, ratio |-> ratio, listed |-> listed]
Holdings == {Holding(0, 50, TRUE), Holding(10, 5, TRUE), Holding(20, 50, TRUE), Holding(60, 20, TRUE),
             Holding(60, 50, FALSE)}
Row(day, value, price, yield) == [day |-> day, value |-> value, price |-> price, yield |-> yield]
Statement(day, income, cashFlow) == [day |-> day, revenue |-> 4, income |-> income, cashFlow |-> cashFlow]

Ask(panel, price) == asked = [what |-> "panel", panel |-> panel, price |-> price]

OfFigures ==
  \E cash \in Cash \cup {Nothing}, liabilities \in Owed \cup {Nothing}, debt \in {Nothing, 4},
     contract \in {Nothing, 3}, equity \in {Nothing, 0, 30}, free \in {Nothing, -2, 3},
     price \in Prices \cup {Nothing} :
    Ask([Firm EXCEPT !.cash = cash, !.liabilities = liabilities, !.shortDebt = debt, !.contract = contract,
                     !.equity = equity, !.free = free], price)
OfTroubles ==
  \E one, other \in Troubles, owner \in {"none", "central", "city"}, stake \in {Nothing, 20, 40},
     price \in Prices :
    Ask([Troubled(Troubled(Firm, one), other) EXCEPT !.owner = owner, !.stake = stake], price)
OfEvents ==
  \E n \in 0..2, authorized \in {Nothing, 6}, price \in {5, 9} : \E events \in [1..n -> Events] :
    Ask([Firm EXCEPT !.events = events, !.authorized = authorized, !.executed = authorized], price)
OfHoldings ==
  \E n \in 0..2, firm \in {Firm, Suspect}, owner \in {"none", "central"}, price \in {9, 20} :
    \E holdings \in [1..n -> Holdings] :
      Ask([firm EXCEPT !.holdings = holdings, !.owner = owner, !.stake = 30], price)
OfDividends ==
  \E n \in 0..5, years \in {4, 10}, market \in {"HK", "US"} : \E history \in [1..n -> {1, 4, 5}] :
    Ask([Firm EXCEPT !.history = history, !.years = years, !.yield = 4, !.payout = 50, !.dividend = 2,
                     !.market = market], 15)
OfSymbol ==
  \E statements \in SUBSET {Statement(1, 2, 3), Statement(2, -1, -1)}, quote \in Prices \cup {Nothing},
     snapshots \in SUBSET {Row(1, 6, 3, 5), Row(2, Nothing, 3, 1), Row(3, 6, 3, Nothing)} :
    asked = [what |-> "symbol", statements |-> statements, snapshots |-> snapshots, quote |-> quote]

Init ==
  /\ answer = Nothing
  /\ OfFigures \/ OfTroubles \/ OfEvents \/ OfHoldings \/ OfDividends \/ OfSymbol

Panel == IF asked.what = "symbol" THEN FromDatabase("A", asked.statements, asked.snapshots) ELSE asked.panel
Price == IF asked.what = "symbol" THEN asked.quote ELSE asked.price
Analyzed(panel) == Analysis(panel, Price, Navs(panel))

\* analyze_cigarbutt asks about a symbol, main about a panel.
Analyze ==
  /\ answer = Nothing
  /\ answer' = Analyzed(Panel)
  /\ UNCHANGED asked

Next == Analyze

Spec == Init /\ [][Next]_vars

-----------------------------------------------------------------------------
(* Properties *)

Judged == answer # Nothing /\ Given(Price) # 0 /\ Known(Panel.shares)

\* Neither the order of the events nor that of the holdings matters.
OrderOfNewsAside ==
  Judged => Analyzed([Panel EXCEPT !.events = Reverse(@), !.holdings = Reverse(@)]) = answer

\* A likely event and another listed holding never lower the score, nor does a
\* longer record of dividends.
GoodNewsHelps ==
  Judged =>
    /\ \A e \in {Event("policy", "A", Nothing), Event("exit", "B", 30), Event("disposal", "A", Nothing)} :
         Analyzed([Panel EXCEPT !.events = Append(@, e)]).score >= answer.score
    /\ Analyzed([Panel EXCEPT !.holdings = Append(@, Holding(20, 50, TRUE))]).score >= answer.score
    /\ Analyzed([Panel EXCEPT !.years = 5 + Given(@)]).score >= answer.score

\* What is forbidden stays so: no bonus lifts the rating, the plan says to stop
\* and a flag tells why; any other company that is rated D has no such fact.
VetoIsFinal ==
  Judged =>
    IF "veto" \in Range(answer.facts)
    THEN answer.adjusted = "D" /\ "fundamental" \in answer.plan.stops /\ answer.flags > 0
    ELSE answer.adjusted # "D" /\ "fundamental" \notin answer.plan.stops

\* A dividend that is a fifth below what four even years paid is a cut; dividends that
\* never fell are none.
CutsAreSeen ==
  LET history == Panel.history
      n == Len(history)
      stops == answer.plan.stops
  IN Judged =>
       /\ n >= 4 /\ (\A i \in 1..n - 2 : history[i] = history[i + 1]) /\ 5 * Last(history) <= 4 * history[1]
            => "dividend" \in stops
       /\ (\A i \in 1..n - 1 : history[i] <= history[i + 1]) => "dividend" \notin stops /\ ~answer.plan.watched

\* A position has a value of assets or a way to the money behind it, none is
\* entered above its price, and a company of which only what the database has
\* is known gets none.
PositionsBacked ==
  /\ Judged =>
       LET plan == answer.plan
       IN /\ (plan.position > 0) = (answer.level # "none" \/ ~answer.ways.capped)
          /\ (plan.target > 0) = Known(plan.buy) /\ plan.target <= plan.position
          /\ Known(plan.buy) => 10000 * Price < plan.buy /\ plan.hardStop < 100 * plan.buy
  /\ Judged /\ asked.what = "symbol" => answer.plan.position = 0

\* The levels say the same of a price: one below what net cash allows is below
\* the value that counts debts with interest only, and none is above the value
\* that it is taken at; the position is at most the strictest level's.
LevelsAgree ==
  Judged =>
    LET nav == Navs(Panel)
    IN /\ answer.level = "T0" /\ Debt(Panel) <= Panel.liabilities => 100 * Price < nav.t1
       /\ answer.level # "none" => 100 * Price < NavOf(nav, answer.level)
       /\ answer.plan.position <= CapOf("T0", "none")

\* What is worth taking at a price is worth taking at a lower one.
CheaperIsBacked ==
  Judged /\ answer.plan.position > 0 =>
    \A price \in 1..Price : Analysis(Panel, price, Navs(Panel)).plan.position > 0

VerdictsStand == VetoIsFinal /\ PositionsBacked /\ LevelsAgree
CigarSound == OrderOfNewsAside /\ GoodNewsHelps /\ CutsAreSeen /\ CheaperIsBacked
=============================================================================
