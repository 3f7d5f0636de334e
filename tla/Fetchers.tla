------------------------------ MODULE Fetchers -------------------------------
(***************************************************************************)
(* The requests of the Snowball client (etl/fetchers/snowball_client.py):  *)
(* which source they ask after which, and what of its answer they take.  A *)
(* behaviour is one request, with what its sources would answer.  A source *)
(* that raises, or has no token, gives Nothing.  A symbol is asked for     *)
(* under several codes, one after the other.                               *)
(***************************************************************************)
EXTENDS Naturals, FiniteSets, FiniteSetsExt, Functions

CONSTANTS
  Symbols,  \* numbers
  HongKong,
  Days,     \* 1..n; the last is today
  Nothing

VARIABLES
  asked,   \* the request, with its sources
  answer   \* Nothing, then what it returns

vars == <<asked, answer>>

Today == Max(Days)

\* The bars of a price history: a day's may be there, or lack a figure.
Bars == [Days -> {"none", "part", "full"}]
Payloads == Bars \cup {Nothing}
Codes == {1, 2}

-----------------------------------------------------------------------------
(* Prices *)

\* The first of the codes whose payload is as Fit says, or 0.
FirstFit(payloads, Fit(_)) ==
  LET fit == {i \in DOMAIN payloads : payloads[i] # Nothing /\ Fit(payloads[i])}
  IN IF fit = {} THEN 0 ELSE Min(fit)

\* Mutant: whatever is asked for, the latest.
LatestAnyDay(bars, asOf) ==
  LET there == {d \in Days : bars[d] # "none"} IN IF there = {} THEN 0 ELSE Max(there)

\* _latest_kline_row_on_or_before, or 0.
Latest(bars, asOf) ==
  LET there == {d \in Days : d <= asOf /\ bars[d] # "none"}
  IN IF there = {} THEN 0 ELSE Max(there)

\* _daily_kline_row: its day, or 0.  The latest bar is taken or none.
DailyRow(payloads, asOf) ==
  LET Fit(bars) == Latest(bars, asOf) # 0 /\ bars[Latest(bars, asOf)] = "full"
      i == FirstFit(payloads, Fit)
  IN IF i = 0 THEN 0 ELSE Latest(payloads[i], asOf)

\* get_daily_prices: a symbol whose request raises is left out.
DailyPrices(payloadsOf, asOf) ==
  {[symbol |-> s, day |-> DailyRow(payloadsOf[s], asOf)] :
     s \in {q \in DOMAIN payloadsOf : DailyRow(payloadsOf[q], asOf) # 0}}

\* get_monthly_prices asks one symbol after the other for the same.
MonthlyPrices(payloadsOf, asOf) == DailyPrices(payloadsOf, asOf)

\* _parse_kline_history_rows.
Parsed(bars, asOf) == {d \in Days : d <= asOf /\ bars[d] = "full"}

\* _fetch_snowball_kline_history: the first code with rows.
SnowballHistory(payloads, asOf) ==
  LET Fit(bars) == Parsed(bars, asOf) # {}
      i == FirstFit(payloads, Fit)
  IN IF i = 0 THEN {} ELSE Parsed(payloads[i], asOf)

\* The last of them.
Newest(rows, count) == {d \in rows : Cardinality({e \in rows : e > d}) < count}

\* _fetch_eastmoney_hk_kline_history_via_curl.
CurlHistory(curl, asOf, count) == IF curl = Nothing THEN {} ELSE Newest(Parsed(curl, asOf), count)

\* _fetch_ak_hk_kline_history: curl is asked for days if the network is
\* blocked, or nothing came.
AkHistory(q) ==
  IF q.ak = Nothing
  THEN IF q.blocked /\ ~q.intraday THEN CurlHistory(q.curl, q.asOf, q.count) ELSE {}
  ELSE IF Parsed(q.ak, q.asOf) = {} /\ ~q.intraday THEN CurlHistory(q.curl, q.asOf, q.count)
  ELSE Newest(Parsed(q.ak, q.asOf), q.count)

\* get_kline_history: for Hong Kong, a single bar of Snowball's is not enough.
History(q) ==
  LET snow == SnowballHistory(q.payloads, q.asOf)
      ak == AkHistory(q)
  IN IF ~q.hk \/ (snow # {} /\ (q.intraday \/ Cardinality(snow) > 1)) \/ ak = {} THEN snow ELSE ak

\* get_index_daily: without a bar, the quote of now passes for the day's.
IndexDaily(bars, quote, asOf) ==
  LET day == IF bars = Nothing THEN 0 ELSE Latest(bars, asOf)
  IN IF day # 0 /\ bars[day] = "full" THEN {[day |-> day, of |-> day, quoted |-> FALSE]}
     ELSE IF quote THEN {[day |-> asOf, of |-> Today, quoted |-> TRUE]}
     ELSE {}

-----------------------------------------------------------------------------
(* Quotes *)

\* _call_quotec_single: whichever code answers.
Single(s, single) == s \in single

\* _call_quotec: a batch that fails is given up; what a batch lacks is asked
\* for one by one.
Quotec(symbols, batch, single) ==
  IF batch = Nothing THEN {} ELSE (batch \cap symbols) \cup {s \in symbols : Single(s, single)}

\* get_stock_basics: a row for each symbol, named if it was quoted.
Basics(symbols, q) ==
  {[symbol |-> s, named |-> s \in Quotec(symbols, q.batch, q.single)] : s \in symbols}

\* get_stock_quotes: Hong Kong's may be in the spot cache.
Quotes(symbols, q) == Quotec(symbols, q.batch, q.single) \cup (symbols \cap HongKong \cap q.spot)

\* get_stock_quote: Hong Kong's only from the spot cache, which is refreshed.
Quote(s, q) ==
  IF s \in HongKong THEN {s} \cap q.spot
  ELSE Quotec({s}, q.batch, q.single) \cup ({s} \cap q.single)

\* get_stock_quote_detail and get_stock_pankou: not Hong Kong's.
Detail(s, q) == IF s \in HongKong THEN {} ELSE {s} \cap q.single

Market(s) == IF s \in HongKong THEN "HK" ELSE "A"
Firsts(rows, limit) == {s \in rows : Cardinality({t \in rows : t < s}) < limit}

\* search_stocks: those of the market, up to the limit, as get_stock_basics
\* shows them.
Search(q) ==
  LET found == IF q.found = Nothing THEN {} ELSE {s \in q.found : q.market \in {Nothing, Market(s)}}
  IN Basics(Firsts(found, q.limit), q)

\* get_market_stock_pool: one keyword after the other, until it is full.
Pool(q) == {row \in Search(q) : row.symbol \in Firsts({r.symbol : r \in Search(q)}, q.limit)}

-----------------------------------------------------------------------------
(* Financials and reports *)

\* A report of period p is dated 2 p before the 28th of the period's last
\* month, and 2 p + 1 after it.
\* _select_finance_record: the last up to the 28th, or the first, which is the
\* newest.
Select(dates, period) ==
  LET due == {d \in dates : d <= 2 * period}
  IN IF due = {} THEN Max(dates) ELSE Max(due)

\* get_financials: of the first code with any item.  The row has the period
\* of the first statement that has a record.
Financials(q) ==
  LET Some(statements) == \E k \in DOMAIN statements : statements[k] \notin {Nothing, {}}
      i == FirstFit(q.payloads, Some)
      statements == q.payloads[i]
      having == {k \in DOMAIN statements : statements[k] \notin {Nothing, {}}}
  IN IF i = 0 \/ ~q.signal THEN Nothing
     ELSE [period |-> Select(statements[Min(having)], q.period) \div 2,
           figures |-> {Select(statements[k], q.period) \div 2 : k \in having}]

MonthEnd(month) == IF month \in {6, 9} THEN 30 ELSE 31

\* get_recent_financials: the quarters it asks for, as months since year 0.
\* Months back from a quarter's, over the turn of a year.
Back(year, month) == IF month <= 3 THEN <<year - 1, month + 9>> ELSE <<year, month - 3>>

RecentPeriods(year, month, day, count) ==
  LET own == ((month - 1) \div 3 + 1) * 3
      ended == month > own \/ (month = own /\ day >= MonthEnd(own))
      first == IF ended THEN <<year, own>> ELSE Back(year, own)
      period[n \in 1..count] == IF n = 1 THEN first ELSE Back(period[n - 1][1], period[n - 1][2])
  IN [n \in 1..count |-> 12 * period[n][1] + period[n][2]]

\* _extract_disclosure_items: titled records, each once, the newest first.
Disclosures(records, limit) == Firsts(records, limit)

\* get_stock_reports and get_stock_earning_forecasts: AkShare's rows first
\* (forecasts have none for mainland stocks), then the codes.
Reports(q) ==
  LET ak == IF q.ak = Nothing THEN {} ELSE Firsts(q.ak, q.limit)
      Some(records) == records # {}
      i == FirstFit(q.payloads, Some)
  IN IF ak # {} THEN ak ELSE IF i = 0 THEN {} ELSE Disclosures(q.payloads[i], q.limit)

-----------------------------------------------------------------------------
(* Requests *)

Sets == SUBSET Symbols
Dated == (SUBSET {2, 3, 4}) \cup {Nothing}

\* A request, with what each of its sources would answer.
Asked ==
  \/ asked \in [kind : {"daily", "monthly"}, asOf : Days,
                payloads : [{Min(Symbols)} -> [Codes -> Payloads]]]
  \/ asked \in [kind : {"history"}, asOf : Days, payloads : [Codes -> Payloads], ak : Payloads,
                curl : {Nothing, [d \in Days |-> "full"]}, blocked : BOOLEAN, intraday : BOOLEAN,
                hk : BOOLEAN, count : {1, 2}]
  \/ asked \in [kind : {"indices"}, asOf : Days, bars : Payloads, quote : BOOLEAN]
  \/ asked \in [kind : {"basics", "quotes", "quote", "detail"}, symbols : Sets,
                batch : Sets \cup {Nothing}, single : Sets, spot : Sets]
  \/ asked \in [kind : {"search", "pool"}, found : Sets \cup {Nothing}, market : {"HK", "A", Nothing},
                limit : {1, 2}, batch : Sets \cup {Nothing}, single : Sets]
  \/ asked \in [kind : {"financials"}, period : {1, 2}, signal : BOOLEAN,
                payloads : [Codes -> [1..2 -> Dated]]]
  \/ asked \in [kind : {"recent"}, year : {2, 3}, month : 1..12, day : {1, 28, 30, 31}, count : 1..5]
  \/ asked \in [kind : {"reports"}, ak : Sets \cup {Nothing}, limit : {1, 2},
                payloads : [Codes -> Sets \cup {Nothing}]]

Init == answer = Nothing /\ Asked

Asks(k) == answer = Nothing /\ asked.kind = k /\ UNCHANGED asked
Returns(value) == answer' = [value |-> value]

Next ==
  \/ Asks("daily") /\ Returns(DailyPrices(asked.payloads, asked.asOf))
  \/ Asks("monthly") /\ Returns(MonthlyPrices(asked.payloads, asked.asOf))
  \/ Asks("history") /\ Returns(History(asked))
  \/ Asks("indices") /\ Returns(IndexDaily(asked.bars, asked.quote, asked.asOf))
  \/ Asks("basics") /\ Returns(Basics(asked.symbols, asked))
  \/ Asks("quotes") /\ Returns(Quotes(asked.symbols, asked))
  \/ Asks("quote") /\ \E s \in asked.symbols : Returns(Quote(s, asked))
  \/ Asks("detail") /\ \E s \in asked.symbols : Returns(Detail(s, asked))
  \/ Asks("search") /\ Returns(Search(asked))
  \/ Asks("pool") /\ Returns(Pool(asked))
  \/ Asks("financials") /\ Returns(Financials(asked))
  \/ Asks("recent") /\ Returns(RecentPeriods(asked.year, asked.month, asked.day, asked.count))
  \/ Asks("reports") /\ Returns(Reports(asked))

Spec == Init /\ [][Next]_vars

-----------------------------------------------------------------------------
(* Properties *)

Value == answer.value

\* No row is of a later day, or quarter, than was asked for; and an index shows
\* the day it says, unless its quote of today was taken for an earlier day.
NothingLater ==
  /\ asked.kind \in {"daily", "monthly"} => \A row \in Value : row.day <= asked.asOf
  /\ asked.kind = "history" => Value \subseteq 1..asked.asOf
  /\ asked.kind = "indices" =>
       \A row \in Value : row.day <= asked.asOf /\ (row.of = row.day \/ (row.quoted /\ asked.asOf < Today))
  /\ asked.kind = "financials" /\ Value # Nothing =>
       \/ Value.period <= asked.period
       \/ \E i \in Codes : \E dates \in Range(asked.payloads[i]) :
            dates \notin {Nothing, {}} /\ \A d \in dates : d > 2 * asked.period

\* A source that was in reach and had rows is not passed over for nothing.
NothingMissed ==
  /\ asked.kind = "history" /\ Value = {} =>
       /\ \A i \in Codes : asked.payloads[i] = Nothing \/ Parsed(asked.payloads[i], asked.asOf) = {}
       /\ asked.hk => asked.ak = Nothing \/ Parsed(asked.ak, asked.asOf) = {}
  /\ asked.kind = "quotes" /\ asked.batch # Nothing =>
       asked.symbols \cap (asked.batch \cup asked.single) \subseteq Value
  /\ asked.kind = "reports" /\ Value = {} =>
       asked.ak \in {Nothing, {}} /\ \A i \in Codes : asked.payloads[i] \in {Nothing, {}}
  /\ asked.kind \in {"search", "pool"} /\ asked.found \notin {Nothing, {}} /\ asked.market = Nothing =>
       Cardinality(Value) = Min({asked.limit, Cardinality(asked.found)})

\* The quarters that are asked for are the last that have ended, in turn.
QuartersInTurn ==
  asked.kind = "recent" =>
    LET now == 12 * asked.year + asked.month
        Ended(m) == m < now \/ (m = now /\ asked.day >= MonthEnd(asked.month))
        last == Max({m \in 12..now : m % 3 = 0 /\ Ended(m)})
    IN Value = [n \in 1..asked.count |-> last - 3 * (n - 1)]

FetchedAsAsked == answer # Nothing => NothingLater /\ NothingMissed /\ QuartersInTurn
=============================================================================
