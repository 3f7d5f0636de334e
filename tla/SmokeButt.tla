------------------------------ MODULE SmokeButt ------------------------------
(***************************************************************************)
(* The smoke-butt strategy (services/smoke_butt_strategy_service.py): the  *)
(* rows that it trains on and scores, the ranks and signals of the scored  *)
(* stocks, and the buckets of its backtest.  A behaviour is one request.   *)
(* Days are trading days; a return is told by the days it spans, and a     *)
(* prediction by its place among the others.                               *)
(***************************************************************************)
EXTENDS Naturals, Sequences, FiniteSets, SequencesExt, FiniteSetsExt

CONSTANTS
  Symbols,        \* stocks, numbered in the order of their symbols
  Candidates,     \* bound: stocks that a run scores
  LastDay,        \* bound: the day of the run
  Warm,           \* rows before a row of which a feature needs all
  Step,           \* every which row is trained on
  SampleStep,     \* every which row is tested
  Horizons,       \* rows that a return spans
  MinRows, MinDates, MinValidation,
  Buckets,
  Window,         \* days that events are counted
  Nothing         \* no request, no answer, no number

VARIABLES
  asked,    \* what is asked, and the data
  answer

vars == <<asked, answer>>

Days == 1..LastDay
NaN == 0           \* no prediction, which sorts last
Predictions == 0..2

\* The elements of a set in an order.
Sorted(S, Before(_, _)) ==
  [i \in 1..Cardinality(S) |-> CHOOSE x \in S : Cardinality({y \in S : Before(y, x)}) = i - 1]

-----------------------------------------------------------------------------
(* Features *)

\* searchsorted(side="left") and (side="right") of a sorted sequence.
Left(dates, d) == Cardinality({i \in DOMAIN dates : dates[i] < d})
Right(dates, d) == Cardinality({i \in DOMAIN dates : dates[i] <= d})

\* _attach_window_count.
Count(dates, d) == Right(dates, d) - Left(dates, IF d > Window THEN d - Window ELSE 0)

\* Mutant: the report whose period ends next.
NearestReport(periods, d) ==
  IF \E i \in DOMAIN periods : periods[i] >= d
  THEN CHOOSE i \in DOMAIN periods : periods[i] >= d /\ \A j \in 1..(i - 1) : periods[j] < d
  ELSE Len(periods)

\* merge_asof(direction="backward"): the place of the report, or 0.
Report(periods, d) == Right(periods, d)

\* _merge_financial_features, after _prepare_financial_frame.
Feature(d) ==
  LET i == Report(asked.periods, d)
  IN [report |-> IF i = 0 THEN Nothing ELSE asked.periods[i],
      before |-> IF i <= 1 THEN Nothing ELSE asked.periods[i - 1],
      age |-> IF i = 0 THEN Nothing ELSE d - asked.periods[i],
      events |-> Count(asked.events, d)]

BuildFeatures == [d \in Days |-> Feature(d)]

-----------------------------------------------------------------------------
(* Rows *)

\* The days of a stock's prices in order, and the place of one, sample_index.
PriceDays(s) == Sorted(asked.traded[s], <)
Index(s, d) == Cardinality({e \in asked.traded[s] : e < d})

\* feature_ready_mask.
Ready == {r \in Symbols \X Days : r[2] \in asked.traded[r[1]] /\ Index(r[1], r[2]) >= Warm}

\* The last day of a return from a row, of shift(-horizon).
HasAhead(r, horizon) == Index(r[1], r[2]) + 1 + horizon <= Len(PriceDays(r[1]))
Ahead(r, horizon) == PriceDays(r[1])[Index(r[1], r[2]) + 1 + horizon]

\* The training rows of _build_dataset.
Labelled(horizon) ==
  {r \in Ready : HasAhead(r, horizon) /\ Index(r[1], r[2]) % Step = 0}

\* Its rows to score, the last of each stock.
ToScore == {r \in Ready : \A q \in Ready : q[1] = r[1] => q[2] <= r[2]}

DatesOf(rows) == Sorted({r[2] : r \in rows}, <)

\* _split_train_validation.
Split(rows) ==
  LET dates == DatesOf(rows)
      n == Len(dates)
      eight == IF (8 * n) \div 10 > 1 THEN (8 * n) \div 10 ELSE 1
      cutoff == dates[(IF eight < n - 1 THEN eight ELSE n - 1) + 1]
      training == {r \in rows : r[2] < cutoff}
      validation == {r \in rows : r[2] >= cutoff}
      none == [training |-> rows, validation |-> {}]
  IN IF n < MinDates THEN none
     ELSE IF Cardinality(training) < MinRows \/ Cardinality(validation) < MinValidation THEN none
     ELSE [training |-> training, validation |-> validation]

\* _build_dataset raises without enough rows.
BuildDataset ==
  LET rows == Labelled(asked.horizon)
  IN IF rows = {} \/ Cardinality(rows) < MinRows THEN Nothing
     ELSE [split |-> Split(rows), score |-> ToScore]

-----------------------------------------------------------------------------
(* Scores *)

\* sort_values(["expected_return", "symbol"], ascending=[False, True]).
Best(symbols) ==
  LET Better(s, t) == \/ asked.predicted[s] > asked.predicted[t]
                      \/ asked.predicted[s] = asked.predicted[t] /\ s < t
  IN Sorted(symbols, Better)

\* _signal_from_percentile of 1 - (rank - 1) / (total - 1).
Signal(rank, total) ==
  LET AtLeast(hundredths) == total <= 1 \/ 100 * (total - rank) >= hundredths * (total - 1)
  IN CASE AtLeast(90) -> 3
       [] ~AtLeast(90) /\ AtLeast(75) -> 2
       [] ~AtLeast(75) /\ AtLeast(50) -> 1
       [] OTHER -> 0

\* The rows that train_smoke_butt_strategy stores.
Score ==
  LET order == Best(DOMAIN asked.predicted)
  IN [rank \in DOMAIN order |->
        [symbol |-> order[rank], signal |-> Signal(rank, Len(order))]]

-----------------------------------------------------------------------------
(* Backtest *)

Tested(horizon) ==
  {r \in Ready : /\ Index(r[1], r[2]) % SampleStep = 0
                 /\ HasAhead(r, horizon)
                 /\ asked.predicted[r[1]] # NaN}

\* Mutant: a date too early.
RebalanceEarly(tested, horizon) ==
  LET dates == DatesOf(tested)
      step == IF horizon > 1 THEN horizon - 1 ELSE 1
  IN {dates[i] : i \in {i \in DOMAIN dates : (i - 1) % step = 0}}

\* eligible_dates[::horizon_days].
Rebalance(tested, horizon) ==
  LET dates == DatesOf(tested)
  IN {dates[i] : i \in {i \in DOMAIN dates : (i - 1) % horizon = 0}}

\* The place of each stock of a date, and its bucket.
BucketOf(i, total) == ((i - 1) * Buckets) \div total + 1

\* _build_backtest_window: the periods of each bucket, by date.  A date with
\* fewer stocks than buckets is left out.
BuildBacktest ==
  LET tested == Tested(asked.horizon)
      Section(d) == {r[1] : r \in {r \in tested : r[2] = d}}
      dates == {d \in Rebalance(tested, asked.horizon) : Cardinality(Section(d)) >= Buckets}
      orders == [d \in dates |-> Best(Section(d))]
      In(order, b) == {order[i] : i \in {i \in DOMAIN order : BucketOf(i, Len(order)) = b}}
  IN IF Ready = {} THEN Nothing
     ELSE [b \in 1..Buckets |-> {[from |-> d, stocks |-> In(orders[d], b)] : d \in dates}]

-----------------------------------------------------------------------------

Sequences3(S) == UNION {{q \in [1..n -> S] : \A i \in 1..(n - 1) : q[i] <= q[i + 1]} : n \in 0..3}

\* A stock is listed on some day, or misses one after.
Trading == {{d \in Days : d >= first} : first \in 1..3} \cup {Days \ {3}}

Init ==
  /\ \/ \E periods \in {Sorted(P, <) : P \in SUBSET Days}, events \in Sequences3(Days) :
          asked = [what |-> "features", periods |-> periods, events |-> events]
     \/ \E traded \in [Symbols -> Trading], horizon \in Horizons :
          asked = [what |-> "dataset", traded |-> traded, horizon |-> horizon]
     \/ \E n \in 1..Candidates : \E predicted \in [1..n -> Predictions] :
          asked = [what |-> "scores", predicted |-> predicted]
     \/ \E traded \in [Symbols -> Trading], horizon \in Horizons, predicted \in [Symbols -> Predictions] :
          /\ \A s, t \in Symbols : s < t => Min(traded[s]) <= Min(traded[t])
          /\ asked = [what |-> "backtest", traded |-> traded, horizon |-> horizon,
                      predicted |-> predicted]
  /\ answer = Nothing

Answer(what, value) ==
  /\ asked.what = what /\ answer = Nothing
  /\ answer' = [is |-> value]
  /\ UNCHANGED asked

Next ==
  \/ Answer("features", BuildFeatures)
  \/ Answer("dataset", BuildDataset)
  \/ Answer("scores", Score)
  \/ Answer("backtest", BuildBacktest)

Spec == Init /\ [][Next]_vars

-----------------------------------------------------------------------------
(* Properties *)

Answered(what) == answer # Nothing /\ asked.what = what /\ answer.is # Nothing

\* A feature of a day knows the last report whose period had ended and the one
\* before it, and the events of the days up to it: nothing of a later day.
NothingAhead ==
  Answered("features") =>
    \A d \in Days :
      LET f == answer.is[d]
          ended == {p \in Range(asked.periods) : p <= d}
      IN /\ IF ended = {} THEN f.report = Nothing /\ f.age = Nothing
            ELSE f.report = Max(ended) /\ f.age = d - f.report
         /\ IF Cardinality(ended) <= 1 THEN f.before = Nothing
            ELSE f.before = Max(ended \ {f.report})
         /\ f.events = Cardinality({i \in DOMAIN asked.events :
                                      asked.events[i] <= d /\ asked.events[i] + Window >= d})

\* The rows that a model is trained on all come before those that it is
\* validated with, no row is lost between the two, every return is known, and
\* each stock that can be scored is scored once, by its last day.
RowsApart ==
  Answered("dataset") =>
    LET split == answer.is.split
    IN /\ split.training \cup split.validation = Labelled(asked.horizon)
       /\ \A r \in split.training, q \in split.validation : r[2] < q[2]
       /\ \A r \in split.training \cup split.validation : Ahead(r, asked.horizon) \in r[2]..LastDay
       /\ \A s \in Symbols :
            Cardinality(asked.traded[s]) > Warm =>
              {r \in answer.is.score : r[1] = s} = {<<s, Max(asked.traded[s])>>}

\* A stock of a better signal has no worse prediction, no stock of a better
\* prediction has a worse signal, every stock has one rank, the first is
\* bought whatever the predictions, and half of the others at most are watched.
SignalsInOrder ==
  Answered("scores") =>
    LET scores == answer.is
        n == Len(scores)
    IN /\ {scores[i].symbol : i \in 1..n} = DOMAIN asked.predicted
       /\ n = Cardinality(DOMAIN asked.predicted)
       /\ \A i, j \in 1..n :
            asked.predicted[scores[i].symbol] > asked.predicted[scores[j].symbol] =>
              i < j /\ scores[i].signal >= scores[j].signal
       /\ scores[1].signal = 3
       /\ 2 * Cardinality({i \in 2..n : scores[i].signal > 0}) <= n - 1

\* At each date a bucket is better than the next by prediction, and as large up
\* to one; every tested stock is in one.  A stock without a gap is never held
\* twice at a time.
BucketsFair ==
  Answered("backtest") =>
    LET Of(b) == answer.is[b]
        tested == Tested(asked.horizon)
    IN /\ \A b, c \in 1..Buckets : \A p \in Of(b), q \in Of(c) :
            /\ p.from = q.from => Cardinality(p.stocks) <= Cardinality(q.stocks) + 1
            /\ \A s \in p.stocks, t \in q.stocks :
                 /\ p.from = q.from /\ b < c => s # t /\ asked.predicted[s] >= asked.predicted[t]
                 /\ (p.from < q.from /\ s = t /\ Days \ asked.traded[s] \subseteq 1..p.from) =>
                      Ahead(<<s, p.from>>, asked.horizon) <= q.from
       /\ \A p \in Of(1) :
            UNION {q.stocks : q \in {q \in UNION {Of(b) : b \in 1..Buckets} : q.from = p.from}}
              = {r[1] : r \in {r \in tested : r[2] = p.from}}

StrategySound == NothingAhead /\ RowsApart /\ SignalsInOrder /\ BucketsFair
=============================================================================
