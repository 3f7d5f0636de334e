--------------------------- MODULE AnalysisProofs ---------------------------
(***************************************************************************)
(* TLAPS proofs about the analyses in MCApi, for any stocks, days, rows,   *)
(* news, amounts, prices and settings.  A behaviour of an analysis is one  *)
(* request: what it asks stays, and the answer is computed from it in one  *)
(* step, so that what an answer agrees with is a matter of the algorithm   *)
(* alone.                                                                  *)
(***************************************************************************)
EXTENDS MCApi, FiniteSetTheorems, SequenceTheorems, TLAPS

-----------------------------------------------------------------------------
(* Finite sets in order *)

\* What comes before an element of S is told by pred, and S is in a line.
Lined(S, pred) ==
  /\ IsFiniteSet(S) /\ pred \in [S -> SUBSET S]
  /\ \A x \in S : x \notin pred[x]
  /\ \A x, y \in S : x # y => x \in pred[y] \/ y \in pred[x]
  /\ \A x, y \in S : x \in pred[y] => pred[x] \subseteq pred[y]

\* The elements of a line come before each other as their places do, and each
\* place is taken.
PlacesOf(S, pred) ==
  /\ Cardinality(S) \in Nat
  /\ \A x \in S : Cardinality(pred[x]) \in 0..(Cardinality(S) - 1)
  /\ \A x, y \in S : x \in pred[y] <=> Cardinality(pred[x]) < Cardinality(pred[y])
  /\ \A k \in 0..(Cardinality(S) - 1) : \E x \in S : Cardinality(pred[x]) = k

LEMMA PlacesTell == ASSUME NEW S, NEW pred, Lined(S, pred) PROVE PlacesOf(S, pred)
<1> DEFINE n == Cardinality(S)
<1>1. n \in Nat
  BY FS_CardinalityType DEF Lined
<1>2. \A x \in S : IsFiniteSet(pred[x]) /\ Cardinality(pred[x]) \in Nat
  BY FS_Subset, FS_CardinalityType DEF Lined
<1>3. \A x, y \in S : x \in pred[y] => Cardinality(pred[x]) < Cardinality(pred[y])
  <2> SUFFICES ASSUME NEW x \in S, NEW y \in S, x \in pred[y]
               PROVE  Cardinality(pred[x]) < Cardinality(pred[y])
    OBVIOUS
  <2>1. pred[x] \in SUBSET pred[y] /\ pred[x] # pred[y]
    BY DEF Lined
  <2> QED
    BY <1>2, <2>1, FS_Subset
<1>4. \A x, y \in S : x # y => Cardinality(pred[x]) # Cardinality(pred[y])
  BY <1>2, <1>3 DEF Lined
<1>5. \A x \in S : Cardinality(pred[x]) \in 0..(n - 1)
  <2> SUFFICES ASSUME NEW x \in S PROVE Cardinality(pred[x]) \in 0..(n - 1)
    OBVIOUS
  <2>1. pred[x] \in SUBSET S /\ pred[x] # S
    BY DEF Lined
  <2> QED
    BY <1>1, <1>2, <2>1, FS_Subset DEF Lined
<1> DEFINE place == [x \in S |-> Cardinality(pred[x])]
<1>6. place \in Injection(S, 0..(n - 1))
  BY <1>4, <1>5 DEF Injection, IsInjective
<1>7. IsFiniteSet(0..(n - 1)) /\ Cardinality(0..(n - 1)) = n
  <2>1. 0 \in Int /\ n - 1 \in Int
    BY <1>1
  <2> QED
    BY <1>1, <2>1, FS_Interval
<1>8. place \in Surjection(S, 0..(n - 1))
  <2> HIDE DEF place
  <2> QED
    BY <1>6, <1>7, FS_Injection
<1>9. \A k \in 0..(n - 1) : \E x \in S : Cardinality(pred[x]) = k
  BY <1>8 DEF Surjection
<1>10. \A x, y \in S : Cardinality(pred[x]) < Cardinality(pred[y]) => x \in pred[y]
  BY <1>2, <1>3 DEF Lined
<1> QED
  BY <1>1, <1>3, <1>5, <1>9, <1>10 DEF PlacesOf

\* A sequence of the elements of a line that gives each its place.
Placed(S, pred, f) ==
  /\ DOMAIN f = 1..Cardinality(S)
  /\ \A i \in DOMAIN f : f[i] \in S /\ Cardinality(pred[f[i]]) = i - 1

LEMMA LineInOrder ==
  ASSUME NEW S, NEW pred, Lined(S, pred), NEW f, Placed(S, pred, f)
  PROVE  /\ \A i, j \in DOMAIN f : i < j <=> f[i] \in pred[f[j]]
         /\ \A i, j \in DOMAIN f : i # j => f[i] # f[j]
         /\ \A x \in S : Cardinality(pred[x]) + 1 \in DOMAIN f /\ f[Cardinality(pred[x]) + 1] = x
<1> DEFINE n == Cardinality(S)
<1> USE DEF Placed
<1>1. /\ n \in Nat
      /\ \A x \in S : Cardinality(pred[x]) \in 0..(n - 1)
      /\ \A x, y \in S : x \in pred[y] <=> Cardinality(pred[x]) < Cardinality(pred[y])
  BY PlacesTell DEF PlacesOf
<1>2. \A x, y \in S : x # y => Cardinality(pred[x]) # Cardinality(pred[y])
  BY <1>1 DEF Lined
<1>3. \A i, j \in DOMAIN f : i < j <=> f[i] \in pred[f[j]]
  <2> SUFFICES ASSUME NEW i \in DOMAIN f, NEW j \in DOMAIN f PROVE i < j <=> f[i] \in pred[f[j]]
    OBVIOUS
  <2>1. i \in Int /\ j \in Int
    BY <1>1
  <2>2. f[i] \in pred[f[j]] <=> i - 1 < j - 1
    BY <1>1
  <2> QED
    BY <2>1, <2>2
<1>4. \A i, j \in DOMAIN f : i # j => f[i] # f[j]
  BY <1>1
<1>5. ASSUME NEW x \in S
      PROVE  Cardinality(pred[x]) + 1 \in DOMAIN f /\ f[Cardinality(pred[x]) + 1] = x
  <2> DEFINE i == Cardinality(pred[x]) + 1
  <2>1. i \in 1..n
    BY <1>1
  <2>2. f[i] \in S /\ Cardinality(pred[f[i]]) = Cardinality(pred[x])
    BY <1>1, <2>1
  <2> QED
    BY <1>2, <2>1, <2>2
<1> QED
  BY <1>3, <1>4, <1>5

LEMMA StrategyCounts ==
  \A S : Strategy!Cardinality(S) = Cardinality(S) /\ (Strategy!IsFiniteSet(S) <=> IsFiniteSet(S))
BY DEF Strategy!Cardinality, Cardinality, Strategy!IsFiniteSet, IsFiniteSet

\* The smaller numbers of T, and the place that they give.
Below(T) == [x \in T |-> {y \in T : y < x}]
Place(x, T) == Cardinality({y \in T : y < x}) + 1

LEMMA NumbersLined == ASSUME NEW T \in SUBSET Nat, IsFiniteSet(T) PROVE Lined(T, Below(T))
<1>1. Below(T) \in [T -> SUBSET T]
  BY DEF Below
<1>2. \A x, y \in T : x \in Below(T)[y] <=> x < y
  BY DEF Below
<1>3. \A x \in T : x \in Int
  OBVIOUS
<1>4. ASSUME NEW x \in T, NEW y \in T, x \in Below(T)[y] PROVE Below(T)[x] \subseteq Below(T)[y]
  <2> SUFFICES ASSUME NEW z \in Below(T)[x] PROVE z \in Below(T)[y]
    OBVIOUS
  <2>1. z \in T
    BY <1>1
  <2>2. z < x /\ x < y
    BY <1>2, <1>4, <2>1
  <2>3. z < y
    BY <1>3, <2>1, <2>2
  <2> QED
    BY <1>2, <2>1, <2>3
<1>5. \A x \in T : x \notin Below(T)[x]
  BY <1>2, <1>3
<1>6. ASSUME NEW x \in T, NEW y \in T, x # y PROVE x \in Below(T)[y] \/ y \in Below(T)[x]
  <2>1. x < y \/ y < x
    BY <1>3, <1>6
  <2> QED
    BY <1>2, <2>1
<1> QED
  BY <1>1, <1>4, <1>5, <1>6 DEF Lined

LEMMA NumbersPlaces ==
  ASSUME NEW T \in SUBSET Nat, IsFiniteSet(T)
  PROVE  /\ Cardinality(T) \in Nat
         /\ \A x \in T : Cardinality(Below(T)[x]) \in 0..(Cardinality(T) - 1)
         /\ \A k \in 0..(Cardinality(T) - 1) : \E x \in T : Cardinality(Below(T)[x]) = k
<1>1. PlacesOf(T, Below(T))
  BY NumbersLined, PlacesTell
<1> QED
  BY <1>1 DEF PlacesOf

\* sort_values of days: each is at the place that the smaller ones tell.
LEMMA DaysInOrder ==
  ASSUME NEW T \in SUBSET Nat, IsFiniteSet(T), NEW f, DOMAIN f = 1..Cardinality(T),
         \A i \in DOMAIN f : f[i] \in T /\ Place(f[i], T) = i
  PROVE  /\ \A i, j \in DOMAIN f : i < j <=> f[i] < f[j]
         /\ \A x \in T : Place(x, T) \in DOMAIN f /\ f[Place(x, T)] = x
<1>1. Lined(T, Below(T))
  BY NumbersLined
<1>2. \A x \in T : Place(x, T) = Cardinality(Below(T)[x]) + 1
  BY DEF Below, Place
<1>3. Cardinality(T) \in Nat /\ \A x \in T : Cardinality(Below(T)[x]) \in Int
  BY <1>1, PlacesTell DEF PlacesOf
<1>4. ASSUME NEW i \in DOMAIN f PROVE f[i] \in T /\ Cardinality(Below(T)[f[i]]) = i - 1
  <2>1. f[i] \in T /\ Place(f[i], T) = i /\ i \in Int
    BY <1>3
  <2>2. Place(f[i], T) = Cardinality(Below(T)[f[i]]) + 1
    BY <1>2, <2>1
  <2>3. Cardinality(Below(T)[f[i]]) \in Int
    BY <1>3, <2>1
  <2> QED
    BY <2>1, <2>2, <2>3
<1>5. /\ \A i, j \in DOMAIN f : i < j <=> f[i] \in Below(T)[f[j]]
      /\ \A x \in T : Cardinality(Below(T)[x]) + 1 \in DOMAIN f /\ f[Cardinality(Below(T)[x]) + 1] = x
  <2> DEFINE pred == Below(T)
  <2>1. Placed(T, pred, f)
    BY <1>4 DEF Placed
  <2>2. Lined(T, pred)
    BY <1>1
  <2> HIDE DEF pred
  <2>3. /\ \A i, j \in DOMAIN f : i < j <=> f[i] \in pred[f[j]]
        /\ \A x \in T : Cardinality(pred[x]) + 1 \in DOMAIN f /\ f[Cardinality(pred[x]) + 1] = x
    BY <2>1, <2>2, LineInOrder, ZenonT(60)
  <2> QED
    BY <2>3 DEF pred
<1>6. \A x, y \in T : x \in Below(T)[y] <=> x < y
  BY DEF Below
<1> QED
  BY <1>2, <1>4, <1>5, <1>6

SortOf(T) == [i \in 1..Cardinality(T) |-> CHOOSE x \in T : Cardinality({y \in T : y < x}) = i - 1]

LEMMA DaysSorted ==
  ASSUME NEW T \in SUBSET Nat, IsFiniteSet(T), NEW f, f = SortOf(T)
  PROVE  /\ Cardinality(T) \in Nat /\ DOMAIN f = 1..Cardinality(T)
         /\ \A i \in DOMAIN f : f[i] \in T /\ Place(f[i], T) = i
<1> DEFINE n == Cardinality(T)
<1>1. \A x \in T : Below(T)[x] = {y \in T : y < x}
  BY DEF Below
<1>2. /\ n \in Nat
      /\ \A k \in 0..(n - 1) : \E x \in T : Cardinality(Below(T)[x]) = k
  BY NumbersPlaces
<1>3. ASSUME NEW i \in 1..n PROVE f[i] \in T /\ Place(f[i], T) = i
  <2>1. i - 1 \in 0..(n - 1)
    BY <1>2
  <2>2. \E x \in T : Cardinality({y \in T : y < x}) = i - 1
    BY <1>1, <1>2, <2>1
  <2>3. f[i] = CHOOSE x \in T : Cardinality({y \in T : y < x}) = i - 1
    BY DEF SortOf
  <2>4. f[i] \in T /\ Cardinality({y \in T : y < f[i]}) = i - 1
    BY <2>2, <2>3
  <2> QED
    BY <2>4 DEF Place
<1>4. DOMAIN f = 1..n
  BY DEF SortOf
<1> QED
  BY <1>2, <1>3, <1>4

\* What is known of days that are sorted.
Ascends(T, f) ==
  /\ Cardinality(T) \in Nat /\ DOMAIN f = 1..Cardinality(T)
  /\ \A i \in DOMAIN f : f[i] \in T /\ Place(f[i], T) = i
  /\ \A i, j \in DOMAIN f : i < j <=> f[i] < f[j]
  /\ \A x \in T : Place(x, T) \in DOMAIN f /\ f[Place(x, T)] = x

LEMMA SortedAscends ==
  ASSUME NEW T \in SUBSET Nat, IsFiniteSet(T), NEW f, f = SortOf(T)
  PROVE  Ascends(T, f)
<1>1. /\ Cardinality(T) \in Nat /\ DOMAIN f = 1..Cardinality(T)
      /\ \A i \in DOMAIN f : f[i] \in T /\ Place(f[i], T) = i
  BY DaysSorted
<1>2. /\ \A i, j \in DOMAIN f : i < j <=> f[i] < f[j]
      /\ \A x \in T : Place(x, T) \in DOMAIN f /\ f[Place(x, T)] = x
  BY <1>1, DaysInOrder
<1> QED
  BY <1>1, <1>2 DEF Ascends

-----------------------------------------------------------------------------
(* The strategy: what is asked *)

LEMMA StrategyDays == Strategy!Days = 1..Sessions /\ Sessions \in Nat /\ IsFiniteSet(1..Sessions)
<1>1. 1 \in Int /\ Sessions \in Int
  BY StrategyAssumption
<1> QED
  BY <1>1, FS_Interval, StrategyAssumption DEF Strategy!Days

\* A sequence of days, in order or not.
DaySeq(f) == \E n \in Nat : f \in [1..n -> 1..Sessions]
Ascending(f) == \A i, j \in DOMAIN f : i < j => f[i] < f[j]

AskedFeatures ==
  DaySeq(query.periods) /\ Ascending(query.periods) /\ DaySeq(query.events)
AskedRows ==
  query.traded \in [Symbols -> SUBSET (1..Sessions)] /\ query.horizon \in Nat \ {0}
AskedScores == \E n \in Nat \ {0} : query.predicted \in [1..n -> Nat]
AskedBacktest == AskedRows /\ query.predicted \in [Symbols -> Nat]

StrategyAsked ==
  /\ query.what \in {"features", "dataset", "scores", "backtest"}
  /\ query.what = "features" => AskedFeatures
  /\ query.what = "dataset" => AskedRows
  /\ query.what = "scores" => AskedScores
  /\ query.what = "backtest" => AskedBacktest

StrategyAnswer ==
  CASE query.what = "features" -> Strategy!BuildFeatures
    [] query.what = "dataset" -> Strategy!BuildDataset
    [] query.what = "scores" -> Strategy!Score
    [] query.what = "backtest" -> Strategy!BuildBacktest

StrategyInv ==
  part = "strategy" =>
    StrategyAsked /\ (page = Nothing \/ page = [is |-> StrategyAnswer])

\* The days on which a stock is traded, and its prices in their order.
LEMMA PriceDaysAscend ==
  ASSUME AskedRows, NEW s \in Symbols
  PROVE  /\ query.traded[s] \in SUBSET (1..Sessions) /\ IsFiniteSet(query.traded[s])
         /\ Ascends(query.traded[s], Strategy!PriceDays(s))
         /\ Strategy!Len(Strategy!PriceDays(s)) = Cardinality(query.traded[s])
         /\ \A d : Strategy!Index(s, d) = Place(d, query.traded[s]) - 1
<1> DEFINE T == query.traded[s]
<1>1. T \in SUBSET (1..Sessions) /\ IsFiniteSet(T) /\ T \in SUBSET Nat
  <2>1. T \in SUBSET (1..Sessions)
    BY DEF AskedRows
  <2> QED
    BY <2>1, StrategyDays, FS_Subset
<1>2. Strategy!PriceDays(s) = SortOf(T)
  BY DEF Strategy!PriceDays, Strategy!Sorted, SortOf, Strategy!Cardinality, Cardinality
<1> HIDE DEF T
<1>3. Ascends(T, Strategy!PriceDays(s))
  BY <1>1, <1>2, SortedAscends
<1>4. Strategy!Len(Strategy!PriceDays(s)) = Cardinality(T)
  <2>1. Cardinality(T) \in Nat /\ DOMAIN Strategy!PriceDays(s) = 1..Cardinality(T)
    BY <1>3 DEF Ascends
  <2> QED
    BY <2>1
<1>5. ASSUME NEW d PROVE Strategy!Index(s, d) = Place(d, T) - 1
  <2>1. IsFiniteSet({e \in T : e < d})
    BY <1>1, FS_Subset
  <2>2. Cardinality({e \in T : e < d}) \in Nat
    BY <2>1, FS_CardinalityType
  <2>3. Strategy!Index(s, d) = Cardinality({e \in T : e < d})
    BY StrategyCounts DEF Strategy!Index, T
  <2> QED
    BY <2>2, <2>3 DEF Place
<1> QED
  BY <1>1, <1>3, <1>4, <1>5 DEF T

LEMMA DatesAscend ==
  ASSUME NEW R, R \subseteq Symbols \X (1..Sessions)
  PROVE  /\ {r[2] : r \in R} \in SUBSET (1..Sessions)
         /\ Ascends({r[2] : r \in R}, Strategy!DatesOf(R))
         /\ Strategy!Len(Strategy!DatesOf(R)) = Cardinality({r[2] : r \in R})
<1> DEFINE T == {r[2] : r \in R}
<1>1. T \in SUBSET (1..Sessions)
  OBVIOUS
<1>2. IsFiniteSet(T) /\ T \in SUBSET Nat
  BY <1>1, StrategyDays, FS_Subset
<1>3. Strategy!DatesOf(R) = SortOf(T)
  BY DEF Strategy!DatesOf, Strategy!Sorted, SortOf, Strategy!Cardinality, Cardinality
<1> HIDE DEF T
<1>4. Ascends(T, Strategy!DatesOf(R))
  BY <1>2, <1>3, SortedAscends
<1>5. Cardinality(T) \in Nat /\ DOMAIN Strategy!DatesOf(R) = 1..Cardinality(T)
  BY <1>4 DEF Ascends
<1>6. Strategy!Len(Strategy!DatesOf(R)) = Cardinality(T)
  BY <1>5
<1> QED
  BY <1>1, <1>4, <1>6 DEF T

LEMMA ReadyRows ==
  ASSUME AskedRows
  PROVE  /\ Strategy!Ready \subseteq Symbols \X (1..Sessions)
         /\ \A r \in Symbols \X (1..Sessions) : r \in Strategy!Ready <=>
              /\ r[2] \in query.traded[r[1]]
              /\ Strategy!Index(r[1], r[2]) >= Warm
BY StrategyDays DEF Strategy!Ready

\* The return of a row ends on a day of its stock, as many rows on as it spans.
LEMMA AheadSays ==
  ASSUME AskedRows, NEW s \in Symbols, NEW d \in query.traded[s], NEW h \in Nat \ {0},
         Strategy!HasAhead(<<s, d>>, h)
  PROVE  LET ahead == Strategy!Ahead(<<s, d>>, h)
         IN /\ ahead \in query.traded[s] /\ d < ahead
            /\ Place(ahead, query.traded[s]) = Place(d, query.traded[s]) + h
<1> DEFINE T == query.traded[s]
           f == Strategy!PriceDays(s)
           i == Place(d, T)
<1>1. T \in SUBSET (1..Sessions) /\ Ascends(T, f) /\ Strategy!Len(f) = Cardinality(T)
      /\ \A e : Strategy!Index(s, e) = Place(e, T) - 1
  BY PriceDaysAscend
<1>2. Strategy!HasAhead(<<s, d>>, h) <=> Strategy!Index(s, d) + 1 + h <= Strategy!Len(f)
  BY DEF Strategy!HasAhead
<1>3. Strategy!Ahead(<<s, d>>, h) = f[Strategy!Index(s, d) + 1 + h]
  BY DEF Strategy!Ahead
<1> HIDE DEF f, T
<1>4. /\ Cardinality(T) \in Nat /\ i \in 1..Cardinality(T) /\ f[i] = d
      /\ DOMAIN f = 1..Cardinality(T)
  BY <1>1 DEF Ascends, T
<1>5. Strategy!Index(s, d) + 1 + h = i + h
  BY <1>1, <1>4
<1>6. i + h \in DOMAIN f /\ i \in DOMAIN f /\ i < i + h
  BY <1>1, <1>2, <1>4, <1>5
<1>7. f[i + h] \in T /\ f[i] < f[i + h] /\ Place(f[i + h], T) = i + h
  BY <1>1, <1>6 DEF Ascends
<1> QED
  BY <1>3, <1>4, <1>5, <1>7 DEF T

LEMMA LabelledRows ==
  ASSUME AskedRows, NEW h \in Nat \ {0}
  PROVE  /\ Strategy!Labelled(h) \subseteq Symbols \X (1..Sessions)
         /\ \A r \in Strategy!Labelled(h) : Strategy!Ahead(r, h) \in r[2]..Sessions
<1>1. Strategy!Labelled(h) \subseteq Strategy!Ready
  BY DEF Strategy!Labelled
<1>2. ASSUME NEW r \in Strategy!Labelled(h) PROVE Strategy!Ahead(r, h) \in r[2]..Sessions
  <2>1. r \in Symbols \X (1..Sessions) /\ r[2] \in query.traded[r[1]]
    BY <1>1, ReadyRows
  <2>2. r = <<r[1], r[2]>> /\ r[1] \in Symbols
    BY <2>1
  <2>3. Strategy!HasAhead(r, h)
    BY DEF Strategy!Labelled
  <2>4. Strategy!Ahead(r, h) \in query.traded[r[1]] /\ r[2] < Strategy!Ahead(r, h)
    BY <2>1, <2>2, <2>3, AheadSays
  <2>5. query.traded[r[1]] \subseteq 1..Sessions
    BY <2>2 DEF AskedRows
  <2> QED
    BY <2>1, <2>4, <2>5, StrategyDays
<1> QED
  BY <1>1, <1>2, ReadyRows

\* A split by a day loses no row and puts all of the earlier ones on one side.
LEMMA SplitParts ==
  ASSUME NEW R, R \subseteq Symbols \X (1..Sessions), R # {}
  PROVE  LET split == Strategy!Split(R)
         IN /\ split.training \cup split.validation = R
            /\ \A r \in split.training, q \in split.validation : r[2] < q[2]
<1> DEFINE dates == Strategy!DatesOf(R)
           n == Strategy!Len(dates)
           eight == IF (8 * n) \div 10 > 1 THEN (8 * n) \div 10 ELSE 1
           place == (IF eight < n - 1 THEN eight ELSE n - 1) + 1
           cutoff == dates[place]
           early == {r \in R : r[2] < cutoff}
           late == {r \in R : r[2] >= cutoff}
<1>1. /\ {r[2] : r \in R} \in SUBSET (1..Sessions) /\ {r[2] : r \in R} # {}
      /\ Ascends({r[2] : r \in R}, dates) /\ n = Cardinality({r[2] : r \in R})
  BY DatesAscend
<1>2. n \in Nat \ {0} /\ DOMAIN dates = 1..n
  <2>1. IsFiniteSet({r[2] : r \in R})
    BY <1>1, StrategyDays, FS_Subset
  <2>2. Cardinality({r[2] : r \in R}) # 0
    BY <1>1, <2>1, FS_EmptySet
  <2> QED
    BY <1>1, <2>2 DEF Ascends
<1> HIDE DEF n
<1>3. place \in 1..n
  <2>1. (8 * n) \div 10 \in Int
    BY <1>2
  <2> HIDE DEF n
  <2>2. eight \in Int /\ eight >= 1
    BY <2>1
  <2> QED
    BY <1>2, <2>2
<1>4. cutoff \in 1..Sessions
  BY <1>1, <1>2, <1>3 DEF Ascends
<1>5. Strategy!Split(R) = [training |-> R, validation |-> {}]
      \/ Strategy!Split(R) = [training |-> early, validation |-> late]
  BY DEF Strategy!Split, n
<1> HIDE DEF cutoff
<1>6. early \cup late = R /\ \A r \in early, q \in late : r[2] < q[2]
  BY <1>4
<1> HIDE DEF early, late
<1> QED
  BY <1>5, <1>6

LEMMA MaxIs ==
  ASSUME NEW S, \A x \in S : x \in Int, NEW m \in S, \A x \in S : x <= m
  PROVE  Strategy!Max(S) = m
<1>1. Strategy!Max(S) = CHOOSE x \in S : \A y \in S : x >= y
  BY DEF Strategy!Max
<1>2. m \in S /\ \A y \in S : m >= y
  OBVIOUS
<1>3. Strategy!Max(S) \in S /\ \A y \in S : Strategy!Max(S) >= y
  BY <1>1, <1>2
<1>4. Strategy!Max(S) <= m /\ Strategy!Max(S) >= m
  BY <1>3
<1>5. Strategy!Max(S) \in Int /\ m \in Int
  BY <1>3
<1> QED
  BY <1>4, <1>5

LEMMA LastOfDays ==
  ASSUME NEW T \in SUBSET Nat, NEW f, Ascends(T, f), T # {}, IsFiniteSet(T)
  PROVE  LET last == f[Cardinality(T)]
         IN /\ last \in T /\ Place(last, T) = Cardinality(T)
            /\ \A x \in T : x <= last
            /\ Strategy!Max(T) = last
<1>0. \A x \in T : x \in Int
  OBVIOUS
<1> DEFINE n == Cardinality(T)
           last == f[n]
<1>1. n \in Nat \ {0} /\ DOMAIN f = 1..n /\ n \in DOMAIN f
  <2>1. n \in Nat /\ n # 0
    BY FS_EmptySet DEF Ascends
  <2> QED
    BY <2>1 DEF Ascends
<1>2. last \in T /\ Place(last, T) = n
  BY <1>1 DEF Ascends
<1>3. ASSUME NEW x \in T PROVE x <= last
  <2>1. Place(x, T) \in 1..n /\ f[Place(x, T)] = x
    BY <1>1 DEF Ascends
  <2>2. ~ (n < Place(x, T))
    BY <1>1, <2>1
  <2>3. ~ (last < x)
    BY <1>1, <2>1, <2>2 DEF Ascends
  <2>4. x \in Int /\ last \in Int
    BY <1>0, <1>2
  <2> HIDE DEF last
  <2> QED
    BY <2>3, <2>4
<1> HIDE DEF last
<1>4. Strategy!Max(T) = last
  BY <1>0, <1>2, <1>3, MaxIs
<1> QED
  BY <1>2, <1>3, <1>4 DEF last

\* A stock with enough rows is scored by its last one, and by no other.
LEMMA ScoredByLast ==
  ASSUME AskedRows, NEW s \in Symbols, Cardinality(query.traded[s]) > Warm
  PROVE  {r \in Strategy!ToScore : r[1] = s} = {<<s, Strategy!Max(query.traded[s])>>}
<1> DEFINE T == query.traded[s]
           f == Strategy!PriceDays(s)
           m == Strategy!Max(T)
<1>1. /\ T \in SUBSET (1..Sessions) /\ IsFiniteSet(T) /\ Ascends(T, f)
      /\ \A d : Strategy!Index(s, d) = Place(d, T) - 1
  BY PriceDaysAscend
<1>2. Warm \in Nat
  BY StrategyAssumption
<1>3. T # {} /\ T \in SUBSET Nat /\ Cardinality(T) \in Nat
  BY <1>1, <1>2, FS_EmptySet, StrategyDays, FS_CardinalityType
<1> HIDE DEF T, f
<1>4. m \in T /\ Place(m, T) = Cardinality(T) /\ \A x \in T : x <= m
  BY <1>1, <1>3, LastOfDays
<1> HIDE DEF m
<1>5. Strategy!Index(s, m) >= Warm
  BY <1>1, <1>2, <1>3, <1>4 DEF T
<1>6. <<s, m>> \in Symbols \X (1..Sessions)
  BY <1>1, <1>4
<1>7. <<s, m>> \in Strategy!Ready
  BY <1>4, <1>5, <1>6, ReadyRows DEF T
<1>8. ASSUME NEW q \in Strategy!Ready, q[1] = s PROVE q[2] \in T /\ q[2] \in Int /\ q[2] <= m /\ q = <<s, q[2]>>
  <2>1. q \in Symbols \X (1..Sessions) /\ q[2] \in query.traded[q[1]]
    BY ReadyRows
  <2> QED
    BY <1>1, <1>4, <1>8, <2>1 DEF T
<1>9. Strategy!ToScore = {r \in Strategy!Ready : \A q \in Strategy!Ready : q[1] = r[1] => q[2] <= r[2]}
  BY DEF Strategy!ToScore
<1>10. <<s, m>> \in Strategy!ToScore
  BY <1>7, <1>8, <1>9
<1>11. ASSUME NEW r \in Strategy!ToScore, r[1] = s PROVE r = <<s, m>>
  <2>1. r \in Strategy!Ready /\ m <= r[2]
    BY <1>7, <1>9, <1>11
  <2>2. r[2] <= m /\ r = <<s, r[2]>> /\ r[2] \in Int /\ m \in Int
    BY <1>1, <1>4, <1>8, <1>11, <2>1
  <2> QED
    BY <2>1, <2>2
<1>12. {r \in Strategy!ToScore : r[1] = s} = {<<s, m>>}
  BY <1>10, <1>11
<1> QED
  BY <1>12 DEF m, T

LEMMA RowsAreApart == ASSUME AskedRows, page = [is |-> Strategy!BuildDataset] PROVE Strategy!RowsApart
<1> DEFINE h == query.horizon
           R == Strategy!Labelled(h)
           split == Strategy!Split(R)
<1>1. h \in Nat \ {0}
  BY DEF AskedRows
<1> HIDE DEF h
<1>2. R \subseteq Symbols \X (1..Sessions) /\ \A r \in R : Strategy!Ahead(r, h) \in r[2]..Sessions
  BY <1>1, LabelledRows
<1> SUFFICES ASSUME page.is # Nothing
             PROVE  /\ page.is.split.training \cup page.is.split.validation = R
                    /\ \A r \in page.is.split.training, q \in page.is.split.validation : r[2] < q[2]
                    /\ \A r \in page.is.split.training \cup page.is.split.validation :
                          Strategy!Ahead(r, h) \in r[2]..Sessions
                    /\ \A s \in Symbols : Strategy!Cardinality(query.traded[s]) > Warm =>
                          {r \in page.is.score : r[1] = s} = {<<s, Strategy!Max(query.traded[s])>>}
  BY DEF Strategy!RowsApart, Strategy!Answered, h
<1>3. R # {} /\ page.is.split = split /\ page.is.score = Strategy!ToScore
  BY DEF Strategy!BuildDataset, h
<1> HIDE DEF R
<1>4. /\ split.training \cup split.validation = R
      /\ \A r \in split.training, q \in split.validation : r[2] < q[2]
  BY <1>2, <1>3, SplitParts
<1> HIDE DEF split
<1>5. \A s \in Symbols : Strategy!Cardinality(query.traded[s]) > Warm =>
          {r \in Strategy!ToScore : r[1] = s} = {<<s, Strategy!Max(query.traded[s])>>}
  BY ScoredByLast, StrategyCounts
<1> QED
  BY <1>2, <1>3, <1>4, <1>5

-----------------------------------------------------------------------------
(* The strategy: features *)

\* Places of which every earlier one is among them.
LEMMA FirstPlaces ==
  ASSUME NEW n \in Nat, NEW A, A \subseteq 1..n, \A i \in A : \A j \in 1..i : j \in A
  PROVE  /\ IsFiniteSet(A) /\ Cardinality(A) \in 0..n
         /\ A = 1..Cardinality(A)
<1> DEFINE r == Cardinality(A)
<1>1. IsFiniteSet(1..n) /\ Cardinality(1..n) = n
  <2>1. 1 \in Int /\ n \in Int
    OBVIOUS
  <2> QED
    BY <2>1, FS_Interval
<1>2. IsFiniteSet(A) /\ r \in 0..n
  <2>1. A \in SUBSET (1..n)
    OBVIOUS
  <2>2. IsFiniteSet(A) /\ Cardinality(A) <= n
    BY <1>1, <2>1, FS_Subset
  <2>3. Cardinality(A) \in Nat
    BY <2>2, FS_CardinalityType
  <2> QED
    BY <2>2, <2>3
<1>3. A \in SUBSET Nat
  OBVIOUS
<1>5. /\ \A x \in A : Cardinality(Below(A)[x]) \in 0..(r - 1)
      /\ \A k \in 0..(r - 1) : \E x \in A : Cardinality(Below(A)[x]) = k
  BY <1>2, <1>3, NumbersPlaces
<1>6. ASSUME NEW x \in A PROVE Cardinality(Below(A)[x]) = x - 1
  <2>1. x \in 1..n
    OBVIOUS
  <2>2. Below(A)[x] = 1..(x - 1)
    <3>1. ASSUME NEW y \in A, y < x PROVE y \in 1..(x - 1)
      <4>1. y \in 1..n
        OBVIOUS
      <4> QED
        BY <2>1, <3>1, <4>1
    <3>2. ASSUME NEW y \in 1..(x - 1) PROVE y \in A /\ y < x
      <4>1. y \in 1..x /\ y < x
        BY <2>1
      <4> QED
        BY <4>1
    <3>3. Below(A)[x] = {y \in A : y < x}
      BY DEF Below
    <3> QED
      BY <3>1, <3>2, <3>3
  <2>3. 1 \in Int /\ x - 1 \in Int /\ (1 > x - 1 => x - 1 = 0)
    BY <2>1
  <2> QED
    BY <2>1, <2>2, <2>3, FS_Interval
<1>7. ASSUME NEW x \in A PROVE x \in 1..r
  <2>1. x \in 1..n /\ x - 1 \in 0..(r - 1)
    BY <1>5, <1>6
  <2> QED
    BY <1>2, <2>1
<1>8. ASSUME NEW k \in 1..r PROVE k \in A
  <2>1. k - 1 \in 0..(r - 1)
    BY <1>2
  <2>2. PICK x \in A : x - 1 = k - 1
    BY <1>5, <1>6, <2>1
  <2>3. x \in Int
    BY <1>3
  <2> QED
    BY <1>2, <2>2, <2>3
<1> QED
  BY <1>2, <1>7, <1>8

Ended(d) == {p \in Strategy!Range(query.periods) : p <= d}

\* merge_asof finds the last of the reports whose period had ended.
LEMMA ReportSays ==
  ASSUME AskedFeatures, NEW d \in Nat
  PROVE  LET i == Strategy!Report(query.periods, d)
         IN /\ i \in Nat
            /\ Ended(d) = {query.periods[k] : k \in 1..i}
            /\ 1..i \subseteq DOMAIN query.periods
            /\ \A k \in 1..i : query.periods[k] \in 1..Sessions
<1> DEFINE f == query.periods
           i == Strategy!Report(f, d)
           A == {k \in DOMAIN f : f[k] <= d}
<1>1. PICK n \in Nat : f \in [1..n -> 1..Sessions]
  BY DEF AskedFeatures, DaySeq
<1>2. \A j, k \in DOMAIN f : j < k => f[j] < f[k]
  BY DEF AskedFeatures, Ascending
<1>3. i = Cardinality(A)
  BY StrategyCounts DEF Strategy!Report, Strategy!Right
<1>4. Ended(d) = {f[k] : k \in A}
  BY DEF Ended, Strategy!Range
<1> HIDE DEF f, i
<1>5. ASSUME NEW k \in A, NEW j \in 1..k PROVE j \in A
  <2>1. k \in 1..n /\ j \in 1..n /\ f[k] \in Int /\ f[j] \in Int /\ f[k] <= d
    BY <1>1
  <2>2. j = k \/ j < k
    BY <2>1
  <2>3. f[j] <= f[k]
    BY <1>1, <1>2, <2>1, <2>2
  <2>4. f[j] <= d
    BY <2>1, <2>3
  <2> QED
    BY <1>1, <2>1, <2>4
<1>6. A \subseteq 1..n
  BY <1>1
<1> HIDE DEF A
<1>7. A = 1..i /\ i \in Nat
  <2>1. \A k \in A : \A j \in 1..k : j \in A
    BY <1>5
  <2>2. Cardinality(A) \in 0..n /\ A = 1..Cardinality(A)
    BY <1>6, <2>1, FirstPlaces
  <2> QED
    BY <1>3, <2>2
<1>8. 1..i \subseteq DOMAIN f /\ \A k \in 1..i : f[k] \in 1..Sessions
  BY <1>1, <1>6, <1>7
<1> QED
  BY <1>4, <1>7, <1>8 DEF f, i

LEMMA ReportsOrder ==
  ASSUME NEW i \in Nat, NEW f, \A k \in 1..i : f[k] \in Int,
         \A j, k \in 1..i : j < k => f[j] < f[k],
         NEW S, S = {f[k] : k \in 1..i}
  PROVE  /\ S = {} <=> i = 0
         /\ i >= 1 => Strategy!Max(S) = f[i]
         /\ Strategy!Cardinality(S) <= 1 <=> i <= 1
         /\ i >= 2 => Strategy!Max(S \ {f[i]}) = f[i - 1]
<1>1. S = {} <=> i = 0
  <2>1. CASE i = 0
    BY <2>1
  <2>2. CASE i # 0
    <3>1. i \in 1..i
      BY <2>2
    <3> QED
      BY <2>2, <3>1
  <2> QED
    BY <2>1, <2>2
<1>2. ASSUME NEW m \in 1..i, NEW k \in 1..m PROVE f[k] <= f[m]
  <2>1. k \in 1..i /\ (k = m \/ k < m) /\ f[k] \in Int /\ f[m] \in Int
    OBVIOUS
  <2> QED
    BY <2>1
<1>3. ASSUME i >= 1 PROVE Strategy!Max(S) = f[i]
  <2>1. i \in 1..i /\ f[i] \in S
    BY <1>3
  <2>2. \A x \in S : x \in Int /\ x <= f[i]
    BY <1>2, <2>1
  <2> QED
    BY <2>1, <2>2, MaxIs
<1>4. ASSUME i >= 2 PROVE Strategy!Max(S \ {f[i]}) = f[i - 1] /\ ~ (Strategy!Cardinality(S) <= 1)
  <2>1. i \in 1..i /\ i - 1 \in 1..i /\ i - 1 < i /\ 1 \in 1..i /\ 1 < i
    BY <1>4
  <2>2. f[i - 1] < f[i] /\ f[i - 1] \in Int /\ f[i] \in Int
    BY <2>1
  <2>3. f[i - 1] \in S \ {f[i]}
    BY <2>1, <2>2
  <2>4. ASSUME NEW x \in S \ {f[i]} PROVE x \in Int /\ x <= f[i - 1]
    <3>1. PICK k \in 1..i : x = f[k]
      OBVIOUS
    <3>2. k \in 1..(i - 1)
      BY <1>4, <3>1
    <3> QED
      BY <1>2, <2>1, <3>1, <3>2
  <2>5. Strategy!Max(S \ {f[i]}) = f[i - 1]
    BY <2>3, <2>4, MaxIs
  <2>6. ASSUME Cardinality(S) <= 1 PROVE FALSE
    <3>1. IsFiniteSet(S)
      <4> DEFINE g == [k \in 1..i |-> f[k]]
      <4>1. IsFiniteSet(1..i)
        <5>1. 1 \in Int /\ i \in Int
          OBVIOUS
        <5> QED
          BY <5>1, FS_Interval
      <4>2. g \in Surjection(1..i, S)
        BY DEF Surjection
      <4> HIDE DEF g
      <4> QED
        BY <4>1, <4>2, FS_Surjection
    <3>2. f[i] \in S /\ f[i - 1] \in S /\ f[i] # f[i - 1]
      BY <2>1, <2>2
    <3>3. Cardinality(S) \in Nat /\ Cardinality(S) # 0
      BY <3>1, <3>2, FS_EmptySet, FS_CardinalityType
    <3>4. Cardinality(S) = 1
      BY <2>6, <3>3
    <3> QED
      BY <3>1, <3>2, <3>4, FS_Singleton
  <2> QED
    BY <2>5, <2>6, StrategyCounts
<1>5. ASSUME i <= 1 PROVE Strategy!Cardinality(S) <= 1
  <2>1. CASE i = 0
    BY <1>1, <2>1, FS_EmptySet, StrategyCounts
  <2>2. CASE i = 1
    <3>1. S = {f[1]}
      BY <2>2
    <3>2. Cardinality({f[1]}) = 1
      BY FS_Singleton
    <3>3. Strategy!Cardinality(S) = 1
      BY <3>1, <3>2, StrategyCounts
    <3> QED
      BY <3>3
  <2> QED
    BY <1>5, <2>1, <2>2
<1> QED
  BY <1>1, <1>3, <1>4, <1>5

\* _attach_window_count counts the events of the days up to the row's, as far
\* back as the window goes.
LEMMA CountSays ==
  ASSUME AskedFeatures, NEW d \in 1..Sessions
  PROVE  Strategy!Count(query.events, d)
           = Strategy!Cardinality({i \in DOMAIN query.events :
                                     query.events[i] <= d /\ query.events[i] + Window >= d})
<1> DEFINE f == query.events
           lo == IF d > Window THEN d - Window ELSE 0
           R == {i \in DOMAIN f : f[i] <= d}
           L == {i \in DOMAIN f : f[i] < lo}
           C == {i \in DOMAIN f : f[i] <= d /\ f[i] + Window >= d}
<1>1. PICK n \in Nat : f \in [1..n -> 1..Sessions]
  BY DEF AskedFeatures, DaySeq
<1>2. Window \in Nat /\ Sessions \in Nat /\ d \in Nat
  BY StrategyAssumption
<1>3. Strategy!Count(f, d) = Cardinality(R) - Cardinality(L)
  BY StrategyCounts DEF Strategy!Count, Strategy!Right, Strategy!Left
<1> HIDE DEF f
<1>4. \A i \in DOMAIN f : f[i] \in Nat /\ i \in 1..n
  BY <1>1
<1>5. lo \in Nat /\ lo <= d /\ \A m \in Nat : m < lo <=> ~ (m + Window >= d)
  BY <1>2
<1> HIDE DEF lo
<1>6. IsFiniteSet(R)
  <2>1. 1 \in Int /\ n \in Int
    OBVIOUS
  <2>2. IsFiniteSet(1..n)
    BY <2>1, FS_Interval
  <2>3. R \in SUBSET (1..n)
    BY <1>4
  <2> QED
    BY <2>2, <2>3, FS_Subset
<1>7. R \cap L = L
  BY <1>2, <1>4, <1>5
<1>8. R \ L = C
  BY <1>2, <1>4, <1>5
<1> HIDE DEF R, L, C
<1>9. Cardinality(C) = Cardinality(R) - Cardinality(L)
  BY <1>6, <1>7, <1>8, FS_Difference
<1> QED
  BY <1>3, <1>9, StrategyCounts DEF C, f

LEMMA NothingIsAhead == ASSUME AskedFeatures, page = [is |-> Strategy!BuildFeatures] PROVE Strategy!NothingAhead
<1> SUFFICES ASSUME NEW d \in 1..Sessions
             PROVE  LET f == page.is[d]
                    IN /\ IF Ended(d) = {} THEN f.report = Nothing /\ f.age = Nothing
                          ELSE f.report = Strategy!Max(Ended(d)) /\ f.age = d - f.report
                       /\ IF Strategy!Cardinality(Ended(d)) <= 1 THEN f.before = Nothing
                          ELSE f.before = Strategy!Max(Ended(d) \ {f.report})
                       /\ f.events = Strategy!Cardinality({i \in DOMAIN query.events :
                                        query.events[i] <= d /\ query.events[i] + Window >= d})
  BY StrategyDays DEF Strategy!NothingAhead, Strategy!Answered, Ended
<1> DEFINE i == Strategy!Report(query.periods, d)
           f == query.periods
<1>1. page.is[d] = [report |-> IF i = 0 THEN Nothing ELSE f[i],
                    before |-> IF i <= 1 THEN Nothing ELSE f[i - 1],
                    age |-> IF i = 0 THEN Nothing ELSE d - f[i],
                    events |-> Strategy!Count(query.events, d)]
  BY StrategyDays DEF Strategy!BuildFeatures, Strategy!Feature
<1>2. d \in Nat
  BY StrategyDays
<1>3. /\ i \in Nat /\ Ended(d) = {f[k] : k \in 1..i} /\ 1..i \subseteq DOMAIN f
      /\ \A k \in 1..i : f[k] \in Int
  BY <1>2, ReportSays
<1> HIDE DEF i
<1>4. \A j, k \in 1..i : j < k => f[j] < f[k]
  BY <1>3 DEF AskedFeatures, Ascending
<1> HIDE DEF f
<1>5. /\ Ended(d) = {} <=> i = 0
      /\ i >= 1 => Strategy!Max(Ended(d)) = f[i]
      /\ Strategy!Cardinality(Ended(d)) <= 1 <=> i <= 1
      /\ i >= 2 => Strategy!Max(Ended(d) \ {f[i]}) = f[i - 1]
  BY <1>3, <1>4, ReportsOrder
<1>6. Strategy!Count(query.events, d)
        = Strategy!Cardinality({k \in DOMAIN query.events :
                                  query.events[k] <= d /\ query.events[k] + Window >= d})
  BY CountSays
<1> DEFINE g == page.is[d]
<1>7. /\ g.report = (IF i = 0 THEN Nothing ELSE f[i]) /\ g.before = (IF i <= 1 THEN Nothing ELSE f[i - 1])
      /\ g.age = (IF i = 0 THEN Nothing ELSE d - f[i])
      /\ g.events = Strategy!Count(query.events, d)
  BY <1>1
<1> HIDE DEF g
<1>8. IF Ended(d) = {} THEN g.report = Nothing /\ g.age = Nothing
      ELSE g.report = Strategy!Max(Ended(d)) /\ g.age = d - g.report
  <2>1. CASE i = 0
    BY <1>5, <1>7, <2>1
  <2>2. CASE i # 0
    <3>1. i >= 1
      BY <1>3, <2>2
    <3>2. g.report = f[i] /\ g.age = d - f[i]
      BY <1>7, <2>2
    <3> QED
      BY <1>5, <2>2, <3>1, <3>2
  <2> QED
    BY <2>1, <2>2
<1>9. IF Strategy!Cardinality(Ended(d)) <= 1 THEN g.before = Nothing
      ELSE g.before = Strategy!Max(Ended(d) \ {g.report})
  <2>1. CASE i <= 1
    BY <1>5, <1>7, <2>1
  <2>2. CASE ~ (i <= 1)
    <3>1. i >= 2 /\ i # 0
      BY <1>3, <2>2
    <3>2. g.report = f[i] /\ g.before = f[i - 1]
      BY <1>7, <2>2, <3>1
    <3> QED
      BY <1>5, <2>2, <3>1, <3>2
  <2> QED
    BY <2>1, <2>2
<1> QED
  BY <1>6, <1>7, <1>8, <1>9 DEF g

-----------------------------------------------------------------------------
(* The strategy: ranks and signals *)

Betters(S, p) == [x \in S |-> {y \in S : p[y] > p[x] \/ (p[y] = p[x] /\ y < x)}]
BestOf(S, p) ==
  [i \in 1..Cardinality(S) |->
     CHOOSE x \in S : Cardinality({y \in S : p[y] > p[x] \/ (p[y] = p[x] /\ y < x)}) = i - 1]

\* What is known of stocks in the order of their predictions.
Ranks(S, p, f) ==
  /\ Cardinality(S) \in Nat /\ DOMAIN f = 1..Cardinality(S)
  /\ \A i \in DOMAIN f : f[i] \in S
  /\ \A i, j \in DOMAIN f : i < j => f[i] # f[j] /\ p[f[i]] >= p[f[j]]
  /\ \A i, j \in DOMAIN f : p[f[i]] > p[f[j]] => i < j
  /\ \A x \in S : \E i \in DOMAIN f : f[i] = x

Predicted(S, p) == S \in SUBSET Nat /\ IsFiniteSet(S) /\ \A x \in S : p[x] \in Nat

LEMMA BettersLined == ASSUME NEW S, NEW p, Predicted(S, p) PROVE Lined(S, Betters(S, p))
<1> DEFINE B == Betters(S, p)
<1>1. B \in [S -> SUBSET S]
  BY DEF Betters
<1>2. \A x, y \in S : x \in B[y] <=> p[x] > p[y] \/ (p[x] = p[y] /\ x < y)
  BY DEF Betters
<1>3. \A x \in S : x \in Int /\ p[x] \in Int
  BY DEF Predicted
<1> HIDE DEF B
<1>4. ASSUME NEW x \in S, NEW y \in S, x \in B[y] PROVE B[x] \subseteq B[y]
  <2> SUFFICES ASSUME NEW z \in B[x] PROVE z \in B[y]
    OBVIOUS
  <2>1. z \in S
    BY <1>1
  <2>2. p[z] > p[x] \/ (p[z] = p[x] /\ z < x)
    BY <1>2, <2>1
  <2>3. p[x] > p[y] \/ (p[x] = p[y] /\ x < y)
    BY <1>2, <1>4
  <2>4. p[z] > p[y] \/ (p[z] = p[y] /\ z < y)
    BY <1>3, <2>1, <2>2, <2>3
  <2> QED
    BY <1>2, <2>1, <2>4
<1>5. ASSUME NEW x \in S PROVE x \notin B[x]
  BY <1>2, <1>3
<1>6. ASSUME NEW x \in S, NEW y \in S, x # y PROVE x \in B[y] \/ y \in B[x]
  <2>1. \/ p[x] > p[y] \/ (p[x] = p[y] /\ x < y)
        \/ p[y] > p[x] \/ (p[y] = p[x] /\ y < x)
    BY <1>3, <1>6
  <2> QED
    BY <1>2, <2>1
<1>7. IsFiniteSet(S)
  BY DEF Predicted
<1>8. Lined(S, B)
  BY <1>1, <1>4, <1>5, <1>6, <1>7 DEF Lined
<1> QED
  BY <1>8 DEF B

LEMMA BestPlaced ==
  ASSUME NEW S, NEW p, Predicted(S, p), NEW f, f = BestOf(S, p)
  PROVE  Cardinality(S) \in Nat /\ Placed(S, Betters(S, p), f)
<1> DEFINE n == Cardinality(S)
<1>1. \A x \in S : Betters(S, p)[x] = {y \in S : p[y] > p[x] \/ (p[y] = p[x] /\ y < x)}
  BY DEF Betters
<1>2. /\ n \in Nat
      /\ \A k \in 0..(n - 1) : \E x \in S : Cardinality(Betters(S, p)[x]) = k
  BY BettersLined, PlacesTell DEF PlacesOf
<1>3. ASSUME NEW i \in 1..n PROVE f[i] \in S /\ Cardinality(Betters(S, p)[f[i]]) = i - 1
  <2>1. i - 1 \in 0..(n - 1)
    BY <1>2
  <2>2. \E x \in S : Cardinality({y \in S : p[y] > p[x] \/ (p[y] = p[x] /\ y < x)}) = i - 1
    BY <1>1, <1>2, <2>1
  <2>3. f[i] = CHOOSE x \in S : Cardinality({y \in S : p[y] > p[x] \/ (p[y] = p[x] /\ y < x)}) = i - 1
    BY DEF BestOf
  <2>4. f[i] \in S /\ Cardinality({y \in S : p[y] > p[f[i]] \/ (p[y] = p[f[i]] /\ y < f[i])}) = i - 1
    BY <2>2, <2>3
  <2> QED
    BY <1>1, <2>4
<1>4. DOMAIN f = 1..n
  BY DEF BestOf
<1> QED
  BY <1>2, <1>3, <1>4 DEF Placed

LEMMA BestRanks ==
  ASSUME NEW S, NEW p, Predicted(S, p), NEW f, f = BestOf(S, p)
  PROVE  Ranks(S, p, f)
<1> DEFINE B == Betters(S, p)
<1>1. Lined(S, B) /\ Placed(S, B, f) /\ Cardinality(S) \in Nat
  BY BettersLined, BestPlaced
<1>2. \A x, y \in S : x \in B[y] <=> p[x] > p[y] \/ (p[x] = p[y] /\ x < y)
  BY DEF Betters
<1>3. \A x \in S : x \in Int /\ p[x] \in Int
  BY DEF Predicted
<1> HIDE DEF B
<1>4. /\ \A i, j \in DOMAIN f : i < j <=> f[i] \in B[f[j]]
      /\ \A i, j \in DOMAIN f : i # j => f[i] # f[j]
      /\ \A x \in S : Cardinality(B[x]) + 1 \in DOMAIN f /\ f[Cardinality(B[x]) + 1] = x
  BY <1>1, LineInOrder
<1>5. DOMAIN f = 1..Cardinality(S) /\ \A i \in DOMAIN f : f[i] \in S /\ i \in Int
  BY <1>1 DEF Placed
<1>6. ASSUME NEW i \in DOMAIN f, NEW j \in DOMAIN f, i < j PROVE f[i] # f[j] /\ p[f[i]] >= p[f[j]]
  <2>1. p[f[i]] > p[f[j]] \/ p[f[i]] = p[f[j]]
    BY <1>2, <1>4, <1>5, <1>6
  <2>2. i # j /\ p[f[i]] \in Int /\ p[f[j]] \in Int
    BY <1>3, <1>5, <1>6
  <2> QED
    BY <1>4, <2>1, <2>2
<1>7. \A i, j \in DOMAIN f : p[f[i]] > p[f[j]] => i < j
  BY <1>2, <1>4, <1>5
<1> QED
  BY <1>1, <1>4, <1>5, <1>6, <1>7 DEF Ranks

LEMMA StrategyBest ==
  ASSUME NEW S PROVE Strategy!Best(S) = BestOf(S, query.predicted)
BY DEF Strategy!Best, Strategy!Sorted, BestOf, Strategy!Cardinality, Cardinality

\* The signal of a rank, threshold by threshold.
LEMMA SignalSays ==
  ASSUME NEW n \in Nat \ {0}, NEW i \in 1..n
  PROVE  /\ Strategy!Signal(i, n) \in 0..3
         /\ Strategy!Signal(i, n) = 3 <=> n = 1 \/ 10 * (n - i) >= 9 * (n - 1)
         /\ Strategy!Signal(i, n) >= 2 <=> n = 1 \/ 4 * (n - i) >= 3 * (n - 1)
         /\ Strategy!Signal(i, n) >= 1 <=> n = 1 \/ 2 * (n - i) >= n - 1
<1> DEFINE At(h) == n <= 1 \/ 100 * (n - i) >= h * (n - 1)
<1>1. Strategy!Signal(i, n) = CASE At(90) -> 3
                                [] ~At(90) /\ At(75) -> 2
                                [] ~At(75) /\ At(50) -> 1
                                [] OTHER -> 0
  BY DEF Strategy!Signal
<1>2. At(90) <=> n = 1 \/ 10 * (n - i) >= 9 * (n - 1)
  OBVIOUS
<1>3. At(75) <=> n = 1 \/ 4 * (n - i) >= 3 * (n - 1)
  OBVIOUS
<1>4. At(50) <=> n = 1 \/ 2 * (n - i) >= n - 1
  OBVIOUS
<1>5. (At(90) => At(75)) /\ (At(75) => At(50))
  BY <1>2, <1>3, <1>4
<1> HIDE DEF At
<1>6. Strategy!Signal(i, n) = IF At(90) THEN 3 ELSE IF At(75) THEN 2 ELSE IF At(50) THEN 1 ELSE 0
  BY <1>1, <1>5
<1> QED
  BY <1>2, <1>3, <1>4, <1>5, <1>6

LEMMA SignalsFall ==
  ASSUME NEW n \in Nat \ {0}, NEW i \in 1..n, NEW j \in 1..n, i < j
  PROVE  Strategy!Signal(i, n) >= Strategy!Signal(j, n)
<1> DEFINE a == Strategy!Signal(i, n)
           b == Strategy!Signal(j, n)
<1>1. /\ a \in 0..3 /\ b \in 0..3
      /\ b = 3 => a = 3
      /\ b >= 2 => a >= 2
      /\ b >= 1 => a >= 1
  BY SignalSays
<1> HIDE DEF a, b
<1>2. a >= b
  BY <1>1
<1> QED
  BY <1>2 DEF a, b

LEMMA FewWatched ==
  ASSUME NEW n \in Nat \ {0}
  PROVE  2 * Cardinality({i \in 2..n : Strategy!Signal(i, n) > 0}) <= n - 1
<1> DEFINE W == {i \in 2..n : Strategy!Signal(i, n) > 0}
           m == (n + 1) \div 2
<1>1. m \in Nat /\ m >= 1 /\ 2 * m <= n + 1 /\ n + 1 < 2 * m + 2
  OBVIOUS
<1>2. W \in SUBSET (2..m)
  <2> SUFFICES ASSUME NEW i \in 2..n, Strategy!Signal(i, n) > 0 PROVE i \in 2..m
    OBVIOUS
  <2>1. i \in 1..n /\ i # 1 /\ n # 1
    OBVIOUS
  <2>2. Strategy!Signal(i, n) >= 1
    BY <2>1, SignalSays
  <2>3. 2 * (n - i) >= n - 1
    BY <2>1, <2>2, SignalSays
  <2> HIDE DEF m
  <2> QED
    BY <1>1, <2>3
<1> HIDE DEF W, m
<1>3. 2 \in Int /\ m \in Int
  BY <1>1
<1>4. IsFiniteSet(2..m) /\ Cardinality(2..m) = IF 2 > m THEN 0 ELSE m - 2 + 1
  BY <1>3, FS_Interval
<1>5. Cardinality(2..m) = m - 1
  BY <1>1, <1>4
<1>6. IsFiniteSet(W) /\ Cardinality(W) <= m - 1
  BY <1>2, <1>4, <1>5, FS_Subset
<1>7. Cardinality(W) \in Nat
  BY <1>6, FS_CardinalityType
<1>8. 2 * Cardinality(W) <= n - 1
  BY <1>1, <1>6, <1>7
<1> QED
  BY <1>8 DEF W

LEMMA SignalsAreInOrder == ASSUME AskedScores, page = [is |-> Strategy!Score] PROVE Strategy!SignalsInOrder
<1> DEFINE p == query.predicted
           S == DOMAIN p
           f == Strategy!Best(S)
           scores == page.is
<1>1. PICK n \in Nat \ {0} : p \in [1..n -> Nat]
  BY DEF AskedScores
<1>2. S = 1..n /\ IsFiniteSet(S) /\ Cardinality(S) = n
  <2>1. 1 \in Int /\ n \in Int /\ ~ (1 > n)
    OBVIOUS
  <2> QED
    BY <1>1, <2>1, FS_Interval
<1>3. Predicted(S, p)
  BY <1>1, <1>2 DEF Predicted
<1>4. f = BestOf(S, p)
  BY StrategyBest
<1> HIDE DEF S, f
<1>5. Ranks(S, p, f)
  BY <1>3, <1>4, BestRanks
<1>6. DOMAIN f = 1..n
  BY <1>2, <1>5 DEF Ranks
<1>7. Strategy!Len(f) = n
  BY <1>6
<1>8. scores = [rank \in 1..n |-> [symbol |-> f[rank], signal |-> Strategy!Signal(rank, n)]]
  BY <1>6, <1>7 DEF Strategy!Score, S, f
<1> HIDE DEF scores
<1>9. Strategy!Len(scores) = n
  BY <1>8
<1>10. \A i \in 1..n : scores[i].symbol = f[i] /\ scores[i].signal = Strategy!Signal(i, n)
  BY <1>8
<1>11. {scores[i].symbol : i \in 1..n} = S
  <2>1. {scores[i].symbol : i \in 1..n} = {f[i] : i \in 1..n}
    BY <1>10
  <2>2. {f[i] : i \in 1..n} = S
    BY <1>5, <1>6 DEF Ranks
  <2> QED
    BY <2>1, <2>2
<1>12. ASSUME NEW i \in 1..n, NEW j \in 1..n, p[scores[i].symbol] > p[scores[j].symbol]
       PROVE  i < j /\ scores[i].signal >= scores[j].signal
  <2>1. i < j
    BY <1>5, <1>6, <1>10, <1>12 DEF Ranks
  <2>2. Strategy!Signal(i, n) >= Strategy!Signal(j, n)
    BY <2>1, SignalsFall
  <2> QED
    BY <1>10, <2>1, <2>2
<1>13. scores[1].signal = 3
  <2>1. 1 \in 1..n /\ 10 * (n - 1) >= 9 * (n - 1)
    OBVIOUS
  <2>2. Strategy!Signal(1, n) = 3
    BY <2>1, SignalSays
  <2> QED
    BY <1>10, <2>1, <2>2
<1>14. {i \in 2..n : scores[i].signal > 0} = {i \in 2..n : Strategy!Signal(i, n) > 0}
  BY <1>10
<1>15. 2 * Strategy!Cardinality({i \in 2..n : scores[i].signal > 0}) <= n - 1
  BY <1>14, FewWatched, StrategyCounts
<1>16. n = Strategy!Cardinality(DOMAIN query.predicted)
  BY <1>2, StrategyCounts DEF S
<1> QED
  BY <1>9, <1>11, <1>12, <1>13, <1>15, <1>16 DEF Strategy!SignalsInOrder, scores, S

-----------------------------------------------------------------------------
(* The strategy: buckets *)

LEMMA Quotient ==
  ASSUME NEW a \in Nat, NEW b \in Nat \ {0}
  PROVE  a \div b \in Nat /\ (a \div b) * b <= a /\ a < (a \div b) * b + b
OBVIOUS

\* A product is as large as its factor is.
LEMMA Factors ==
  ASSUME NEW a \in Int, NEW b \in Int, NEW c \in Nat \ {0}
  PROVE  /\ a <= b => a * c <= b * c
         /\ a < b <=> a * c < b * c
         /\ a * c < b * c + c => a <= b
OBVIOUS

LEMMA BucketSays ==
  ASSUME NEW n \in Nat \ {0}, NEW i \in 1..n
  PROVE  LET k == Strategy!BucketOf(i, n)
         IN /\ k \in 1..Buckets
            /\ (k - 1) * n <= (i - 1) * Buckets /\ (i - 1) * Buckets < (k - 1) * n + n
<1> DEFINE a == (i - 1) * Buckets
           q == a \div n
<1>1. Buckets \in Nat \ {0}
  BY StrategyAssumption
<1>2. a \in Nat
  BY <1>1
<1>3. q \in Nat /\ q * n <= a /\ a < q * n + n
  BY <1>2, Quotient
<1>4. Strategy!BucketOf(i, n) = q + 1
  BY DEF Strategy!BucketOf
<1>5. a < Buckets * n
  <2>1. (i - 1) * Buckets < n * Buckets
    BY <1>1, Factors
  <2>2. n * Buckets = Buckets * n
    BY <1>1
  <2> QED
    BY <2>1, <2>2
<1> HIDE DEF a, q
<1>6. q < Buckets
  <2>1. q * n \in Int /\ Buckets * n \in Int
    BY <1>1, <1>3
  <2>2. q * n < Buckets * n
    BY <1>2, <1>3, <1>5, <2>1
  <2> QED
    BY <1>1, <1>3, <2>2, Factors
<1>7. q + 1 \in 1..Buckets /\ (q + 1) - 1 = q
  BY <1>1, <1>3, <1>6
<1> QED
  BY <1>3, <1>4, <1>7 DEF a

\* The places of a bucket are next to each other, and as many as those of
\* another up to one.
LEMMA BucketSlice ==
  ASSUME NEW n \in Nat \ {0}, NEW b \in 1..Buckets
  PROVE  \E u, v \in Nat :
           /\ u <= v /\ v <= n
           /\ \A i \in 1..n : Strategy!BucketOf(i, n) = b <=> u < i /\ i <= v
           /\ (v - u) * Buckets < n + Buckets
           /\ n < (v - u) * Buckets + Buckets
<1> DEFINE Start(k) == (k * n + Buckets - 1) \div Buckets
           u == Start(b - 1)
           v == Start(b)
<1>1. Buckets \in Nat \ {0} /\ b \in Nat \ {0} /\ b - 1 \in Nat
  BY StrategyAssumption
<1>2. ASSUME NEW k \in Nat
      PROVE  Start(k) \in Nat /\ k * n <= Start(k) * Buckets /\ Start(k) * Buckets < k * n + Buckets
  <2>1. k * n \in Nat
    OBVIOUS
  <2> DEFINE a == k * n + Buckets - 1
             q == a \div Buckets
  <2>2. a \in Nat
    BY <1>1, <2>1
  <2>3. q \in Nat /\ q * Buckets <= a /\ a < q * Buckets + Buckets
    BY <1>1, <2>2, Quotient
  <2>4. Start(k) = q
    OBVIOUS
  <2> HIDE DEF q
  <2>5. q * Buckets \in Int
    BY <1>1, <2>3
  <2> HIDE DEF Start
  <2>6. k * n <= q * Buckets /\ q * Buckets < k * n + Buckets
    BY <1>1, <2>1, <2>3, <2>5
  <2> QED
    BY <2>3, <2>4, <2>6
<1> HIDE DEF Start
<1>3. /\ u \in Nat /\ v \in Nat
      /\ (b - 1) * n <= u * Buckets /\ u * Buckets < (b - 1) * n + Buckets
      /\ b * n <= v * Buckets /\ v * Buckets < b * n + Buckets
  BY <1>1, <1>2
<1> HIDE DEF u, v
<1>4. b * n = (b - 1) * n + n /\ (b - 1) * n \in Nat /\ b * n \in Nat
  BY <1>1
<1>5. (v - u) * Buckets = v * Buckets - u * Buckets /\ u * Buckets \in Int /\ v * Buckets \in Int
  BY <1>1, <1>3
<1>6. (v - u) * Buckets < n + Buckets /\ n < (v - u) * Buckets + Buckets
  BY <1>1, <1>3, <1>4, <1>5
<1>7. u <= v
  <2>1. u * Buckets < v * Buckets + Buckets
    BY <1>1, <1>3, <1>4, <1>5
  <2> QED
    BY <1>1, <1>3, <2>1, Factors
<1>8. v <= n
  <2>1. b * n <= Buckets * n
    BY <1>1, Factors
  <2>2. Buckets * n = n * Buckets /\ n * Buckets \in Int
    BY <1>1
  <2>3. v * Buckets < n * Buckets + Buckets
    BY <1>1, <1>3, <1>4, <1>5, <2>1, <2>2
  <2> QED
    BY <1>1, <1>3, <2>3, Factors
<1>9. ASSUME NEW i \in 1..n PROVE Strategy!BucketOf(i, n) = b <=> u < i /\ i <= v
  <2> DEFINE k == Strategy!BucketOf(i, n)
             a == (i - 1) * Buckets
  <2>1. k \in 1..Buckets /\ (k - 1) * n <= a /\ a < (k - 1) * n + n
    BY BucketSays
  <2>2. a \in Nat /\ i - 1 \in Nat
    BY <1>1
  <2>3. k * n = (k - 1) * n + n /\ (k - 1) * n \in Int /\ k \in Int
    BY <1>1, <2>1
  <2> HIDE DEF k
  <2>4. k = b <=> (b - 1) * n <= a /\ a < b * n
    <3>1. CASE k = b
      BY <1>4, <2>1, <2>3, <3>1
    <3>2. CASE k < b
      <4>1. k <= b - 1
        BY <1>1, <2>3, <3>2
      <4>2. k * n <= (b - 1) * n
        BY <1>1, <2>3, <4>1, Factors
      <4>3. ~ ((b - 1) * n <= a)
        BY <1>4, <2>1, <2>2, <2>3, <4>2
      <4>4. k # b
        BY <1>1, <2>3, <3>2
      <4> QED
        BY <4>3, <4>4
    <3>3. CASE b < k
      <4>1. b <= k - 1 /\ k - 1 \in Int /\ b \in Int
        BY <1>1, <2>3, <3>3
      <4>2. b * n <= (k - 1) * n
        BY <4>1, Factors
      <4>3. ~ (a < b * n)
        BY <1>4, <2>1, <2>2, <2>3, <4>2
      <4>4. k # b
        BY <1>1, <2>3, <3>3
      <4> QED
        BY <4>3, <4>4
    <3> QED
      BY <1>1, <2>3, <3>1, <3>2, <3>3
  <2>5. (b - 1) * n <= a <=> u <= i - 1
    <3>1. ASSUME u <= i - 1 PROVE (b - 1) * n <= a
      <4>1. u * Buckets <= (i - 1) * Buckets
        BY <1>1, <1>3, <2>2, <3>1, Factors
      <4> QED
        BY <1>3, <1>4, <1>5, <2>2, <4>1
    <3>2. ASSUME (b - 1) * n <= a PROVE u <= i - 1
      <4>1. u * Buckets < (i - 1) * Buckets + Buckets
        BY <1>1, <1>3, <1>4, <1>5, <2>2, <3>2
      <4> QED
        BY <1>1, <1>3, <2>2, <4>1, Factors
    <3> QED
      BY <3>1, <3>2
  <2>6. a < b * n <=> ~ (v <= i - 1)
    <3>1. ASSUME v <= i - 1 PROVE ~ (a < b * n)
      <4>1. v * Buckets <= (i - 1) * Buckets
        BY <1>1, <1>3, <2>2, <3>1, Factors
      <4> QED
        BY <1>3, <1>4, <1>5, <2>2, <4>1
    <3>2. ASSUME ~ (a < b * n) PROVE v <= i - 1
      <4>1. v * Buckets < (i - 1) * Buckets + Buckets
        BY <1>1, <1>3, <1>4, <1>5, <2>2, <3>2
      <4> QED
        BY <1>1, <1>3, <2>2, <4>1, Factors
    <3> QED
      BY <3>1, <3>2
  <2>7. (u <= i - 1 <=> u < i) /\ (~ (v <= i - 1) <=> i <= v)
    BY <1>3
  <2> QED
    BY <2>4, <2>5, <2>6, <2>7 DEF k
<1> QED
  BY <1>3, <1>6, <1>7, <1>8, <1>9

\* The stocks of a bucket, of stocks in an order.
BucketIn(f, n, b) == {f[i] : i \in {i \in 1..n : Strategy!BucketOf(i, n) = b}}

\* Buckets are as large as each other up to one, and every stock is in one.
LEMMA BucketSizes ==
  ASSUME NEW S, NEW p, NEW f, Ranks(S, p, f), NEW n \in Nat \ {0}, n = Cardinality(S),
         NEW b \in 1..Buckets, NEW c \in 1..Buckets
  PROVE  Cardinality(BucketIn(f, n, b)) <= Cardinality(BucketIn(f, n, c)) + 1
<1>0. Buckets \in Nat \ {0}
  BY StrategyAssumption
<1>1. ASSUME NEW k \in 1..Buckets
      PROVE  \E s \in Nat : /\ Cardinality(BucketIn(f, n, k)) = s
                            /\ s * Buckets < n + Buckets /\ n < s * Buckets + Buckets
  <2>1. PICK u \in Nat, v \in Nat :
          /\ u <= v /\ v <= n
          /\ \A i \in 1..n : Strategy!BucketOf(i, n) = k <=> u < i /\ i <= v
          /\ (v - u) * Buckets < n + Buckets /\ n < (v - u) * Buckets + Buckets
    BY BucketSlice
  <2> DEFINE I == (u + 1)..v
             g == [i \in I |-> f[i]]
  <2>2. {i \in 1..n : Strategy!BucketOf(i, n) = k} = I
    BY <2>1
  <2>3. BucketIn(f, n, k) = {f[i] : i \in I}
    BY <2>2 DEF BucketIn
  <2>4. \A i \in I : i \in DOMAIN f /\ i \in Int
    BY <2>1 DEF Ranks
  <2>5. \A i, j \in DOMAIN f : i < j => f[i] # f[j]
    BY DEF Ranks
  <2>6. \A i, j \in I : i # j => f[i] # f[j]
    <3> SUFFICES ASSUME NEW i \in I, NEW j \in I, i # j PROVE f[i] # f[j]
      OBVIOUS
    <3>1. i < j \/ j < i
      BY <2>4
    <3> QED
      BY <2>4, <2>5, <3>1
  <2>7. g \in Bijection(I, {f[i] : i \in I})
    BY <2>6 DEF Bijection, Injection, IsInjective, Surjection
  <2>8. IsFiniteSet(I) /\ Cardinality(I) = v - u
    <3>1. u + 1 \in Int /\ v \in Int
      OBVIOUS
    <3>2. IsFiniteSet(I) /\ Cardinality(I) = IF u + 1 > v THEN 0 ELSE v - (u + 1) + 1
      BY <3>1, FS_Interval
    <3> HIDE DEF I
    <3> QED
      BY <2>1, <3>2
  <2> HIDE DEF g, I
  <2>9. ExistsBijection(I, {f[i] : i \in I})
    BY <2>7 DEF ExistsBijection
  <2>10. Cardinality(BucketIn(f, n, k)) = v - u
    BY <2>3, <2>8, <2>9, FS_Bijection
  <2>11. v - u \in Nat
    BY <2>1
  <2> QED
    BY <2>1, <2>10, <2>11
<1>2. PICK s \in Nat : /\ Cardinality(BucketIn(f, n, b)) = s
                       /\ s * Buckets < n + Buckets /\ n < s * Buckets + Buckets
  BY <1>1
<1>3. PICK t \in Nat : /\ Cardinality(BucketIn(f, n, c)) = t
                       /\ t * Buckets < n + Buckets /\ n < t * Buckets + Buckets
  BY <1>1
<1>4. s <= t + 1
  <2>1. s * Buckets \in Int /\ t * Buckets \in Int /\ (t + 1) * Buckets = t * Buckets + Buckets
    BY <1>0
  <2>2. s * Buckets < (t + 1) * Buckets + Buckets
    BY <1>0, <1>2, <1>3, <2>1
  <2> QED
    BY <1>0, <2>2, Factors
<1> QED
  BY <1>2, <1>3, <1>4

\* A stock of a bucket comes before one of a later bucket.
LEMMA BucketsRank ==
  ASSUME NEW S, NEW p, NEW f, Ranks(S, p, f), NEW n \in Nat \ {0}, n = Cardinality(S),
         \A x \in S : p[x] \in Nat,
         NEW b \in 1..Buckets, NEW c \in 1..Buckets, b < c,
         NEW s \in BucketIn(f, n, b), NEW t \in BucketIn(f, n, c)
  PROVE  s # t /\ p[s] >= p[t]
<1>1. PICK i \in 1..n : s = f[i] /\ Strategy!BucketOf(i, n) = b
  BY DEF BucketIn
<1>2. PICK j \in 1..n : t = f[j] /\ Strategy!BucketOf(j, n) = c
  BY DEF BucketIn
<1>3. Buckets \in Nat \ {0} /\ b \in Nat /\ c \in Nat
  BY StrategyAssumption
<1>4. (b - 1) * n <= (i - 1) * Buckets /\ (i - 1) * Buckets < (b - 1) * n + n
  BY <1>1, BucketSays
<1>5. (c - 1) * n <= (j - 1) * Buckets /\ (j - 1) * Buckets < (c - 1) * n + n
  BY <1>2, BucketSays
<1>6. (i - 1) * Buckets < (j - 1) * Buckets
  <2>1. b <= c - 1 /\ c - 1 \in Int
    BY <1>3
  <2>2. b * n <= (c - 1) * n
    BY <1>3, <2>1, Factors
  <2>3. b * n = (b - 1) * n + n /\ (b - 1) * n \in Int /\ (c - 1) * n \in Int
    BY <1>3
  <2>4. (i - 1) * Buckets \in Int /\ (j - 1) * Buckets \in Int
    BY <1>3
  <2> QED
    BY <1>4, <1>5, <2>2, <2>3, <2>4
<1>7. i < j
  <2>1. i - 1 \in Int /\ j - 1 \in Int
    OBVIOUS
  <2>2. i - 1 < j - 1
    BY <1>3, <1>6, <2>1, Factors
  <2> QED
    BY <2>2
<1> QED
  BY <1>1, <1>2, <1>7 DEF Ranks

LEMMA BucketsCover ==
  ASSUME NEW S, NEW p, NEW f, Ranks(S, p, f), NEW n \in Nat \ {0}, n = Cardinality(S)
  PROVE  S = UNION {BucketIn(f, n, b) : b \in 1..Buckets}
<1>1. ASSUME NEW x \in S PROVE \E b \in 1..Buckets : x \in BucketIn(f, n, b)
  <2>1. PICK i \in 1..n : f[i] = x
    BY DEF Ranks
  <2>2. Strategy!BucketOf(i, n) \in 1..Buckets
    BY BucketSays
  <2> QED
    BY <2>1, <2>2 DEF BucketIn
<1>2. \A b \in 1..Buckets : BucketIn(f, n, b) \subseteq S
  BY DEF BucketIn, Ranks
<1> QED
  BY <1>1, <1>2

-----------------------------------------------------------------------------
(* The strategy: dates of the backtest *)

LEMMA Multiples ==
  ASSUME NEW h \in Nat \ {0}, NEW a \in Nat, NEW b \in Nat, a % h = 0, b % h = 0, a < b
  PROVE  a + h <= b
<1> DEFINE q == a \div h
           r == b \div h
<1>1. q \in Nat /\ r \in Nat /\ a = h * q + (a % h) /\ b = h * r + (b % h)
  OBVIOUS
<1> HIDE DEF q, r
<1>2. a = q * h /\ b = r * h
  BY <1>1
<1>3. q < r
  BY <1>1, <1>2, Factors
<1>4. (q + 1) * h <= r * h /\ (q + 1) * h = q * h + h
  BY <1>1, <1>3, Factors
<1> QED
  BY <1>2, <1>4

Rows3(R) == R \subseteq Symbols \X (1..Sessions)

\* Two dates on which the buckets are made anew are as far apart, among the
\* dates that are tested, as the returns are long.
LEMMA RebalanceApart ==
  ASSUME NEW R, Rows3(R), NEW h \in Nat \ {0},
         NEW d \in Strategy!Rebalance(R, h), NEW e \in Strategy!Rebalance(R, h), d < e
  PROVE  LET D == {r[2] : r \in R}
         IN /\ D \in SUBSET (1..Sessions) /\ d \in D /\ e \in D
            /\ Place(d, D) \in Nat /\ Place(e, D) \in Nat
            /\ Place(d, D) + h <= Place(e, D)
<1> DEFINE D == {r[2] : r \in R}
           f == Strategy!DatesOf(R)
<1>1. D \in SUBSET (1..Sessions) /\ Ascends(D, f)
  BY DatesAscend DEF Rows3
<1>2. Strategy!Rebalance(R, h) = {f[i] : i \in {i \in DOMAIN f : (i - 1) % h = 0}}
  BY DEF Strategy!Rebalance
<1> HIDE DEF f, D
<1>3. PICK i \in DOMAIN f : d = f[i] /\ (i - 1) % h = 0
  BY <1>2
<1>4. PICK j \in DOMAIN f : e = f[j] /\ (j - 1) % h = 0
  BY <1>2
<1>5. i \in Nat \ {0} /\ j \in Nat \ {0} /\ i < j
  BY <1>1, <1>3, <1>4 DEF Ascends
<1>6. Place(d, D) = i /\ Place(e, D) = j /\ d \in D /\ e \in D
  BY <1>1, <1>3, <1>4 DEF Ascends
<1>7. i - 1 \in Nat /\ j - 1 \in Nat /\ i - 1 < j - 1
  BY <1>5
<1>8. (i - 1) + h <= j - 1
  BY <1>3, <1>4, <1>7, Multiples
<1> QED
  BY <1>1, <1>5, <1>6, <1>8 DEF D

\* The days of T from d on, up to e.
LEMMA DaysFrom ==
  ASSUME NEW T \in SUBSET (1..Sessions), NEW d \in Nat, NEW e \in Nat, d < e
  PROVE  /\ IsFiniteSet({y \in T : d <= y /\ y < e})
         /\ Cardinality({y \in T : d <= y /\ y < e}) \in Nat
         /\ Place(d, T) \in Nat /\ Place(e, T) \in Nat
         /\ Place(e, T) = Place(d, T) + Cardinality({y \in T : d <= y /\ y < e})
<1> DEFINE E == {y \in T : y < e}
           F == {y \in T : y < d}
           M == {y \in T : d <= y /\ y < e}
<1>0. \A y \in T : y \in Int
  BY StrategyDays
<1>1. IsFiniteSet(T)
  BY StrategyDays, FS_Subset
<1>2. IsFiniteSet(E) /\ IsFiniteSet(F) /\ IsFiniteSet(M)
  <2>1. E \in SUBSET T /\ F \in SUBSET T /\ M \in SUBSET T
    OBVIOUS
  <2> HIDE DEF E, F, M
  <2> QED
    BY <1>1, <2>1, FS_Subset
<1>3. E \cap F = F /\ E \ F = M
  <2>1. \A y \in T : (y < d => y < e) /\ (y < d <=> ~ (d <= y))
    BY <1>0
  <2> QED
    BY <2>1
<1>4. Place(e, T) = Cardinality(E) + 1 /\ Place(d, T) = Cardinality(F) + 1
  BY DEF Place
<1> HIDE DEF E, F, M
<1>5. Cardinality(E) \in Nat /\ Cardinality(F) \in Nat /\ Cardinality(M) \in Nat
  BY <1>2, FS_CardinalityType
<1>6. Cardinality(M) = Cardinality(E) - Cardinality(F)
  <2>1. Cardinality(E \ F) = Cardinality(E) - Cardinality(E \cap F)
    BY <1>2, FS_Difference
  <2> QED
    BY <1>3, <2>1
<1> QED
  BY <1>2, <1>4, <1>5, <1>6 DEF M

\* On days of which T has every one that D has, places in T are as far apart.
LEMMA NoCloser ==
  ASSUME NEW T \in SUBSET (1..Sessions), NEW D \in SUBSET (1..Sessions), NEW d \in D, NEW e \in D,
         d < e, \A y \in D : d <= y => y \in T, NEW h \in Nat, Place(d, D) + h <= Place(e, D)
  PROVE  Place(d, T) + h <= Place(e, T)
<1> DEFINE A == {y \in T : d <= y /\ y < e}
           B == {y \in D : d <= y /\ y < e}
<1>1. d \in Nat /\ e \in Nat
  BY StrategyDays
<1>2. /\ IsFiniteSet(A) /\ Cardinality(A) \in Nat /\ Place(d, T) \in Nat
      /\ Place(e, T) = Place(d, T) + Cardinality(A)
  BY <1>1, DaysFrom
<1>3. /\ Cardinality(B) \in Nat /\ Place(d, D) \in Nat
      /\ Place(e, D) = Place(d, D) + Cardinality(B)
  BY <1>1, DaysFrom
<1>4. B \in SUBSET A
  OBVIOUS
<1> HIDE DEF A, B
<1>5. Cardinality(B) <= Cardinality(A)
  BY <1>2, <1>4, FS_Subset
<1> QED
  BY <1>2, <1>3, <1>5

LEMMA TestedRows ==
  ASSUME AskedRows, NEW h \in Nat \ {0}
  PROVE  /\ Rows3(Strategy!Tested(h))
         /\ \A r \in Strategy!Tested(h) :
              r = <<r[1], r[2]>> /\ r[2] \in query.traded[r[1]] /\ Strategy!HasAhead(r, h)
<1>1. Strategy!Tested(h) \subseteq Strategy!Ready /\ \A r \in Strategy!Tested(h) : Strategy!HasAhead(r, h)
  BY DEF Strategy!Tested
<1>2. \A r \in Strategy!Ready : r \in Symbols \X (1..Sessions) /\ r[2] \in query.traded[r[1]]
  BY ReadyRows
<1> QED
  BY <1>1, <1>2 DEF Rows3

\* A stock that trades on every day after d is free again when the buckets are
\* made at e.
LEMMA FreeAgain ==
  ASSUME AskedRows, NEW h \in Nat \ {0},
         NEW d \in Strategy!Rebalance(Strategy!Tested(h), h),
         NEW e \in Strategy!Rebalance(Strategy!Tested(h), h), d < e,
         NEW s \in Symbols, <<s, d>> \in Strategy!Tested(h), <<s, e>> \in Strategy!Tested(h),
         (1..Sessions) \ query.traded[s] \subseteq 1..d
  PROVE  Strategy!Ahead(<<s, d>>, h) <= e
<1> DEFINE T == query.traded[s]
           D == {r[2] : r \in Strategy!Tested(h)}
           f == Strategy!PriceDays(s)
           ahead == Strategy!Ahead(<<s, d>>, h)
<1>1. T \in SUBSET (1..Sessions) /\ Ascends(T, f)
  BY PriceDaysAscend
<1>2. Rows3(Strategy!Tested(h)) /\ d \in T /\ e \in T /\ Strategy!HasAhead(<<s, d>>, h)
  BY TestedRows
<1>3. /\ D \in SUBSET (1..Sessions) /\ d \in D /\ e \in D
      /\ Place(d, D) + h <= Place(e, D)
  BY <1>2, RebalanceApart
<1>4. ahead \in T /\ Place(ahead, T) = Place(d, T) + h
  BY <1>2, AheadSays
<1> HIDE DEF D, f, ahead
<1>5. \A y \in D : d <= y => y \in T
  <2> SUFFICES ASSUME NEW y \in D, d <= y, y \notin T PROVE FALSE
    OBVIOUS
  <2>1. y \in 1..Sessions /\ y \in 1..d /\ d \in 1..Sessions
    BY <1>3 DEF T
  <2>2. y = d
    BY <2>1
  <2> QED
    BY <1>2, <2>2
<1> HIDE DEF T
<1>6. Place(d, T) + h <= Place(e, T)
  BY <1>1, <1>3, <1>5, NoCloser
<1>7. /\ Place(e, T) \in DOMAIN f /\ f[Place(e, T)] = e
      /\ Place(ahead, T) \in DOMAIN f /\ f[Place(ahead, T)] = ahead
      /\ DOMAIN f = 1..Cardinality(T) /\ Cardinality(T) \in Nat
      /\ \A i, j \in DOMAIN f : i < j <=> f[i] < f[j]
  BY <1>1, <1>2, <1>4 DEF Ascends
<1>8. ~ (Place(e, T) < Place(ahead, T))
  BY <1>4, <1>6, <1>7
<1>9. ~ (e < ahead)
  BY <1>7, <1>8
<1>10. e \in Int /\ ahead \in Int
  <2>1. \A t \in 1..Sessions : t \in Int
    BY StrategyAssumption
  <2>2. e \in 1..Sessions /\ ahead \in 1..Sessions
    BY <1>1, <1>2, <1>4, Zenon
  <2> QED
    BY <2>1, <2>2
<1>11. ahead <= e
  BY <1>9, <1>10
<1> QED
  BY <1>11 DEF ahead

\* The stocks of a date of the backtest, and those that a bucket holds.
Section(d) == {r[1] : r \in {r \in Strategy!Tested(query.horizon) : r[2] = d}}
Held(d, b) == BucketIn(Strategy!Best(Section(d)), Cardinality(Section(d)), b)
BacktestDates ==
  {d \in Strategy!Rebalance(Strategy!Tested(query.horizon), query.horizon) :
     Cardinality(Section(d)) >= Buckets}

LEMMA SectionRanks ==
  ASSUME AskedBacktest, NEW d \in BacktestDates
  PROVE  /\ Section(d) \subseteq Symbols /\ \A s \in Section(d) : query.predicted[s] \in Nat
         /\ Cardinality(Section(d)) \in Nat \ {0}
         /\ Ranks(Section(d), query.predicted, Strategy!Best(Section(d)))
         /\ \A s \in Section(d) : <<s, d>> \in Strategy!Tested(query.horizon)
<1> DEFINE S == Section(d)
<1>1. query.horizon \in Nat \ {0} /\ AskedRows /\ query.predicted \in [Symbols -> Nat]
  BY DEF AskedBacktest, AskedRows
<1>2. \A r \in Strategy!Tested(query.horizon) : r[1] \in Symbols /\ r = <<r[1], r[2]>>
  BY <1>1, TestedRows DEF Rows3
<1>3. S \subseteq Symbols /\ \A s \in S : <<s, d>> \in Strategy!Tested(query.horizon)
  BY <1>2 DEF Section
<1> HIDE DEF S
<1>4. IsFiniteSet(S) /\ S \in SUBSET Nat
  BY <1>3, SymbolsAssumption, FS_Subset
<1>5. Predicted(S, query.predicted)
  BY <1>1, <1>3, <1>4 DEF Predicted
<1>6. Ranks(S, query.predicted, Strategy!Best(S))
  BY <1>5, StrategyBest, BestRanks
<1>7. Cardinality(S) \in Nat \ {0}
  <2>1. Cardinality(S) \in Nat
    BY <1>6 DEF Ranks
  <2>2. Cardinality(S) >= Buckets
    BY DEF BacktestDates, S
  <2> QED
    BY <2>1, <2>2, StrategyAssumption
<1> QED
  BY <1>1, <1>3, <1>6, <1>7 DEF S

LEMMA BacktestPeriods ==
  ASSUME AskedBacktest, page = [is |-> Strategy!BuildBacktest], page.is # Nothing, NEW b \in 1..Buckets
  PROVE  page.is[b] = {[from |-> d, stocks |-> Held(d, b)] : d \in BacktestDates}
<1> DEFINE tested == Strategy!Tested(query.horizon)
           Order(d) == Strategy!Best(Section(d))
           In(order) == {order[i] : i \in {i \in DOMAIN order :
                                            Strategy!BucketOf(i, Strategy!Len(order)) = b}}
           dates == {d \in Strategy!Rebalance(tested, query.horizon) :
                       Strategy!Cardinality({r[1] : r \in {r \in tested : r[2] = d}}) >= Buckets}
           orders == [d \in dates |-> Strategy!Best({r[1] : r \in {r \in tested : r[2] = d}})]
<1>1. page.is[b] = {[from |-> d, stocks |-> In(orders[d])] : d \in dates}
  BY DEF Strategy!BuildBacktest
<1>2. dates = BacktestDates
  BY StrategyCounts DEF BacktestDates, Section
<1>3. \A d \in dates : orders[d] = Order(d)
  BY DEF Section
<1> HIDE DEF dates, orders
<1>4. ASSUME NEW d \in BacktestDates PROVE In(Order(d)) = Held(d, b)
  <2> DEFINE n == Cardinality(Section(d))
             f == Order(d)
  <2>1. n \in Nat /\ DOMAIN f = 1..n
    BY SectionRanks DEF Ranks
  <2> HIDE DEF n, f
  <2>2. Strategy!Len(f) = n
    BY <2>1
  <2>3. In(f) = BucketIn(f, n, b)
    BY <2>1, <2>2 DEF BucketIn
  <2> QED
    BY <2>3 DEF Held, n, f
<1> HIDE DEF In, Order
<1>5. ASSUME NEW d \in BacktestDates PROVE In(orders[d]) = Held(d, b)
  BY <1>2, <1>3, <1>4
<1> QED
  BY <1>1, <1>2, <1>5

LEMMA BucketsAreFair == ASSUME AskedBacktest, page = [is |-> Strategy!BuildBacktest] PROVE Strategy!BucketsFair
<1> DEFINE h == query.horizon
           p == query.predicted
           Of(b) == page.is[b]
           tested == Strategy!Tested(h)
<1> SUFFICES ASSUME page.is # Nothing
             PROVE  /\ \A b, c \in 1..Buckets : \A u \in Of(b), v \in Of(c) :
                         /\ u.from = v.from => Strategy!Cardinality(u.stocks) <= Strategy!Cardinality(v.stocks) + 1
                         /\ \A s \in u.stocks, t \in v.stocks :
                              /\ u.from = v.from /\ b < c => s # t /\ p[s] >= p[t]
                              /\ (u.from < v.from /\ s = t /\ Strategy!Days \ query.traded[s] \subseteq 1..u.from) =>
                                   Strategy!Ahead(<<s, u.from>>, h) <= v.from
                    /\ \A u \in Of(1) :
                         UNION {v.stocks : v \in {v \in UNION {Of(b) : b \in 1..Buckets} : v.from = u.from}}
                           = {r[1] : r \in {r \in tested : r[2] = u.from}}
  BY DEF Strategy!BucketsFair, Strategy!Answered
<1>1. /\ h \in Nat \ {0} /\ AskedRows /\ Buckets \in Nat \ {0} /\ 1 \in 1..Buckets
  BY StrategyAssumption DEF AskedBacktest, AskedRows
<1>2. ASSUME NEW b \in 1..Buckets
      PROVE  Of(b) = {[from |-> d, stocks |-> Held(d, b)] : d \in BacktestDates}
  BY <1>2, BacktestPeriods
<1> HIDE DEF Of
<1>3. ASSUME NEW b \in 1..Buckets, NEW u \in Of(b)
      PROVE  u.from \in BacktestDates /\ u.stocks = Held(u.from, b)
  BY <1>2
<1>4. ASSUME NEW d \in BacktestDates, NEW b \in 1..Buckets
      PROVE  Held(d, b) \subseteq Section(d)
  <2>1. Section(d) = UNION {Held(d, k) : k \in 1..Buckets}
    BY SectionRanks, BucketsCover DEF Held
  <2> QED
    BY <2>1
<1>5. ASSUME NEW b \in 1..Buckets, NEW c \in 1..Buckets, NEW u \in Of(b), NEW v \in Of(c), u.from = v.from
      PROVE  Strategy!Cardinality(u.stocks) <= Strategy!Cardinality(v.stocks) + 1
  <2>1. u.from \in BacktestDates /\ u.stocks = Held(u.from, b) /\ v.stocks = Held(u.from, c)
    BY <1>3, <1>5
  <2>2. Cardinality(Held(u.from, b)) <= Cardinality(Held(u.from, c)) + 1
    BY <2>1, SectionRanks, BucketSizes DEF Held
  <2> QED
    BY <2>1, <2>2, StrategyCounts
<1>6. ASSUME NEW b \in 1..Buckets, NEW c \in 1..Buckets, NEW u \in Of(b), NEW v \in Of(c),
             NEW s \in u.stocks, NEW t \in v.stocks, u.from = v.from, b < c
      PROVE  s # t /\ p[s] >= p[t]
  <2>1. u.from \in BacktestDates /\ s \in Held(u.from, b) /\ t \in Held(u.from, c)
    BY <1>3, <1>6
  <2> QED
    BY <1>6, <2>1, SectionRanks, BucketsRank DEF Held
<1>7. ASSUME NEW b \in 1..Buckets, NEW c \in 1..Buckets, NEW u \in Of(b), NEW v \in Of(c),
             NEW s \in u.stocks, s \in v.stocks, u.from < v.from,
             Strategy!Days \ query.traded[s] \subseteq 1..u.from
      PROVE  Strategy!Ahead(<<s, u.from>>, h) <= v.from
  <2>1. /\ u.from \in BacktestDates /\ v.from \in BacktestDates
        /\ s \in Section(u.from) /\ s \in Section(v.from)
    BY <1>3, <1>4, <1>7
  <2>2. s \in Symbols /\ <<s, u.from>> \in tested /\ <<s, v.from>> \in tested
    BY <2>1, SectionRanks
  <2>3. u.from \in Strategy!Rebalance(tested, h) /\ v.from \in Strategy!Rebalance(tested, h)
    BY <2>1 DEF BacktestDates
  <2> QED
    BY <1>1, <1>7, <2>2, <2>3, FreeAgain, StrategyDays
<1>8. ASSUME NEW u \in Of(1)
      PROVE  UNION {v.stocks : v \in {v \in UNION {Of(b) : b \in 1..Buckets} : v.from = u.from}}
               = {r[1] : r \in {r \in tested : r[2] = u.from}}
  <2> DEFINE d == u.from
             V == {v \in UNION {Of(b) : b \in 1..Buckets} : v.from = d}
  <2>1. d \in BacktestDates
    BY <1>1, <1>3
  <2>2. Section(d) = UNION {Held(d, k) : k \in 1..Buckets}
    BY <2>1, SectionRanks, BucketsCover DEF Held
  <2> HIDE DEF d
  <2>3. ASSUME NEW v \in V PROVE v.stocks \subseteq Section(d)
    <3>1. PICK b \in 1..Buckets : v \in Of(b) /\ v.from = d
      OBVIOUS
    <3> QED
      BY <1>3, <1>4, <2>1, <3>1
  <2>4. ASSUME NEW b \in 1..Buckets PROVE \E v \in V : v.stocks = Held(d, b)
    <3>1. [from |-> d, stocks |-> Held(d, b)] \in Of(b)
      BY <1>2, <2>1
    <3>2. [from |-> d, stocks |-> Held(d, b)] \in V
      BY <3>1
    <3> QED
      BY <3>2
  <2> HIDE DEF V
  <2>5. UNION {v.stocks : v \in V} = Section(d)
    BY <2>2, <2>3, <2>4
  <2> QED
    BY <2>5 DEF Section, V, d
<1> HIDE DEF h, p
<1> QED
  BY <1>5, <1>6, <1>7, <1>8

-----------------------------------------------------------------------------
(* The strategy *)

LEMMA StrategyParts ==
  \A v : /\ Strategy!Trading \subseteq SUBSET (1..Sessions)
         /\ Horizons \subseteq Nat \ {0}
         /\ v \in Strategy!Predictions => v \in Nat
BY StrategyAssumption, StrategyDays DEF Strategy!Trading, Strategy!Predictions

LEMMA StrategyStarts == ASSUME Strategy!Init PROVE StrategyAsked /\ page = Nothing
<1>1. page = Nothing
  BY DEF Strategy!Init
<1>2. CASE \E periods \in {[i \in 1..Strategy!Cardinality(P) |->
                              CHOOSE x \in P : Strategy!Cardinality({y \in P : y < x}) = i - 1] :
                            P \in SUBSET Strategy!Days},
              events \in Strategy!Sequences3(Strategy!Days) :
             query = [what |-> "features", periods |-> periods, events |-> events]
  <2>1. PICK P \in SUBSET Strategy!Days, events \in Strategy!Sequences3(Strategy!Days) :
          query = [what |-> "features",
                   periods |-> [i \in 1..Strategy!Cardinality(P) |->
                                  CHOOSE x \in P : Strategy!Cardinality({y \in P : y < x}) = i - 1],
                   events |-> events]
    BY <1>2
  <2>2. query.what = "features" /\ query.periods = SortOf(P) /\ query.events = events
    BY <2>1 DEF SortOf, Strategy!Cardinality, Cardinality
  <2>3. P \in SUBSET (1..Sessions) /\ P \in SUBSET Nat /\ IsFiniteSet(P)
    <3>1. P \in SUBSET (1..Sessions)
      BY StrategyDays
    <3>2. IsFiniteSet(P)
      BY <3>1, StrategyDays, FS_Subset
    <3>3. P \in SUBSET Nat
      BY <3>1, StrategyDays
    <3> QED
      BY <3>1, <3>2, <3>3
  <2>4. Ascends(P, query.periods)
    BY <2>2, <2>3, SortedAscends
  <2>5. DaySeq(query.periods) /\ Ascending(query.periods)
    <3> DEFINE f == query.periods
    <3>1. /\ Cardinality(P) \in Nat /\ DOMAIN f = 1..Cardinality(P) /\ \A i \in DOMAIN f : f[i] \in 1..Sessions
          /\ \A i, j \in DOMAIN f : i < j => f[i] < f[j]
      BY <2>3, <2>4 DEF Ascends
    <3>2. f = [i \in 1..Cardinality(P) |-> f[i]]
      BY <2>2 DEF SortOf
    <3> HIDE DEF f
    <3>3. f \in [1..Cardinality(P) -> 1..Sessions]
      BY <3>1, <3>2
    <3>4. DaySeq(f) /\ Ascending(f)
      BY <3>1, <3>3 DEF DaySeq, Ascending
    <3> QED
      BY <3>4 DEF f
  <2>6. DaySeq(query.events)
    <3>1. PICK n \in 0..3 : query.events \in [1..n -> Strategy!Days]
      BY <2>2 DEF Strategy!Sequences3
    <3>2. n \in Nat
      OBVIOUS
    <3> QED
      BY <3>1, <3>2, StrategyDays DEF DaySeq
  <2> QED
    BY <1>1, <2>2, <2>5, <2>6 DEF StrategyAsked, AskedFeatures
<1>3. CASE \E traded \in [Symbols -> Strategy!Trading], horizon \in Horizons :
             query = [what |-> "dataset", traded |-> traded, horizon |-> horizon]
  BY <1>1, <1>3, StrategyParts DEF StrategyAsked, AskedRows
<1>4. CASE \E n \in 1..Scored : \E predicted \in [1..n -> Strategy!Predictions] :
             query = [what |-> "scores", predicted |-> predicted]
  <2>0. PICK n \in 1..Scored : \E predicted \in [1..n -> Strategy!Predictions] :
          query = [what |-> "scores", predicted |-> predicted]
    BY <1>4
  <2>1. PICK predicted \in [1..n -> Strategy!Predictions] :
          query = [what |-> "scores", predicted |-> predicted]
    BY <2>0
  <2>2. n \in Nat \ {0} /\ predicted \in [1..n -> Nat]
    BY StrategyAssumption, StrategyParts
  <2> QED
    BY <1>1, <2>1, <2>2 DEF StrategyAsked, AskedScores
<1>5. CASE \E traded \in [Symbols -> Strategy!Trading], horizon \in Horizons,
              predicted \in [Symbols -> Strategy!Predictions] :
             query = [what |-> "backtest", traded |-> traded, horizon |-> horizon, predicted |-> predicted]
  BY <1>1, <1>5, StrategyParts DEF StrategyAsked, AskedBacktest, AskedRows
<1> QED
  BY <1>2, <1>3, <1>4, <1>5 DEF Strategy!Init, Strategy!Sorted

LEMMA StrategyAnswers ==
  ASSUME StrategyAsked, Strategy!Next
  PROVE  query' = query /\ page' = [is |-> StrategyAnswer]
BY DEF StrategyAsked, StrategyAnswer, Strategy!Next, Strategy!Answer

LEMMA SameQuestionSameAnswer ==
  ASSUME query' = query
  PROVE  (StrategyAsked <=> StrategyAsked') /\ StrategyAnswer' = StrategyAnswer
<1>1. StrategyAsked <=> StrategyAsked'
  BY DEF StrategyAsked, AskedFeatures, AskedRows, AskedScores, AskedBacktest
<1>2. Strategy!BuildFeatures' = Strategy!BuildFeatures
  BY Zenon DEF Strategy!BuildFeatures, Strategy!Feature
<1>3. Strategy!BuildDataset' = Strategy!BuildDataset
  <2>1. Strategy!Ready' = Strategy!Ready
    BY DEF Strategy!Ready, Strategy!Index
  <2>2. Strategy!ToScore' = Strategy!ToScore
    BY <2>1 DEF Strategy!ToScore
  <2>3. \A r, h : Strategy!HasAhead(r, h)' <=> Strategy!HasAhead(r, h)
    BY DEF Strategy!HasAhead, Strategy!PriceDays, Strategy!Index, Strategy!Sorted
  <2>4. \A h : Strategy!Labelled(h)' = Strategy!Labelled(h)
    BY <2>1, <2>3 DEF Strategy!Labelled, Strategy!Index
  <2>5. Strategy!Labelled(query.horizon)' = Strategy!Labelled(query.horizon)
    BY <2>4
  <2> QED
    BY <2>2, <2>5 DEF Strategy!BuildDataset
<1>4. Strategy!Score' = Strategy!Score
  BY SMT DEF Strategy!Score, Strategy!Best, Strategy!Sorted
<1>5. Strategy!BuildBacktest' = Strategy!BuildBacktest
  BY SMTT(60) DEF Strategy!BuildBacktest, Strategy!Tested, Strategy!Rebalance, Strategy!DatesOf, Strategy!Best,
             Strategy!Ahead, Strategy!HasAhead, Strategy!Ready, Strategy!Index, Strategy!PriceDays, Strategy!Sorted
<1> QED
  BY <1>1, <1>2, <1>3, <1>4, <1>5 DEF StrategyAnswer

LEMMA StrategyInvariant == ApiSpec => []StrategyInv
<1>1. ApiInit => StrategyInv
  BY StrategyStarts DEF ApiInit, StrategyInv
<1>2. StrategyInv /\ [ApiNext]_allVars => StrategyInv'
  <2> SUFFICES ASSUME StrategyInv, [ApiNext]_allVars, part' = "strategy" PROVE StrategyInv'
    BY DEF StrategyInv
  <2>1. CASE UNCHANGED allVars
    <3>1. part = "strategy" /\ query' = query /\ page' = page
      BY <2>1 DEF allVars
    <3> QED
      BY <3>1, SameQuestionSameAnswer DEF StrategyInv
  <2>2. CASE ApiNext
    <3>1. part = "strategy" /\ Strategy!Next
      BY <2>2 DEF ApiNext
    <3>2. StrategyAsked
      BY <3>1 DEF StrategyInv
    <3>3. query' = query /\ page' = [is |-> StrategyAnswer]
      BY <3>1, <3>2, StrategyAnswers
    <3> QED
      BY <3>2, <3>3, SameQuestionSameAnswer DEF StrategyInv
  <2> QED
    BY <2>1, <2>2
<1> QED
  BY <1>1, <1>2, PTL DEF ApiSpec

\* What train_smoke_butt_strategy and get_smoke_butt_backtest answer: features
\* know nothing of a later day, rows that validate come after those that train,
\* signals follow predictions, and buckets are even and never hold a stock twice.
THEOREM StrategyIsSound == ApiSpec => []StrategySound
<1>1. StrategyInv => StrategySound
  <2> SUFFICES ASSUME StrategyInv, part = "strategy" PROVE Strategy!StrategySound
    BY DEF StrategySound
  <2>1. StrategyAsked /\ (page = Nothing \/ page = [is |-> StrategyAnswer])
    BY DEF StrategyInv
  <2>2. CASE page = Nothing
    BY <2>2 DEF Strategy!StrategySound, Strategy!NothingAhead, Strategy!RowsApart, Strategy!SignalsInOrder,
                Strategy!BucketsFair, Strategy!Answered
  <2>3. CASE page = [is |-> StrategyAnswer]
    <3>1. Strategy!NothingAhead
      <4>1. CASE query.what = "features"
        <5>1. AskedFeatures /\ page = [is |-> Strategy!BuildFeatures]
          BY <2>1, <2>3, <4>1 DEF StrategyAsked, StrategyAnswer
        <5> QED
          BY <5>1, NothingIsAhead
      <4>2. CASE query.what # "features"
        BY <4>2 DEF Strategy!NothingAhead, Strategy!Answered
      <4> QED
        BY <4>1, <4>2
    <3>2. Strategy!RowsApart
      <4>1. CASE query.what = "dataset"
        <5>1. AskedRows /\ page = [is |-> Strategy!BuildDataset]
          BY <2>1, <2>3, <4>1 DEF StrategyAsked, StrategyAnswer
        <5> QED
          BY <5>1, RowsAreApart
      <4>2. CASE query.what # "dataset"
        BY <4>2 DEF Strategy!RowsApart, Strategy!Answered
      <4> QED
        BY <4>1, <4>2
    <3>3. Strategy!SignalsInOrder
      <4>1. CASE query.what = "scores"
        <5>1. AskedScores /\ page = [is |-> Strategy!Score]
          BY <2>1, <2>3, <4>1 DEF StrategyAsked, StrategyAnswer
        <5> QED
          BY <5>1, SignalsAreInOrder
      <4>2. CASE query.what # "scores"
        BY <4>2 DEF Strategy!SignalsInOrder, Strategy!Answered
      <4> QED
        BY <4>1, <4>2
    <3>4. Strategy!BucketsFair
      <4>1. CASE query.what = "backtest"
        <5>1. AskedBacktest /\ page = [is |-> Strategy!BuildBacktest]
          BY <2>1, <2>3, <4>1 DEF StrategyAsked, StrategyAnswer
        <5> QED
          BY <5>1, BucketsAreFair
      <4>2. CASE query.what # "backtest"
        BY <4>2 DEF Strategy!BucketsFair, Strategy!Answered
      <4> QED
        BY <4>1, <4>2
    <3> QED
      BY <3>1, <3>2, <3>3, <3>4 DEF Strategy!StrategySound
  <2> QED
    BY <2>1, <2>2, <2>3
<1> QED
  BY <1>1, StrategyInvariant, PTL

-----------------------------------------------------------------------------
(* Exposures: what is asked *)

LEMMA StressCounts == \A S : Stress!Cardinality(S) = Cardinality(S)
BY DEF Stress!Cardinality, Cardinality

LEMMA LatestOf ==
  ASSUME NEW T \in SUBSET Nat, IsFiniteSet(T), T # {}
  PROVE  Stress!Max(T) \in T /\ \A x \in T : x <= Stress!Max(T)
<1>1. \A x \in T : x \in Int
  OBVIOUS
<1>2. \E m \in T : \A x \in T : m >= x
  <2>1. PICK f : f = SortOf(T)
    OBVIOUS
  <2>2. Ascends(T, f)
    BY <2>1, SortedAscends
  <2>3. f[Cardinality(T)] \in T /\ \A x \in T : x <= f[Cardinality(T)]
    BY <2>2, LastOfDays
  <2>4. PICK m \in T : \A x \in T : x <= m
    BY <2>3
  <2>5. \A x \in T : m >= x
    BY <1>1, <2>4
  <2> QED
    BY <2>5
<1>3. Stress!Max(T) \in T /\ \A x \in T : Stress!Max(T) >= x
  BY <1>2 DEF Stress!Max
<1>4. PICK m \in T : m = Stress!Max(T) /\ \A x \in T : m >= x
  BY <1>3
<1>5. \A x \in T : x <= m
  BY <1>1, <1>4
<1> QED
  BY <1>4, <1>5

LEMMA EarliestOf ==
  ASSUME NEW T \in SUBSET Nat, IsFiniteSet(T), T # {}
  PROVE  Stress!Min(T) \in T /\ \A x \in T : Stress!Min(T) <= x
<1>1. \A x \in T : x \in Int
  OBVIOUS
<1>2. \E m \in T : \A x \in T : m <= x
  <2>1. PICK f : f = SortOf(T)
    OBVIOUS
  <2>2. Ascends(T, f)
    BY <2>1, SortedAscends
  <2>3. 1 \in DOMAIN f
    <3>1. Cardinality(T) \in Nat /\ Cardinality(T) # 0
      BY <2>2, FS_EmptySet DEF Ascends
    <3> QED
      BY <2>2, <3>1 DEF Ascends
  <2>4. PICK m \in T : m = f[1]
    BY <2>2, <2>3 DEF Ascends
  <2>5. ASSUME NEW x \in T PROVE m <= x
    <3>1. Place(x, T) \in DOMAIN f /\ f[Place(x, T)] = x
      BY <2>2 DEF Ascends
    <3>2. Place(x, T) = 1 \/ 1 < Place(x, T)
      BY <2>2, <3>1 DEF Ascends
    <3>3. x = m \/ m < x
      BY <2>2, <2>3, <2>4, <3>1, <3>2 DEF Ascends
    <3>4. x \in Int /\ m \in Int
      BY <1>1
    <3> QED
      BY <3>3, <3>4
  <2> QED
    BY <2>5
<1> QED
  BY <1>2 DEF Stress!Min

\* The rows that a table has are of a day and of a number of returns, and no two
\* of them are of one stock and day.
Table(kept) ==
  /\ Stress!Keyed(kept)
  /\ \A row \in kept : row.asOf \in Nat /\ row.sample \in Nat

AskedExposures ==
  /\ IsFiniteSet(Stress!Stocks)
  /\ \A s \in Stress!Stocks : query.traded[s] \in SUBSET Nat /\ IsFiniteSet(query.traded[s])
  /\ IsFiniteSet(query.index)
  /\ Table(query.table)

Gains(s) == Stress!Returns(query.traded[s])

LEMMA GainsAreDays ==
  ASSUME AskedExposures, NEW s \in Stress!Stocks
  PROVE  Gains(s) \in SUBSET Nat /\ IsFiniteSet(Gains(s))
<1>1. Gains(s) \in SUBSET query.traded[s]
  BY DEF Gains, Stress!Returns
<1>2. query.traded[s] \in SUBSET Nat /\ IsFiniteSet(query.traded[s])
  BY DEF AskedExposures
<1> QED
  BY <1>1, <1>2, FS_Subset

LEMMA NewestIs ==
  ASSUME AskedExposures, NEW s \in Stress!Priced
  PROVE  /\ s \in Stress!Stocks
         /\ Stress!Newest(s) \in Nat /\ Stress!Newest(s) \in Gains(s)
<1>1. s \in Stress!Stocks /\ Gains(s) # {}
  BY DEF Stress!Priced, Gains
<1>2. Gains(s) \in SUBSET Nat /\ IsFiniteSet(Gains(s))
  BY <1>1, GainsAreDays
<1>3. Stress!Newest(s) = Stress!Max(Gains(s))
  BY DEF Stress!Newest, Gains
<1>4. Stress!Newest(s) \in Gains(s)
  BY <1>1, <1>2, <1>3, LatestOf
<1> QED
  BY <1>1, <1>2, <1>4

\* The oldest of the days to which the stocks have returns.
Oldest == Stress!Min({Stress!Newest(t) : t \in Stress!Priced})

LEMMA OldestIs ==
  ASSUME AskedExposures, NEW s \in Stress!Priced
  PROVE  Oldest \in Nat /\ Oldest <= Stress!Newest(s)
<1> DEFINE T == {Stress!Newest(t) : t \in Stress!Priced}
<1>1. T \in SUBSET Nat
  BY NewestIs
<1>2. IsFiniteSet(T)
  <2>1. Stress!Priced \in SUBSET Stress!Stocks
    BY DEF Stress!Priced
  <2>2. IsFiniteSet(Stress!Priced)
    BY <2>1, FS_Subset DEF AskedExposures
  <2> DEFINE f == [t \in Stress!Priced |-> Stress!Newest(t)]
  <2>3. f \in Surjection(Stress!Priced, T)
    BY DEF Surjection
  <2> QED
    BY <2>2, <2>3, FS_Surjection, Zenon
<1>3. T # {} /\ Stress!Newest(s) \in T
  OBVIOUS
<1>4. Oldest = Stress!Min(T)
  BY DEF Oldest
<1> HIDE DEF T
<1>5. Oldest \in T /\ \A x \in T : Oldest <= x
  BY <1>1, <1>2, <1>3, <1>4, EarliestOf
<1> QED
  BY <1>1, <1>3, <1>5

-----------------------------------------------------------------------------
(* Exposures: the rows of a table *)

\* The rows of a table that a stock may use.
Usable(kept, s) ==
  {row \in kept : row.stock = s /\ row.asOf + StaleDays >= Oldest /\ row.asOf <= Stress!Newest(s)}

LEMMA CachedIs ==
  ASSUME NEW kept, NEW s
  PROVE  Stress!Cached(kept, s) =
           {row \in Usable(kept, s) : /\ \A other \in Usable(kept, s) : other.asOf <= row.asOf
                                      /\ row.sample >= MinSample}
BY DEF Stress!Cached, Usable, Oldest

LEMMA CachedOnce ==
  ASSUME NEW kept, Table(kept), NEW s, NEW r \in Stress!Cached(kept, s), NEW q \in Stress!Cached(kept, s)
  PROVE  r = q
<1>1. /\ r \in kept /\ q \in kept /\ r.stock = s /\ q.stock = s
      /\ r.asOf <= q.asOf /\ q.asOf <= r.asOf
  BY CachedIs DEF Usable
<1>2. r.asOf \in Nat /\ q.asOf \in Nat
  BY <1>1 DEF Table
<1>3. r.asOf = q.asOf
  BY <1>1, <1>2
<1> QED
  BY <1>1, <1>3 DEF Table, Stress!Keyed

Missing(kept) ==
  {s \in Stress!Priced : /\ Stress!Cached(kept, s) = {}
                         /\ Stress!Cardinality(Stress!Sample(s)) >= MinSample}
Found(kept) == UNION {Stress!Cached(kept, s) : s \in Stress!Priced}
Made(kept) == {Stress!Computed(s) : s \in Missing(kept)}
Remains(kept) == {row \in kept : \A new \in Made(kept) : ~ (new.stock = row.stock /\ new.asOf = row.asOf)}

LEMMA EstimateIs ==
  ASSUME NEW kept
  PROVE  /\ Stress!Estimate(kept).rows = Found(kept) \cup Made(kept)
         /\ Stress!Estimate(kept).made = Made(kept)
         /\ Stress!Estimate(kept).table = Remains(kept) \cup Made(kept)
BY DEF Stress!Estimate, Found, Made, Missing, Remains

LEMMA ComputedIs ==
  ASSUME NEW s
  PROVE  /\ Stress!Computed(s).stock = s /\ Stress!Computed(s).asOf = Stress!Newest(s)
         /\ Stress!Computed(s).sample = Stress!Cardinality(Stress!Sample(s))
BY DEF Stress!Computed

\* A row that is used is of a stock with returns, of no later day than its last,
\* and of enough returns.
LEMMA RowsFit ==
  ASSUME AskedExposures, NEW row \in Found(query.table) \cup Made(query.table)
  PROVE  /\ row.stock \in Stress!Priced
         /\ row.asOf <= Stress!Newest(row.stock) /\ row.sample >= MinSample
<1>1. CASE row \in Found(query.table)
  <2>1. PICK s \in Stress!Priced : row \in Stress!Cached(query.table, s)
    BY <1>1 DEF Found
  <2> QED
    BY <2>1, CachedIs DEF Usable
<1>2. CASE row \in Made(query.table)
  <2>1. PICK s \in Missing(query.table) : row = Stress!Computed(s)
    BY <1>2 DEF Made
  <2>2. s \in Stress!Priced /\ Stress!Cardinality(Stress!Sample(s)) >= MinSample
    BY <2>1 DEF Missing
  <2>3. Stress!Newest(s) \in Nat
    BY <2>2, NewestIs
  <2>4. row.stock = s /\ row.asOf = Stress!Newest(s) /\ row.sample = Stress!Cardinality(Stress!Sample(s))
    BY <2>1, ComputedIs
  <2> QED
    BY <2>2, <2>3, <2>4
<1> QED
  BY <1>1, <1>2

LEMMA RowsOnce ==
  ASSUME AskedExposures, NEW s,
         NEW r \in Found(query.table) \cup Made(query.table), r.stock = s,
         NEW q \in Found(query.table) \cup Made(query.table), q.stock = s
  PROVE  r = q
<1>1. ASSUME NEW row \in Found(query.table) \cup Made(query.table), row.stock = s
      PROVE  \/ row \in Stress!Cached(query.table, s)
             \/ row = Stress!Computed(s) /\ Stress!Cached(query.table, s) = {}
  <2>1. CASE row \in Found(query.table)
    <3>1. PICK t \in Stress!Priced : row \in Stress!Cached(query.table, t)
      BY <2>1 DEF Found
    <3>2. row.stock = t
      BY <3>1, CachedIs DEF Usable
    <3> QED
      BY <1>1, <3>1, <3>2
  <2>2. CASE row \in Made(query.table)
    <3>1. PICK t \in Missing(query.table) : row = Stress!Computed(t)
      BY <2>2 DEF Made
    <3>2. t = s
      BY <1>1, <3>1, ComputedIs
    <3> QED
      BY <3>1, <3>2 DEF Missing
  <2> QED
    BY <1>1, <2>1, <2>2
<1>2. \A row \in {r, q} :
        \/ row \in Stress!Cached(query.table, s)
        \/ row = Stress!Computed(s) /\ Stress!Cached(query.table, s) = {}
  BY <1>1
<1>3. Table(query.table)
  BY DEF AskedExposures
<1> QED
  BY <1>2, <1>3, CachedOnce

\* The second request finds what the first made, and for the other stocks what
\* the first found.
LEMMA FoundAgain ==
  ASSUME AskedExposures, NEW s \in Stress!Priced, NEW later, later = Remains(query.table) \cup Made(query.table)
  PROVE  Stress!Cached(later, s) =
           IF s \in Missing(query.table) THEN {Stress!Computed(s)} ELSE Stress!Cached(query.table, s)
<1>1. CASE s \in Missing(query.table)
  <2> DEFINE new == Stress!Computed(s)
  <2>1. /\ new.stock = s /\ new.asOf = Stress!Newest(s)
        /\ new.sample = Stress!Cardinality(Stress!Sample(s)) /\ new.sample >= MinSample
    BY <1>1, ComputedIs DEF Missing
  <2>2. Stress!Newest(s) \in Nat /\ Oldest \in Nat /\ Oldest <= Stress!Newest(s)
    BY NewestIs, OldestIs
  <2>3. new \in Made(query.table) /\ new \in later
    BY <1>1 DEF Made
  <2> HIDE DEF new
  <2>4. new \in Usable(later, s)
    <3>1. Stress!Newest(s) + StaleDays >= Oldest /\ Stress!Newest(s) <= Stress!Newest(s)
      BY <2>2, StressAssumption
    <3> QED
      BY <2>1, <2>3, <3>1 DEF Usable
  <2>5. \A other \in Usable(later, s) : other.asOf <= new.asOf
    BY <2>1 DEF Usable
  <2>6. new \in Stress!Cached(later, s)
    BY <2>1, <2>4, <2>5, CachedIs
  <2>7. ASSUME NEW row \in Stress!Cached(later, s) PROVE row = new
    <3>1. row \in later /\ row.stock = s /\ row.asOf <= Stress!Newest(s) /\ new.asOf <= row.asOf
      BY <2>4, CachedIs DEF Usable
    <3>2. CASE row \in Made(query.table)
      <4>1. PICK t \in Missing(query.table) : row = Stress!Computed(t)
        BY <3>2 DEF Made
      <4>2. t = s
        BY <3>1, <4>1, ComputedIs
      <4> QED
        BY <4>1, <4>2 DEF new
    <3>3. CASE row \in Remains(query.table)
      <4>1. row.asOf \in Nat
        BY <3>3 DEF Remains, AskedExposures, Table
      <4>2. row.asOf = new.asOf
        BY <2>1, <2>2, <3>1, <4>1
      <4> QED
        BY <2>1, <2>3, <3>1, <3>3, <4>2 DEF Remains
    <3> QED
      BY <3>1, <3>2, <3>3
  <2> QED
    BY <1>1, <2>6, <2>7 DEF new
<1>2. CASE s \notin Missing(query.table)
  <2>1. ASSUME NEW new \in Made(query.table) PROVE new.stock # s
    <3>1. PICK t \in Missing(query.table) : new = Stress!Computed(t)
      BY DEF Made
    <3> QED
      BY <1>2, <3>1, ComputedIs
  <2>2. Usable(later, s) = Usable(query.table, s)
    BY <2>1 DEF Usable, Remains
  <2> QED
    BY <1>2, <2>2, CachedIs
<1> QED
  BY <1>1, <1>2

LEMMA NoneMissing ==
  ASSUME AskedExposures, NEW later, later = Remains(query.table) \cup Made(query.table)
  PROVE  Made(later) = {} /\ Found(later) = Found(query.table) \cup Made(query.table)
<1> DEFINE old == query.table
<1>1. \A s \in Stress!Priced :
        Stress!Cached(later, s) = IF s \in Missing(old) THEN {Stress!Computed(s)} ELSE Stress!Cached(old, s)
  BY FoundAgain
<1>2. Missing(later) = {}
  BY <1>1 DEF Missing
<1>3. \A s \in Missing(old) : s \in Stress!Priced /\ Stress!Cached(old, s) = {}
  BY DEF Missing
<1> HIDE DEF old
<1>4. ASSUME NEW row \in Found(later) PROVE row \in Found(old) \cup Made(old)
  <2>1. PICK s \in Stress!Priced : row \in Stress!Cached(later, s)
    BY <1>4 DEF Found
  <2>2. CASE s \in Missing(old)
    BY <1>1, <2>1, <2>2 DEF Made
  <2>3. CASE s \notin Missing(old)
    BY <1>1, <2>1, <2>3 DEF Found
  <2> QED
    BY <2>2, <2>3
<1>5. ASSUME NEW row \in Found(old) PROVE row \in Found(later)
  <2>1. PICK s \in Stress!Priced : row \in Stress!Cached(old, s)
    BY <1>5 DEF Found
  <2>2. s \notin Missing(old)
    BY <1>3, <2>1
  <2> QED
    BY <1>1, <2>1, <2>2 DEF Found
<1>6. ASSUME NEW row \in Made(old) PROVE row \in Found(later)
  <2>1. PICK s \in Missing(old) : row = Stress!Computed(s)
    BY <1>6 DEF Made
  <2>2. s \in Stress!Priced /\ row \in Stress!Cached(later, s)
    BY <1>1, <1>3, <2>1
  <2> QED
    BY <2>2 DEF Found
<1> QED
  BY <1>2, <1>4, <1>5, <1>6 DEF Made, old

\* Without an index a stock's own days are in its market and in its sector.
LEMMA OwnDaysCount ==
  ASSUME AskedExposures, Stress!Cardinality(query.index) < MinIndex, NEW s \in Stress!Stocks
  PROVE  Stress!Sample(s) = Gains(s)
<1>1. Cardinality(query.index) \in Nat /\ Stress!Cardinality(query.index) = Cardinality(query.index)
  BY StressCounts, FS_CardinalityType DEF AskedExposures
<1>2. ~ (Stress!Cardinality(query.index) >= MinIndex)
  BY <1>1, StressAssumption
<1>3. Gains(s) \subseteq Stress!MarketDays(s)
  BY <1>2 DEF Stress!MarketDays, Stress!Union, Gains
<1>4. Gains(s) \subseteq Stress!SectorDays(s)
  BY DEF Stress!SectorDays, Stress!Union, Gains
<1> QED
  BY <1>3, <1>4 DEF Stress!Sample, Gains

LEMMA EnoughReturns ==
  ASSUME AskedExposures, Stress!Cardinality(query.index) < MinIndex,
         NEW s \in Stress!Stocks, Stress!Cardinality(Gains(s)) >= MinSample
  PROVE  \E row \in Found(query.table) \cup Made(query.table) : row.stock = s
<1>1. Gains(s) # {}
  <2>1. SUFFICES ASSUME Gains(s) = {} PROVE FALSE
    OBVIOUS
  <2>2. Stress!Cardinality(Gains(s)) = 0
    BY <2>1, StressCounts, FS_EmptySet
  <2> QED
    BY <2>2, StressAssumption
<1>2. s \in Stress!Priced
  BY <1>1 DEF Stress!Priced, Gains
<1>3. CASE Stress!Cached(query.table, s) # {}
  <2>1. PICK row : row \in Stress!Cached(query.table, s)
    BY <1>3
  <2>2. row \in Found(query.table)
    BY <1>2, <2>1 DEF Found
  <2>3. row.stock = s
    BY <2>1, CachedIs DEF Usable
  <2> QED
    BY <2>2, <2>3
<1>4. CASE Stress!Cached(query.table, s) = {}
  <2>1. s \in Missing(query.table)
    BY <1>2, <1>4, OwnDaysCount DEF Missing
  <2>2. Stress!Computed(s) \in Made(query.table)
    BY <2>1 DEF Made
  <2> QED
    BY <2>2, ComputedIs
<1> QED
  BY <1>3, <1>4

LEMMA AtMostOneCounts ==
  ASSUME NEW S, \A r, q \in S : r = q
  PROVE  Stress!Cardinality(S) <= 1
<1>1. Stress!Cardinality(S) = Cardinality(S)
  BY StressCounts
<1>2. CASE S = {}
  BY <1>1, <1>2, FS_EmptySet
<1>3. CASE S # {}
  <2>1. PICK r : r \in S
    BY <1>3
  <2>2. S = {r}
    BY <2>1
  <2>3. Cardinality(S) = 1
    BY <2>2, FS_Singleton
  <2> QED
    BY <1>1, <2>3
<1> QED
  BY <1>2, <1>3

LEMMA ExposuresAreSettled ==
  ASSUME AskedExposures, page = Stress!Estimate(query.table)
  PROVE  Stress!ExposuresSettle
<1> DEFINE old == query.table
<1>1. /\ page.rows = Found(old) \cup Made(old) /\ page.table = Remains(old) \cup Made(old)
  BY EstimateIs
<1>2. \A row \in page.rows : row.asOf <= Stress!Newest(row.stock) /\ row.sample >= MinSample
  BY <1>1, RowsFit
<1>3. ASSUME NEW s \in Stress!Stocks
      PROVE  Stress!Cardinality({row \in page.rows : row.stock = s}) <= 1
  <2>1. \A r, q \in {row \in page.rows : row.stock = s} : r = q
    BY <1>1, RowsOnce
  <2> QED
    BY <2>1, AtMostOneCounts
<1>4. Stress!Estimate(page.table).made = {} /\ Stress!Estimate(page.table).rows = page.rows
  BY <1>1, EstimateIs, NoneMissing
<1>5. ASSUME Stress!Cardinality(query.index) < MinIndex, NEW s \in Stress!Stocks,
             Stress!Cardinality(Stress!Returns(query.traded[s])) >= MinSample
      PROVE  \E row \in page.rows : row.stock = s
  BY <1>1, <1>5, EnoughReturns DEF Gains
<1> QED
  BY <1>2, <1>3, <1>4, <1>5 DEF Stress!ExposuresSettle, Stress!Stocks

-----------------------------------------------------------------------------
(* Exposures *)

\* What is asked stays, and the answer is computed from it.
StressInv ==
  part = "stress" /\ query.what = "exposures" =>
    AskedExposures /\ (page = Nothing \/ page = Stress!Estimate(query.table))

LEMMA TablesHold == \A kept \in Stress!Tables : \A row \in kept : row.asOf \in Nat /\ row.sample \in Nat
BY StressAssumption DEF Stress!Tables, Stress!Row

\* What a request for exposures asks.
Asks(traded, index, kept, second) ==
  [what |-> "exposures", traded |-> traded, index |-> index, table |-> kept,
   kinds |-> <<Stress!Kind("HK", "tech", Nothing), second>>]

LEMMA StressAsks ==
  ASSUME Stress!Init, query.what = "exposures"
  PROVE  /\ page = Nothing
         /\ \E traded \in [1..2 -> Calendars], index \in {{}, {2, 3}, {3}}, a, b \in Stress!Tables :
              \E second : Stress!Keyed(a \cup b) /\ query = Asks(traded, index, a \cup b, second)
<1>1. CASE \E n \in 0..2, list \in {"bought", "watched"} : \E targets \in [1..n -> Stress!Targets] :
             query = [what |-> "stress", list |-> list, targets |-> targets]
  BY <1>1
<1>2. ASSUME NEW rules, NEW exposed, NEW lambda, NEW correlation, NEW override,
             query = Stress!Custom(rules, exposed, lambda, correlation, override)
      PROVE  FALSE
  BY <1>2 DEF Stress!Custom
<1>3. CASE \E n \in 0..2, exposed \in [1..2 -> {Nothing, Stress!Exposure(1, 0), Stress!Exposure(-1, 300)}],
              lambda \in {Nothing, 0, 130}, correlation \in {-1, 1}, override \in Stress!Overrides :
             \E rules \in [1..n -> Stress!Rules] :
               query = Stress!Custom(rules, exposed, lambda, correlation, override)
  <2>1. \E rules, exposed, lambda, correlation, override :
          query = Stress!Custom(rules, exposed, lambda, correlation, override)
    BY <1>3
  <2> QED
    BY <1>2, <2>1, Zenon
<1>4. CASE \E rules \in [1..3 -> Stress!Rules], e \in {Nothing, Stress!Exposure(1, 0)} :
             query = Stress!Custom(rules, <<Nothing, e>>, Nothing, 1, Stress!NoOverride)
  BY <1>2, <1>4, Zenon
<1>5. CASE \E traded \in [1..2 -> Calendars], index \in {{}, {2, 3}, {3}}, a, b \in Stress!Tables,
              second \in {Stress!Kind("HK", "tech", Nothing), Stress!Kind("HK", "finance", Nothing)} :
             /\ Stress!Keyed(a \cup b)
             /\ query = [what |-> "exposures", traded |-> traded, index |-> index, table |-> a \cup b,
                         kinds |-> <<Stress!Kind("HK", "tech", Nothing), second>>]
  <2>1. \E traded \in [1..2 -> Calendars], index \in {{}, {2, 3}, {3}}, a, b \in Stress!Tables :
          \E second : Stress!Keyed(a \cup b) /\ query = Asks(traded, index, a \cup b, second)
    BY <1>5, Zenon DEF Asks
  <2> QED
    BY <2>1, Zenon DEF Stress!Init
<1> QED
  BY <1>1, <1>3, <1>4, <1>5, Zenon DEF Stress!Init

LEMMA StressStarts ==
  ASSUME Stress!Init, query.what = "exposures"
  PROVE  AskedExposures /\ page = Nothing
<1>1. PICK traded \in [1..2 -> Calendars], index \in {{}, {2, 3}, {3}}, a \in Stress!Tables, b \in Stress!Tables :
        \E second : Stress!Keyed(a \cup b) /\ query = Asks(traded, index, a \cup b, second)
  BY StressAsks
<1>2. /\ Stress!Keyed(a \cup b)
      /\ query.traded = traded /\ query.index = index /\ query.table = a \cup b
  BY <1>1 DEF Asks
<1>3. IsFiniteSet(Stress!Stocks)
  <2>1. Stress!Stocks = 1..2
    BY <1>2 DEF Stress!Stocks
  <2>2. 1 \in Int /\ 2 \in Int
    OBVIOUS
  <2> QED
    BY <2>1, <2>2, FS_Interval
<1>4. \A s \in Stress!Stocks : query.traded[s] \in SUBSET Nat /\ IsFiniteSet(query.traded[s])
  BY <1>2, StressAssumption DEF Stress!Stocks
<1>5. IsFiniteSet(query.index)
  <2>1. query.index \in SUBSET (2..3)
    BY <1>2
  <2>2. 2 \in Int /\ 3 \in Int
    OBVIOUS
  <2>3. IsFiniteSet(2..3)
    BY <2>2, FS_Interval
  <2> QED
    BY <2>1, <2>3, FS_Subset
<1>6. Table(query.table)
  BY <1>2, TablesHold DEF Table
<1> QED
  BY <1>3, <1>4, <1>5, <1>6, StressAsks DEF AskedExposures

LEMMA SameExposures ==
  ASSUME query' = query
  PROVE  /\ AskedExposures => AskedExposures'
         /\ Stress!Estimate(query.table)' = Stress!Estimate(query.table)
<1>1. AskedExposures => AskedExposures'
  BY DEF AskedExposures, Stress!Stocks, Table, Stress!Keyed
<1>2. Stress!Estimate(query.table)' = Stress!Estimate(query.table)
  <2>1. Stress!Priced' = Stress!Priced /\ \A s : Stress!Newest(s)' = Stress!Newest(s)
    BY DEF Stress!Priced, Stress!Stocks, Stress!Newest, Stress!Returns
  <2>2. \A s : Stress!Sample(s)' = Stress!Sample(s)
    BY DEF Stress!Sample, Stress!MarketDays, Stress!SectorDays, Stress!Union, Stress!Stocks, Stress!Returns
  <2>3. \A s : Stress!Computed(s)' = Stress!Computed(s)
    BY <2>1, <2>2 DEF Stress!Computed
  <2>4. \A s : Stress!Cached(query.table, s)' = Stress!Cached(query.table, s)
    BY <2>1 DEF Stress!Cached
  <2> DEFINE found == UNION {Stress!Cached(query.table, s) : s \in Stress!Priced}
             missing == {s \in Stress!Priced : /\ Stress!Cached(query.table, s) = {}
                                               /\ Stress!Cardinality(Stress!Sample(s)) >= MinSample}
             computed == {Stress!Computed(s) : s \in missing}
             kept == {row \in query.table : ~ \E new \in computed : new.stock = row.stock /\ new.asOf = row.asOf}
             estimate == [rows |-> found \cup computed, made |-> computed, table |-> kept \cup computed]
  <2>5. Stress!Estimate(query.table) = estimate /\ Stress!Estimate(query.table)' = estimate'
    BY DEF Stress!Estimate
  <2>6. found' = found /\ missing' = missing
    BY <2>1, <2>2, <2>4
  <2>7. computed' = computed
    BY <2>3, <2>6
  <2> HIDE DEF found, computed
  <2>8. kept' = kept
    BY <2>7
  <2> HIDE DEF kept
  <2> QED
    BY <2>5, <2>6, <2>7, <2>8
<1> QED
  BY <1>1, <1>2

LEMMA StressInvariant == ApiSpec => []StressInv
<1>1. ApiInit => StressInv
  BY StressStarts DEF ApiInit, StressInv
<1>2. StressInv /\ [ApiNext]_allVars => StressInv'
  <2> SUFFICES ASSUME StressInv, [ApiNext]_allVars, part' = "stress", query.what' = "exposures" PROVE StressInv'
    BY DEF StressInv
  <2>1. CASE UNCHANGED allVars
    <3>1. part = "stress" /\ query' = query /\ page' = page
      BY <2>1 DEF allVars
    <3> QED
      BY <3>1, SameExposures DEF StressInv
  <2>2. CASE ApiNext
    <3>1. part = "stress" /\ Stress!Next
      BY <2>2 DEF ApiNext
    <3>2. query' = query
      BY <3>1 DEF Stress!Next, Stress!Answer
    <3>3. page' = Stress!Estimate(query.table)
      BY <3>1, <3>2 DEF Stress!Next, Stress!Answer
    <3> QED
      BY <3>1, <3>2, <3>3, SameExposures DEF StressInv
  <2> QED
    BY <2>1, <2>2
<1> QED
  BY <1>1, <1>2, PTL DEF ApiSpec

\* What _estimate_latest_factor_exposures answers and stores: no exposures of a
\* day after a stock's own prices or of too few days, one row a stock, the same
\* ones without a regression at the next request, and a row for every stock with
\* enough returns where no index is to match.
THEOREM ExposuresDoSettle == ApiSpec => []ExposuresSettle
<1>1. StressInv => ExposuresSettle
  <2> SUFFICES ASSUME StressInv, part = "stress" PROVE Stress!ExposuresSettle
    BY DEF ExposuresSettle
  <2>1. CASE page # Nothing /\ query.what = "exposures"
    BY <2>1, ExposuresAreSettled DEF StressInv
  <2>2. CASE ~ (page # Nothing /\ query.what = "exposures")
    BY <2>2 DEF Stress!ExposuresSettle, Stress!Answered
  <2> QED
    BY <2>1, <2>2
<1> QED
  BY <1>1, StressInvariant, PTL

-----------------------------------------------------------------------------
(* Cigar butts: verdicts *)

\* A value of assets, or what stands for one that is not known.
Amount(v) == v \in Int \/ v = Nothing

\* What a low price says.
CheapSays(price, v, percent) ==
  /\ v \in Int /\ v > 0 /\ v # Nothing
  /\ 10000 * price < percent * v /\ 100 * price < v

LEMMA CheapIs ==
  ASSUME NEW v, Amount(v), NEW price \in Nat \ {0}, NEW percent \in {70, 80, 85}, Cigar!Cheap(price, v, percent)
  PROVE  CheapSays(price, v, percent)
<1>1. v # Nothing
  <2>1. Cigar!Given(Nothing) = 0
    BY DEF Cigar!Given
  <2> QED
    BY <2>1 DEF Cigar!Cheap
<1>2. v \in Int /\ Cigar!Given(v) = v
  BY <1>1 DEF Amount, Cigar!Given
<1>3. v > 0 /\ 10000 * price < percent * v
  BY <1>2 DEF Cigar!Cheap
<1>4. percent * v <= 100 * v
  BY <1>2, <1>3
<1>5. percent * v \in Int /\ 10000 * price < 100 * v
  BY <1>2, <1>3, <1>4
<1> QED
  BY <1>1, <1>2, <1>3, <1>5 DEF CheapSays

\* The values of a company's assets.
Valued(nav) == Amount(nav.t0) /\ Amount(nav.t1) /\ Amount(nav.t2)

LEMMA LevelIs ==
  ASSUME NEW nav, Valued(nav), NEW price \in Nat \ {0}, NEW level, level = Cigar!BestLevel(nav, price)
  PROVE  /\ level \in {"T0", "T1", "T2", "none"}
         /\ level # "none" =>
              /\ Cigar!NavOf(nav, level) \in Int /\ Cigar!NavOf(nav, level) > 0
              /\ Cigar!Discount(level) \in {70, 80, 85}
              /\ 10000 * price < Cigar!Discount(level) * Cigar!NavOf(nav, level)
              /\ 100 * price < Cigar!NavOf(nav, level)
         /\ level = "T0" <=> Cigar!Cheap(price, nav.t0, 85)
         /\ level = "none" <=> ~ (\/ Cigar!Cheap(price, nav.t0, 85) \/ Cigar!Cheap(price, nav.t1, 80)
                                  \/ Cigar!Cheap(price, nav.t2, 70))
<1>1. CASE Cigar!Cheap(price, nav.t0, 85)
  <2>1. level = "T0"
    BY <1>1 DEF Cigar!BestLevel
  <2>2. Cigar!NavOf(nav, level) = nav.t0 /\ Cigar!Discount(level) = 85
    BY <2>1 DEF Cigar!NavOf, Cigar!Discount
  <2>3. Amount(nav.t0) /\ Cigar!Cheap(price, nav.t0, 85)
    BY <1>1 DEF Valued
  <2>4. CheapSays(price, nav.t0, 85)
    BY <2>3, CheapIs, Zenon
  <2> QED
    BY <1>1, <2>1, <2>2, <2>4 DEF CheapSays
<1>2. CASE ~ Cigar!Cheap(price, nav.t0, 85) /\ Cigar!Cheap(price, nav.t1, 80)
  <2>1. level = "T1"
    BY <1>2 DEF Cigar!BestLevel
  <2>2. Cigar!NavOf(nav, level) = nav.t1 /\ Cigar!Discount(level) = 80
    BY <2>1 DEF Cigar!NavOf, Cigar!Discount
  <2>3. Amount(nav.t1) /\ Cigar!Cheap(price, nav.t1, 80)
    BY <1>2 DEF Valued
  <2>4. CheapSays(price, nav.t1, 80)
    BY <2>3, CheapIs, Zenon
  <2> QED
    BY <1>2, <2>1, <2>2, <2>4 DEF CheapSays
<1>3. CASE ~ Cigar!Cheap(price, nav.t0, 85) /\ ~ Cigar!Cheap(price, nav.t1, 80) /\ Cigar!Cheap(price, nav.t2, 70)
  <2>1. level = "T2"
    BY <1>3 DEF Cigar!BestLevel
  <2>2. Cigar!NavOf(nav, level) = nav.t2 /\ Cigar!Discount(level) = 70
    BY <2>1 DEF Cigar!NavOf, Cigar!Discount
  <2>3. Amount(nav.t2) /\ Cigar!Cheap(price, nav.t2, 70)
    BY <1>3 DEF Valued
  <2>4. CheapSays(price, nav.t2, 70)
    BY <2>3, CheapIs, Zenon
  <2> QED
    BY <1>3, <2>1, <2>2, <2>4 DEF CheapSays
<1>4. CASE ~ Cigar!Cheap(price, nav.t0, 85) /\ ~ Cigar!Cheap(price, nav.t1, 80) /\ ~ Cigar!Cheap(price, nav.t2, 70)
  <2>1. level = "none"
    BY <1>4 DEF Cigar!BestLevel
  <2> QED
    BY <1>4, <2>1
<1> QED
  BY <1>1, <1>2, <1>3, <1>4

\* What is analyzed of a company with shares at a price.
LEMMA AnalysisIs ==
  ASSUME NEW p, NEW price, NEW nav, Cigar!Given(p.shares) = 1, Cigar!Given(price) # 0, NEW A,
         A = Cigar!Analysis(p, price, nav)
  PROVE  LET level == Cigar!BestLevel(nav, price)
             ways == Cigar!WaysOf(p, price, nav)
             facts == Cigar!FactsOf(p, price)
             rating == Cigar!Rating(Cigar!Count(facts, "veto"), Cigar!Count(facts, "risk"))
         IN /\ A.level = level /\ A.ways = ways /\ A.facts = facts
            /\ A.adjusted = Cigar!Adjusted(rating, Cigar!Bonus(p, price, ways))
            /\ A.plan = Cigar!Plan(p, nav, level, facts, rating, ways)
            /\ A.flags = Cigar!Flags(p, nav, level, ways, facts)
<1>1. ~ (Cigar!Given(p.shares) <= 0)
  OBVIOUS
<1> QED
  BY <1>1 DEF Cigar!Analysis, Cigar!Weighed, Cigar!Rated, Cigar!Outcome

LEMMA FactsAre ==
  ASSUME NEW p, NEW price, NEW facts, facts = Cigar!FactsOf(p, price)
  PROVE  DOMAIN facts = 1..22
BY DEF Cigar!FactsOf, Cigar!FactsOfAssets, Cigar!FactsOfDebts, Cigar!FactsOfTrade, Cigar!FactsOfHoldings

LEMMA VetoesCount ==
  ASSUME NEW facts, DOMAIN facts = 1..22
  PROVE  /\ Cigar!Count(facts, "veto") \in Nat
         /\ Cigar!Count(facts, "veto") > 0 <=> "veto" \in Cigar!Range(facts)
<1> DEFINE S == {i \in DOMAIN facts : facts[i] = "veto"}
<1>1. Cigar!Count(facts, "veto") = Cardinality(S)
  BY DEF Cigar!Count, Cigar!Cardinality, Cardinality
<1>2. IsFiniteSet(S)
  <2>1. 1 \in Int /\ 22 \in Int
    OBVIOUS
  <2>2. IsFiniteSet(1..22)
    BY <2>1, FS_Interval
  <2>3. S \in SUBSET (1..22)
    OBVIOUS
  <2> QED
    BY <2>2, <2>3, FS_Subset
<1>3. Cardinality(S) \in Nat
  BY <1>2, FS_CardinalityType
<1>4. S = {} <=> ~ ("veto" \in Cigar!Range(facts))
  BY DEF Cigar!Range
<1> HIDE DEF S
<1>5. Cardinality(S) = 0 <=> S = {}
  BY <1>2, FS_EmptySet
<1> QED
  BY <1>1, <1>3, <1>4, <1>5

\* What is forbidden is rated D whatever the bonus, and nothing else is.
LEMMA VetoesAreFinal ==
  ASSUME NEW p, NEW price, NEW nav, Cigar!Given(p.shares) = 1, Cigar!Given(price) # 0, NEW A,
         A = Cigar!Analysis(p, price, nav)
  PROVE  IF "veto" \in Cigar!Range(A.facts)
         THEN A.adjusted = "D" /\ "fundamental" \in A.plan.stops /\ A.flags > 0
         ELSE A.adjusted # "D" /\ "fundamental" \notin A.plan.stops
<1> DEFINE level == Cigar!BestLevel(nav, price)
           ways == Cigar!WaysOf(p, price, nav)
           facts == Cigar!FactsOf(p, price)
           vetoes == Cigar!Count(facts, "veto")
           rating == Cigar!Rating(vetoes, Cigar!Count(facts, "risk"))
           bonus == Cigar!Bonus(p, price, ways)
<1>1. /\ A.facts = facts /\ A.adjusted = Cigar!Adjusted(rating, bonus)
      /\ A.plan = Cigar!Plan(p, nav, level, facts, rating, ways)
      /\ A.flags = Cigar!Flags(p, nav, level, ways, facts)
  BY AnalysisIs
<1>2. DOMAIN facts = 1..22
  BY FactsAre
<1> HIDE DEF level, ways, facts, bonus
<1>3. vetoes \in Nat /\ (vetoes > 0 <=> "veto" \in Cigar!Range(facts))
  BY <1>2, VetoesCount
<1>4. /\ vetoes > 0 => rating = "D"
      /\ ~ (vetoes > 0) => rating \in {"A", "B", "C"}
  BY DEF Cigar!Rating
<1>5. /\ rating = "D" => Cigar!Adjusted(rating, bonus) = "D"
      /\ rating \in {"A", "B", "C"} => Cigar!Adjusted(rating, bonus) \in {"A", "B", "B+", "C"}
  BY DEF Cigar!Adjusted
<1> HIDE DEF vetoes, rating
<1>6. "fundamental" \in A.plan.stops <=> rating = "D" \/ facts[17] = "veto" \/ facts[18] = "veto"
  BY <1>1 DEF Cigar!Plan, Cigar!Stops
<1>7. (facts[17] = "veto" \/ facts[18] = "veto") => "veto" \in Cigar!Range(facts)
  BY <1>2 DEF Cigar!Range
<1>8. vetoes > 0 => A.flags > 0
  <2> DEFINE flagged == <<
        Cigar!Given(p.profit) < 0, Cigar!Given(p.operating) < 0,
        Cigar!Known(p.liabilities) /\ Cigar!Given(p.equity) > 0 /\ Cigar!Above(p.liabilities, p.equity, 150),
        Cigar!Known(p.currentAssets) /\ Cigar!Given(p.currentLiabilities) > 0
        /\ p.currentAssets < p.currentLiabilities,
        Cigar!Known(p.cash) /\ Cigar!Known(p.shortDebt) /\ Cigar!Given(p.cash) < Cigar!Given(p.shortDebt),
        Cigar!Restricted(p) # "pass", Cigar!Burns(p, nav, level), ways.capped, ways.idle>>
         S == {i \in DOMAIN flagged : flagged[i]}
  <2>1. A.flags = Cardinality(S) + vetoes
    BY <1>1 DEF Cigar!Flags, Cigar!Cardinality, Cardinality, vetoes
  <2>2. IsFiniteSet(S)
    <3>1. S \in SUBSET (1..9)
      OBVIOUS
    <3>2. 1 \in Int /\ 9 \in Int
      OBVIOUS
    <3>3. IsFiniteSet(1..9)
      BY <3>2, FS_Interval
    <3> QED
      BY <3>1, <3>3, FS_Subset
  <2> HIDE DEF S
  <2>3. Cardinality(S) \in Nat
    BY <2>2, FS_CardinalityType
  <2> QED
    BY <1>3, <2>1, <2>3
<1>9. CASE vetoes > 0
  BY <1>1, <1>3, <1>4, <1>5, <1>6, <1>8, <1>9
<1>10. CASE ~ (vetoes > 0)
  BY <1>1, <1>3, <1>4, <1>5, <1>6, <1>7, <1>10
<1> QED
  BY <1>9, <1>10

LEMMA EventKinds ==
  ASSUME NEW a, NEW b, NEW c, NEW d, NEW kind0, kind0 = Cigar!EventKind(a, b, c, d)
  PROVE  IF a \/ b \/ c \/ d
         THEN kind0 \in {"C1a", "C1b", "C1c", "C2", "C1a+C1b", "C1a+C2", "C1b+C2"}
         ELSE kind0 = "none"
BY DEF Cigar!EventKind

\* The position that is taken follows the level, or else a way to the money.
LEMMA PositionIs ==
  ASSUME NEW level \in {"T0", "T1", "T2", "none"}, NEW p, NEW price, NEW nav, NEW ways,
         ways = Cigar!WaysOf(p, price, nav)
  PROVE  /\ Cigar!Position(level, ways) \in 0..100
         /\ Cigar!Position(level, ways) > 0 <=> (level # "none" \/ ~ways.capped)
         /\ ways.capped \in BOOLEAN
<1> DEFINE a == Cigar!HighDividend(p, price)
           b == Cigar!Arbitrage(p, price, Cigar!Visible(p))
           c == Cigar!Disposal(p, price, nav)
           d == Cigar!Buyback(p, price)
           e == Cigar!Exit(p, price, nav)
           f == Cigar!Policy(p, price, nav)
<1>1. /\ ways.c = Cigar!EventKind(c, d, e, f)
      /\ ways.capped = ~ (a \/ b \/ c \/ d \/ e \/ f)
  BY DEF Cigar!WaysOf, Cigar!Ways
<1> HIDE DEF a, b, c, d, e, f
<1>2. IF c \/ d \/ e \/ f
      THEN ways.c \in {"C1a", "C1b", "C1c", "C2", "C1a+C1b", "C1a+C2", "C1b+C2"}
      ELSE ways.c = "none"
  BY <1>1, EventKinds
<1>3. ways.capped \in BOOLEAN /\ (ways.capped => ways.c = "none")
  BY <1>1, <1>2
<1>4. /\ level = "T0" => Cigar!CapOf(level, ways.c) = 100
      /\ level = "T1" => Cigar!CapOf(level, ways.c) = 80
      /\ level = "T2" => Cigar!CapOf(level, ways.c) = 50
      /\ level = "none" => Cigar!CapOf(level, ways.c) \in {0, 50, 80}
      /\ level = "none" /\ ways.c = "none" => Cigar!CapOf(level, ways.c) = 0
  BY DEF Cigar!CapOf
<1>5. Cigar!Position(level, ways) =
        IF Cigar!CapOf(level, ways.c) = 0 /\ ~ways.capped THEN 30 ELSE Cigar!CapOf(level, ways.c)
  BY DEF Cigar!Position
<1> QED
  BY <1>3, <1>4, <1>5

\* A position is backed, whatever the company.
LEMMA PositionIsBacked ==
  ASSUME NEW p, NEW price \in Nat \ {0}, NEW nav, Valued(nav), Cigar!Given(p.shares) = 1, Cigar!Given(price) # 0,
         NEW A, A = Cigar!Analysis(p, price, nav)
  PROVE  /\ (A.plan.position > 0) = (A.level # "none" \/ ~A.ways.capped)
         /\ (A.plan.target > 0) = Cigar!Known(A.plan.buy) /\ A.plan.target <= A.plan.position
         /\ Cigar!Known(A.plan.buy) => 10000 * price < A.plan.buy /\ A.plan.hardStop < 100 * A.plan.buy
         /\ A.plan.position <= Cigar!CapOf("T0", "none")
         /\ A.level = "T0" <=> Cigar!Cheap(price, nav.t0, 85)
         /\ A.level # "none" => 100 * price < Cigar!NavOf(nav, A.level)
<1> DEFINE level == Cigar!BestLevel(nav, price)
           ways == Cigar!WaysOf(p, price, nav)
           facts == Cigar!FactsOf(p, price)
           rating == Cigar!Rating(Cigar!Count(facts, "veto"), Cigar!Count(facts, "risk"))
           position == Cigar!Position(level, ways)
<1>1. A.level = level /\ A.ways = ways /\ A.plan = Cigar!Plan(p, nav, level, facts, rating, ways)
  BY AnalysisIs
<1>2. /\ level \in {"T0", "T1", "T2", "none"}
      /\ level # "none" =>
           /\ Cigar!NavOf(nav, level) \in Int /\ Cigar!NavOf(nav, level) > 0
           /\ Cigar!Discount(level) \in {70, 80, 85}
           /\ 10000 * price < Cigar!Discount(level) * Cigar!NavOf(nav, level)
           /\ 100 * price < Cigar!NavOf(nav, level)
      /\ level = "T0" <=> Cigar!Cheap(price, nav.t0, 85)
  BY LevelIs
<1>3. /\ position \in 0..100 /\ ways.capped \in BOOLEAN
      /\ position > 0 <=> (level # "none" \/ ~ways.capped)
  BY <1>2, PositionIs
<1> HIDE DEF level, ways, facts, rating, position
<1>4. /\ A.plan.position = position
      /\ A.plan.target = IF level = "none" THEN 0 ELSE Cigar!Lesser(position, Cigar!HalfKelly)
      /\ A.plan.buy = IF level = "none" THEN Nothing ELSE Cigar!Discount(level) * Cigar!NavOf(nav, level)
      /\ A.plan.hardStop = IF level = "none" THEN Nothing ELSE 90 * Cigar!Discount(level) * Cigar!NavOf(nav, level)
  BY <1>1 DEF Cigar!Plan, position
<1>5. Cigar!HalfKelly = 255
  BY DEF Cigar!HalfKelly
<1>6. Cigar!CapOf("T0", "none") = 100
  BY DEF Cigar!CapOf
<1>7. CASE level = "none"
  <2>1. A.plan.target = 0 /\ A.plan.buy = Nothing /\ A.plan.position = position
    BY <1>4, <1>7
  <2>2. ~ Cigar!Known(A.plan.buy)
    BY <2>1 DEF Cigar!Known
  <2>3. (A.plan.position > 0) = (A.level # "none" \/ ~A.ways.capped)
    BY <1>1, <1>3, <2>1
  <2>4. (A.plan.target > 0) = Cigar!Known(A.plan.buy) /\ A.plan.target <= A.plan.position
    BY <1>3, <2>1, <2>2 DEF Cigar!Known
  <2> QED
    BY <1>1, <1>2, <1>3, <1>6, <1>7, <2>1, <2>2, <2>3, <2>4
<1>8. CASE level # "none"
  <2>1. PICK n \in Int : n = Cigar!NavOf(nav, level) /\ n > 0
    BY <1>2, <1>8
  <2>2. PICK pc \in {70, 80, 85} : pc = Cigar!Discount(level)
    BY <1>2, <1>8
  <2>3. A.plan.buy = pc * n /\ A.plan.hardStop = 90 * pc * n /\ 10000 * price < pc * n
    BY <1>2, <1>4, <1>8, <2>1, <2>2
  <2>4. pc * n \in Int /\ pc * n > 0 /\ 90 * pc * n < 100 * (pc * n)
    BY <2>1, <2>2
  <2>5. Cigar!Known(A.plan.buy)
    BY <2>3, <2>4, NothingAssumption DEF Cigar!Known
  <2>6. position > 0 /\ position <= 100
    BY <1>3, <1>8
  <2>7. A.plan.target = position /\ A.plan.position = position
    BY <1>3, <1>4, <1>5, <1>8, <2>6 DEF Cigar!Lesser
  <2>8. (A.plan.position > 0) = (A.level # "none" \/ ~A.ways.capped)
    BY <1>1, <1>8, <2>6, <2>7
  <2>9. (A.plan.target > 0) = Cigar!Known(A.plan.buy) /\ A.plan.target <= A.plan.position
    BY <1>3, <2>5, <2>6, <2>7 DEF Cigar!Known
  <2>10. A.plan.hardStop < 100 * A.plan.buy
    BY <2>3, <2>4
  <2> QED
    BY <1>1, <1>2, <1>6, <1>8, <2>3, <2>6, <2>7, <2>8, <2>9, <2>10
<1> QED
  BY <1>7, <1>8

-----------------------------------------------------------------------------
(* Cigar butts: what is asked *)

\* What the values of assets are made of.
Fields == {"cash", "deposits", "contract", "liabilities", "shortDebt", "longDebt",
           "receivables", "inventory", "otherCurrent"}
Company(p) ==
  /\ Fields \cup {"shares"} \subseteq DOMAIN p
  /\ p["shares"] \in {1, Nothing}
  /\ \A field \in Fields : Amount(p[field])

LEMMA GivenIs == ASSUME NEW v, Amount(v) PROVE Cigar!Given(v) \in Int
BY DEF Amount, Cigar!Given

LEMMA FiguresAre ==
  ASSUME NEW p, Company(p)
  PROVE  /\ p.shares \in {1, Nothing}
         /\ Amount(p.cash) /\ Amount(p.deposits) /\ Amount(p.contract) /\ Amount(p.liabilities)
         /\ Amount(p.shortDebt) /\ Amount(p.longDebt)
         /\ Amount(p.receivables) /\ Amount(p.inventory) /\ Amount(p.otherCurrent)
BY DEF Company, Fields

LEMMA NavsAre ==
  ASSUME NEW p, Company(p), NEW nav, nav = Cigar!Navs(p)
  PROVE  /\ Valued(nav)
         /\ Cigar!Debt(p) \in Int
         /\ nav.t0 # Nothing => /\ nav.t0 \in Int /\ p.liabilities \in Int /\ nav.t1 \in Int
                                /\ Cigar!Debt(p) <= p.liabilities => nav.t0 <= nav.t1
<1> DEFINE pool == Cigar!CashPool(p)
           debt == Cigar!Debt(p)
<1>1. /\ Cigar!Given(p.deposits) \in Int /\ Cigar!Given(p.contract) \in Int
      /\ Cigar!Given(p.receivables) \in Int /\ Cigar!Given(p.inventory) \in Int
         /\ Cigar!Given(p.otherCurrent) \in Int
  BY FiguresAre, GivenIs
<1>2. debt \in Int
  <2>1. Cigar!Given(p.shortDebt) \in Int /\ Cigar!Given(p.longDebt) \in Int
    BY FiguresAre, GivenIs
  <2> QED
    BY <2>1 DEF Cigar!Debt
<1>3. Amount(pool)
  <2>1. Amount(p.cash)
    BY FiguresAre
  <2>2. CASE p.cash = Nothing
    BY <2>2 DEF Cigar!CashPool, Cigar!Known, Amount
  <2>3. CASE p.cash # Nothing
    BY <1>1, <2>1, <2>3 DEF Cigar!CashPool, Cigar!Known, Amount
  <2> QED
    BY <2>2, <2>3
<1>4. Amount(p.liabilities)
  BY FiguresAre
<1>5. /\ nav.t0 = IF pool # Nothing /\ p.liabilities # Nothing
                  THEN 100 * (pool + Cigar!Given(p.contract) - p.liabilities) ELSE Nothing
      /\ nav.t1 = IF pool # Nothing /\ (p.shortDebt # Nothing \/ p.longDebt # Nothing \/ p.liabilities # Nothing)
                  THEN 100 * (pool + Cigar!Given(p.contract) - debt) ELSE Nothing
  BY DEF Cigar!Navs, Cigar!Nav0, Cigar!Nav1, Cigar!Known
<1>6. nav.t2 = IF p.liabilities # Nothing
               THEN 100 * (Cigar!Given(pool) - p.liabilities - Cigar!Given(p.contract))
                      + 85 * Cigar!Given(p.receivables) + 60 * Cigar!Given(p.inventory)
                      + 50 * Cigar!Given(p.otherCurrent)
               ELSE Nothing
  BY DEF Cigar!Navs, Cigar!Nav2, Cigar!Known
<1>7. Cigar!Given(pool) \in Int
  BY <1>3, GivenIs
<1> HIDE DEF pool, debt
<1>8. Amount(nav.t0)
  BY <1>1, <1>3, <1>4, <1>5 DEF Amount
<1>9. Amount(nav.t1)
  BY <1>1, <1>2, <1>3, <1>5 DEF Amount
<1>10. Amount(nav.t2)
  BY <1>1, <1>4, <1>6, <1>7 DEF Amount
<1>11. ASSUME nav.t0 # Nothing
       PROVE  /\ nav.t0 \in Int /\ p.liabilities \in Int /\ nav.t1 \in Int
              /\ debt <= p.liabilities => nav.t0 <= nav.t1
  <2>1. pool # Nothing /\ p.liabilities # Nothing
    BY <1>5, <1>11
  <2>2. pool \in Int /\ p.liabilities \in Int
    BY <1>3, <1>4, <2>1 DEF Amount
  <2>3. /\ nav.t0 = 100 * (pool + Cigar!Given(p.contract) - p.liabilities)
        /\ nav.t1 = 100 * (pool + Cigar!Given(p.contract) - debt)
    BY <1>5, <2>1
  <2> QED
    BY <1>1, <1>2, <2>2, <2>3
<1> QED
  BY <1>2, <1>8, <1>9, <1>10, <1>11 DEF Valued, debt

\* A company of which only what the database has is known.
Unread(p) ==
  /\ p.cash = Nothing /\ p.liabilities = Nothing /\ p.shortDebt = Nothing /\ p.longDebt = Nothing
  /\ p.deposits = Nothing /\ p.equity = Nothing /\ p.holdings = <<>> /\ p.events = <<>>

LEMMA UnreadGetsNone ==
  ASSUME NEW p, Unread(p), NEW price \in Nat \ {0}, Cigar!Given(p.shares) = 1, Cigar!Given(price) # 0,
         NEW A, A = Cigar!Analysis(p, price, Cigar!Navs(p))
  PROVE  A.plan.position = 0
<1> DEFINE nav == Cigar!Navs(p)
           level == Cigar!BestLevel(nav, price)
           ways == Cigar!WaysOf(p, price, nav)
           facts == Cigar!FactsOf(p, price)
           rating == Cigar!Rating(Cigar!Count(facts, "veto"), Cigar!Count(facts, "risk"))
<1>1. nav.t0 = Nothing /\ nav.t1 = Nothing /\ nav.t2 = Nothing
  BY DEF Unread, Cigar!Navs, Cigar!Nav0, Cigar!Nav1, Cigar!Nav2, Cigar!CashPool, Cigar!Known
<1>2. Valued(nav)
  BY <1>1 DEF Valued, Amount
<1>3. Cigar!Given(Nothing) = 0
  BY DEF Cigar!Given
<1>4. A.plan = Cigar!Plan(p, nav, level, facts, rating, ways)
  BY AnalysisIs
<1>5. level = "none"
  <2>1. ~ Cigar!Cheap(price, nav.t0, 85) /\ ~ Cigar!Cheap(price, nav.t1, 80) /\ ~ Cigar!Cheap(price, nav.t2, 70)
    BY <1>1, <1>3 DEF Cigar!Cheap
  <2> QED
    BY <2>1 DEF Cigar!BestLevel
<1>6. ways.capped
  <2> DEFINE a == Cigar!HighDividend(p, price)
             b == Cigar!Arbitrage(p, price, Cigar!Visible(p))
             c == Cigar!Disposal(p, price, nav)
             d == Cigar!Buyback(p, price)
             e == Cigar!Exit(p, price, nav)
             f == Cigar!Policy(p, price, nav)
  <2>1. ~ a
    BY <1>3 DEF Cigar!HighDividend, Unread
  <2>2. ~ b
    BY DEF Cigar!Arbitrage, Unread
  <2>3. ~ c
    BY <1>1 DEF Cigar!Disposal, Cigar!Known
  <2>4. ~ d
    <3>1. Cigar!NetCash(p) = 0
      BY <1>3 DEF Cigar!NetCash, Cigar!Debt, Unread
    <3> QED
      BY <3>1 DEF Cigar!Buyback
  <2>5. ~ e
    BY DEF Cigar!Exit, Cigar!Range, Unread
  <2>6. ~ f
    BY <1>1, <1>3 DEF Cigar!Policy
  <2>7. ways.capped = ~ (a \/ b \/ c \/ d \/ e \/ f)
    BY DEF Cigar!WaysOf, Cigar!Ways
  <2> HIDE DEF a, b, c, d, e, f, ways
  <2> QED
    BY <2>1, <2>2, <2>3, <2>4, <2>5, <2>6, <2>7
<1> HIDE DEF nav, facts, rating
<1>7. Cigar!Position(level, ways) = 0
  BY <1>2, <1>5, <1>6, PositionIs
<1> QED
  BY <1>4, <1>7 DEF Cigar!Plan

LEMMA BlankIs == Company(Cigar!Blank) /\ Unread(Cigar!Blank)
BY DEF Company, Fields, Unread, Amount, Cigar!Blank

LEMMA FirmIs == Company(Cigar!Firm) /\ Company(Cigar!Suspect)
<1>1. Company(Cigar!Firm)
  <2>1. DOMAIN Cigar!Firm = DOMAIN Cigar!Blank /\ Cigar!Firm["shares"] = 1
    BY BlankIs DEF Company, Fields, Cigar!Firm
  <2>2. /\ Cigar!Firm["cash"] = 20 /\ Cigar!Firm["liabilities"] = 8 /\ Cigar!Firm["shortDebt"] = 2
        /\ Cigar!Firm["receivables"] = 4 /\ Cigar!Firm["inventory"] = 4
    BY BlankIs DEF Company, Fields, Cigar!Firm
  <2>3. \A field \in {"deposits", "contract", "longDebt", "otherCurrent"} :
          Cigar!Firm[field] = Cigar!Blank[field]
    BY BlankIs DEF Company, Fields, Cigar!Firm
  <2> QED
    BY <2>1, <2>2, <2>3, BlankIs DEF Company, Fields, Amount
<1> QED
  BY <1>1 DEF Company, Fields, Cigar!Suspect

\* A figure that is changed, of the values of assets or not.
LEMMA ChangedIs ==
  ASSUME NEW p, Company(p), NEW field, field # "shares", NEW v, field \in Fields => Amount(v)
  PROVE  Company([p EXCEPT ![field] = v])
BY DEF Company, Fields

LEMMA TroubledIs ==
  ASSUME NEW p, Company(p), NEW trouble \in Cigar!Troubles
  PROVE  Company(Cigar!Troubled(p, trouble))
<1>1. \/ trouble[1] = "liabilities" /\ trouble[2] = 30
      \/ trouble[1] \in {"impaired", "pledged", "goodwill", "overdue", "dio", "offBalance", "commitments",
                         "fraud", "audit", "restricted", "nonCurrent", "subsidy", "equity"}
  BY DEF Cigar!Troubles
<1>2. trouble[1] # "shares" /\ (trouble[1] \in Fields => trouble[2] = 30)
  BY <1>1 DEF Fields
<1> QED
  BY <1>2, ChangedIs DEF Cigar!Troubled, Amount

LEMMA ReadIs ==
  ASSUME NEW market0, NEW statements, NEW snapshots
  PROVE  LET p == Cigar!FromDatabase(market0, statements, snapshots) IN Company(p) /\ Unread(p)
<1>1. Company(Cigar!Blank) /\ Unread(Cigar!Blank)
  BY BlankIs
<1>2. \A a, b, c : LET p == [Cigar!Blank EXCEPT !.revenue = a, !.profit = b, !.operating = c]
                   IN Company(p) /\ Unread(p)
  BY <1>1 DEF Company, Fields, Unread
<1>3. ASSUME NEW p, Company(p), Unread(p), NEW a, NEW b \in {1, Nothing}, NEW c
      PROVE  LET q == [p EXCEPT !.market = a, !.shares = b, !.yield = c]
                 r == [p EXCEPT !.market = a]
             IN Company(q) /\ Unread(q) /\ Company(r) /\ Unread(r)
  BY <1>3 DEF Company, Fields, Unread
<1> QED
  BY <1>1, <1>2, <1>3 DEF Cigar!FromDatabase

CigarAsked ==
  /\ Company(Cigar!Panel)
  /\ query.what = "symbol" => Unread(Cigar!Panel)
  /\ Cigar!Price \in Nat \cup {Nothing}

\* A panel that is asked about.
LEMMA PanelIs ==
  ASSUME NEW p, Company(p), NEW price0, price0 \in Nat \cup {Nothing}, Cigar!Ask(p, price0)
  PROVE  CigarAsked
<1>1. query.what = "panel" /\ query.panel = p /\ query.price = price0
  BY DEF Cigar!Ask
<1>2. Cigar!Panel = p /\ Cigar!Price = price0
  BY <1>1 DEF Cigar!Panel, Cigar!Price
<1> QED
  BY <1>1, <1>2 DEF CigarAsked

LEMMA CigarStarts == ASSUME Cigar!Init PROVE CigarAsked /\ page = Nothing
<1>0. Prices \subseteq Nat /\ Company(Cigar!Firm) /\ Company(Cigar!Suspect)
  BY AmountsAssumption, FirmIs
<1>1. ASSUME NEW cash \in Cash \cup {Nothing}, NEW liabilities \in Owed \cup {Nothing},
             NEW debt \in {Nothing, 4}, NEW contract \in {Nothing, 3}, NEW equity, NEW free,
             NEW price \in Prices \cup {Nothing},
             Cigar!Ask([Cigar!Firm EXCEPT !.cash = cash, !.liabilities = liabilities, !.shortDebt = debt,
                                          !.contract = contract, !.equity = equity, !.free = free], price)
      PROVE  CigarAsked
  <2> DEFINE p == [Cigar!Firm EXCEPT !.cash = cash, !.liabilities = liabilities, !.shortDebt = debt,
                                     !.contract = contract, !.equity = equity, !.free = free]
  <2>1. Amount(cash) /\ Amount(liabilities) /\ Amount(debt) /\ Amount(contract)
    BY AmountsAssumption DEF Amount
  <2>2. Company(p)
    BY <1>0, <2>1 DEF Company, Fields
  <2>3. Cigar!Ask(p, price)
    BY <1>1
  <2> HIDE DEF p
  <2> QED
    BY <1>0, <2>2, <2>3, PanelIs
<1>2. ASSUME NEW one \in Cigar!Troubles, NEW other \in Cigar!Troubles, NEW owner, NEW stake, NEW price \in Prices,
             Cigar!Ask([Cigar!Troubled(Cigar!Troubled(Cigar!Firm, one), other)
                          EXCEPT !.owner = owner, !.stake = stake], price)
      PROVE  CigarAsked
  <2>1. PICK f : f = Cigar!Troubled(Cigar!Troubled(Cigar!Firm, one), other)
    OBVIOUS
  <2>2. Company(f)
    BY <1>0, <2>1, TroubledIs
  <2>3. Company([f EXCEPT !.owner = owner, !.stake = stake])
    BY <2>2 DEF Company, Fields
  <2> QED
    BY <1>0, <1>2, <2>1, <2>3, PanelIs
<1>3. ASSUME NEW events, NEW authorized, NEW price \in {5, 9},
             Cigar!Ask([Cigar!Firm EXCEPT !.events = events, !.authorized = authorized, !.executed = authorized], price)
      PROVE  CigarAsked
  <2>1. Company([Cigar!Firm EXCEPT !.events = events, !.authorized = authorized, !.executed = authorized])
    BY <1>0 DEF Company, Fields
  <2> QED
    BY <1>3, <2>1, PanelIs
<1>4. ASSUME NEW history, NEW years, NEW where,
             Cigar!Ask([Cigar!Firm EXCEPT !.history = history, !.years = years, !.yield = 4, !.payout = 50,
                                          !.dividend = 2, !.market = where], 15)
      PROVE  CigarAsked
  <2>1. Company([Cigar!Firm EXCEPT !.history = history, !.years = years, !.yield = 4, !.payout = 50,
                                   !.dividend = 2, !.market = where])
    BY <1>0 DEF Company, Fields
  <2> QED
    BY <1>4, <2>1, PanelIs
<1>5. ASSUME NEW statements, NEW quote \in Prices \cup {Nothing}, NEW snapshots,
             query = [what |-> "symbol", statements |-> statements, snapshots |-> snapshots, quote |-> quote]
      PROVE  CigarAsked
  <2>1. query.what = "symbol" /\ query.quote = quote
    BY <1>5
  <2>2. Cigar!Panel = Cigar!FromDatabase("A", statements, snapshots) /\ Cigar!Price = quote
    BY <1>5, <2>1 DEF Cigar!Panel, Cigar!Price
  <2>3. Company(Cigar!Panel) /\ Unread(Cigar!Panel)
    BY <2>2, ReadIs
  <2> QED
    BY <1>0, <2>2, <2>3 DEF CigarAsked
<1>6. page = Nothing
  BY DEF Cigar!Init
<1>7. CASE Cigar!OfFigures
  BY <1>1, <1>6, <1>7, ZenonT(40) DEF Cigar!OfFigures
<1>8. CASE Cigar!OfTroubles
  BY <1>2, <1>6, <1>8, Zenon DEF Cigar!OfTroubles
<1>9. CASE Cigar!OfEvents
  BY <1>3, <1>6, <1>9, Zenon DEF Cigar!OfEvents
<1>10. CASE Cigar!OfHoldings
  <2>1. PICK firm \in {Cigar!Firm, Cigar!Suspect}, price \in {9, 20} :
          \E owner, holdings :
            Cigar!Ask([firm EXCEPT !.holdings = holdings, !.owner = owner, !.stake = 30], price)
    BY <1>10, Zenon DEF Cigar!OfHoldings
  <2>2. PICK owner, holdings :
          Cigar!Ask([firm EXCEPT !.holdings = holdings, !.owner = owner, !.stake = 30], price)
    BY <2>1
  <2>3. Company([firm EXCEPT !.holdings = holdings, !.owner = owner, !.stake = 30])
    BY <1>0 DEF Company, Fields
  <2>4. CigarAsked
    BY <2>2, <2>3, PanelIs
  <2> QED
    BY <1>6, <2>4
<1>11. CASE Cigar!OfDividends
  BY <1>4, <1>6, <1>11, Zenon DEF Cigar!OfDividends
<1>12. CASE Cigar!OfSymbol
  BY <1>5, <1>6, <1>12, Zenon DEF Cigar!OfSymbol
<1> QED
  BY <1>6, <1>7, <1>8, <1>9, <1>10, <1>11, <1>12 DEF Cigar!Init

CigarInv ==
  part = "cigarbutt" => CigarAsked /\ (page = Nothing \/ page = Cigar!Analyzed(Cigar!Panel))

LEMMA SameCompany ==
  ASSUME query' = query
  PROVE  /\ CigarAsked => CigarAsked'
         /\ Cigar!Analyzed(Cigar!Panel)' = Cigar!Analyzed(Cigar!Panel)
<1>1. Cigar!Panel' = Cigar!Panel /\ Cigar!Price' = Cigar!Price
  BY DEF Cigar!Panel, Cigar!Price
<1> QED
  BY <1>1 DEF CigarAsked, Company, Unread, Cigar!Analyzed

LEMMA CigarInvariant == ApiSpec => []CigarInv
<1>1. ApiInit => CigarInv
  BY CigarStarts DEF ApiInit, CigarInv
<1>2. CigarInv /\ [ApiNext]_allVars => CigarInv'
  <2> SUFFICES ASSUME CigarInv, [ApiNext]_allVars, part' = "cigarbutt" PROVE CigarInv'
    BY DEF CigarInv
  <2>1. CASE UNCHANGED allVars
    <3>1. part = "cigarbutt" /\ query' = query /\ page' = page
      BY <2>1 DEF allVars
    <3> QED
      BY <3>1, SameCompany DEF CigarInv
  <2>2. CASE ApiNext
    <3>1. part = "cigarbutt" /\ Cigar!Next
      BY <2>2 DEF ApiNext
    <3>2. query' = query /\ page' = Cigar!Analyzed(Cigar!Panel)
      BY <3>1 DEF Cigar!Next, Cigar!Analyze
    <3> QED
      BY <3>1, <3>2, SameCompany DEF CigarInv
  <2> QED
    BY <2>1, <2>2
<1> QED
  BY <1>1, <1>2, PTL DEF ApiSpec

\* What CigarButtAnalyzer.analyze concludes: a fact that forbids is final, a
\* position is backed by assets or by a way to the money and is entered above
\* the price, a company known from the database only gets none, and the levels
\* agree with each other and with the price.
THEOREM VerdictsDoStand == ApiSpec => []VerdictsStand
<1>1. CigarInv => VerdictsStand
  <2> SUFFICES ASSUME CigarInv, part = "cigarbutt" PROVE Cigar!VerdictsStand
    BY DEF VerdictsStand
  <2>1. CASE ~ Cigar!Judged
    BY <2>1 DEF Cigar!VerdictsStand, Cigar!VetoIsFinal, Cigar!PositionsBacked, Cigar!LevelsAgree
  <2>2. CASE Cigar!Judged
    <3> DEFINE p == Cigar!Panel
               price == Cigar!Price
               nav == Cigar!Navs(p)
    <3>1. /\ Company(p) /\ (query.what = "symbol" => Unread(p)) /\ price \in Nat \cup {Nothing}
          /\ page # Nothing /\ Cigar!Given(price) # 0 /\ Cigar!Known(p.shares)
          /\ page = Cigar!Analysis(p, price, nav)
      BY <2>2 DEF CigarInv, CigarAsked, Cigar!Judged, Cigar!Analyzed
    <3>2. price \in Nat \ {0}
      BY <3>1 DEF Cigar!Given
    <3>3. Cigar!Given(p.shares) = 1
      BY <3>1, FiguresAre, NothingAssumption DEF Cigar!Known, Cigar!Given
    <3>4. /\ Valued(nav) /\ Cigar!Debt(p) \in Int
          /\ nav.t0 # Nothing => /\ nav.t0 \in Int /\ p.liabilities \in Int /\ nav.t1 \in Int
                                 /\ Cigar!Debt(p) <= p.liabilities => nav.t0 <= nav.t1
      BY <3>1, NavsAre
    <3>5. Cigar!VetoIsFinal
      <4>1. IF "veto" \in Cigar!Range(page.facts)
            THEN page.adjusted = "D" /\ "fundamental" \in page.plan.stops /\ page.flags > 0
            ELSE page.adjusted # "D" /\ "fundamental" \notin page.plan.stops
        BY <3>1, <3>3, VetoesAreFinal
      <4> QED
        BY <4>1 DEF Cigar!VetoIsFinal
    <3>6. /\ (page.plan.position > 0) = (page.level # "none" \/ ~page.ways.capped)
          /\ (page.plan.target > 0) = Cigar!Known(page.plan.buy) /\ page.plan.target <= page.plan.position
          /\ Cigar!Known(page.plan.buy) => 10000 * price < page.plan.buy
             /\ page.plan.hardStop < 100 * page.plan.buy
          /\ page.plan.position <= Cigar!CapOf("T0", "none")
          /\ page.level = "T0" <=> Cigar!Cheap(price, nav.t0, 85)
          /\ page.level # "none" => 100 * price < Cigar!NavOf(nav, page.level)
      BY <3>1, <3>2, <3>3, <3>4, PositionIsBacked
    <3>7. query.what = "symbol" => page.plan.position = 0
      BY <3>1, <3>2, <3>3, UnreadGetsNone
    <3>8. page.level = "T0" /\ Cigar!Debt(p) <= p.liabilities => 100 * price < nav.t1
      <4>1. SUFFICES ASSUME page.level = "T0", Cigar!Debt(p) <= p.liabilities PROVE 100 * price < nav.t1
        OBVIOUS
      <4>2. Amount(nav.t0) /\ Cigar!Cheap(price, nav.t0, 85)
        BY <3>4, <3>6, <4>1 DEF Valued
      <4>3. CheapSays(price, nav.t0, 85)
        BY <3>2, <4>2, CheapIs, Zenon
      <4>4. nav.t0 \in Int /\ nav.t1 \in Int /\ nav.t0 <= nav.t1 /\ 100 * price < nav.t0
        BY <3>4, <4>1, <4>3 DEF CheapSays
      <4> HIDE DEF price, nav
      <4> QED
        BY <3>2, <4>4
    <3>9. Cigar!PositionsBacked
      BY <3>6, <3>7 DEF Cigar!PositionsBacked
    <3>10. Cigar!LevelsAgree
      BY <3>6, <3>8 DEF Cigar!LevelsAgree
    <3> QED
      BY <3>5, <3>9, <3>10 DEF Cigar!VerdictsStand
  <2> QED
    BY <2>1, <2>2
<1> QED
  BY <1>1, CigarInvariant, PTL

-----------------------------------------------------------------------------
(* News graphs: ranks *)

LEMMA GraphCounts ==
  \A S : Graph!Cardinality(S) = Cardinality(S) /\ (Graph!IsFiniteSet(S) <=> IsFiniteSet(S))
BY DEF Graph!Cardinality, Cardinality, Graph!IsFiniteSet, IsFiniteSet

\* What is known of the elements of S from the best on, the smaller of equals first.
InBestOrder(S, p, f) ==
  /\ Cardinality(S) \in Nat /\ f \in [1..Cardinality(S) -> S]
  /\ \A i \in DOMAIN f : Cardinality(Betters(S, p)[f[i]]) = i - 1
  /\ \A i, j \in DOMAIN f : i < j <=> f[i] \in Betters(S, p)[f[j]]
  /\ \A i, j \in DOMAIN f : i # j => f[i] # f[j]
  /\ \A x \in S : \E i \in DOMAIN f : f[i] = x

LEMMA BestIsFirst ==
  ASSUME NEW S, NEW p, Predicted(S, p), NEW f, f = BestOf(S, p)
  PROVE  InBestOrder(S, p, f)
<1> DEFINE B == Betters(S, p)
<1>1. Lined(S, B) /\ Placed(S, B, f) /\ Cardinality(S) \in Nat
  BY BettersLined, BestPlaced
<1>2. f = [i \in 1..Cardinality(S) |->
             CHOOSE x \in S : Cardinality({y \in S : p[y] > p[x] \/ (p[y] = p[x] /\ y < x)}) = i - 1]
  BY DEF BestOf
<1> HIDE DEF B
<1>3. /\ \A i, j \in DOMAIN f : i < j <=> f[i] \in B[f[j]]
      /\ \A i, j \in DOMAIN f : i # j => f[i] # f[j]
      /\ \A x \in S : Cardinality(B[x]) + 1 \in DOMAIN f /\ f[Cardinality(B[x]) + 1] = x
  BY <1>1, LineInOrder
<1>4. DOMAIN f = 1..Cardinality(S) /\ \A i \in DOMAIN f : f[i] \in S /\ Cardinality(B[f[i]]) = i - 1
  BY <1>1 DEF Placed
<1>5. f \in [1..Cardinality(S) -> S]
  BY <1>2, <1>4
<1> QED
  BY <1>1, <1>3, <1>4, <1>5 DEF InBestOrder, B

LEMMA GraphBest == ASSUME NEW score PROVE Graph!BestFirst(score) = BestOf(DOMAIN score, score)
<1>1. Graph!BestFirst(score) =
        [i \in 1..Graph!Cardinality(DOMAIN score) |->
           CHOOSE x \in DOMAIN score :
             Graph!Cardinality({y \in DOMAIN score :
                                  score[y] > score[x] \/ (score[y] = score[x] /\ y < x)}) = i - 1]
  BY DEF Graph!BestFirst, Graph!Sorted
<1> QED
  BY <1>1, GraphCounts DEF BestOf

LEMMA RankIsBest ==
  ASSUME NEW R \in SUBSET Nat, IsFiniteSet(R), NEW score \in [R -> Nat], NEW S, S = {i \in R : score[i] >= 1}
  PROVE  InBestOrder(S, [i \in S |-> score[i]], Graph!Rank(score))
<1> DEFINE p == [i \in S |-> score[i]]
<1>1. Graph!Rank(score) = Graph!BestFirst(p)
  <2>1. {i \in DOMAIN score : score[i] >= 1} = S
    OBVIOUS
  <2> HIDE DEF p
  <2> QED
    BY <2>1 DEF Graph!Rank, p
<1>2. DOMAIN p = S /\ Predicted(S, p)
  <2>1. IsFiniteSet(S)
    BY FS_Subset
  <2> QED
    BY <2>1 DEF Predicted
<1> HIDE DEF p
<1>3. Graph!Rank(score) = BestOf(S, p)
  BY <1>1, <1>2, GraphBest
<1>4. InBestOrder(S, p, Graph!Rank(score))
  BY <1>2, <1>3, BestIsFirst
<1> QED
  BY <1>4 DEF p

\* The newest n of what is found are n, unless they are all of it.
LEMMA NewestAreMany ==
  ASSUME NEW found \in SUBSET Nat, IsFiniteSet(found), NEW n \in Nat, NEW i \in found,
         i \notin Graph!Newest(found, n)
  PROVE  n <= Cardinality(Graph!Newest(found, n))
<1> DEFINE T == Graph!Newest(found, n)
           N == Cardinality(found)
<1>1. \A x \in found : Below(found)[x] = {y \in found : y < x}
  BY DEF Below
<1>2. /\ N \in Nat
      /\ \A x \in found : Cardinality(Below(found)[x]) \in 0..(N - 1)
      /\ \A k \in 0..(N - 1) : \E x \in found : Cardinality(Below(found)[x]) = k
  BY NumbersPlaces
<1>3. T = {x \in found : Cardinality(Below(found)[x]) < n}
  BY <1>1, GraphCounts DEF Graph!Newest
<1>4. n <= N - 1
  BY <1>2, <1>3
<1>5. ASSUME NEW k \in 1..n PROVE \E x \in T : Cardinality(Below(found)[x]) = k - 1
  <2>1. k - 1 \in 0..(N - 1) /\ k - 1 < n
    BY <1>2, <1>4
  <2> QED
    BY <1>2, <1>3, <2>1
<1> DEFINE g == [k \in 1..n |-> CHOOSE x \in T : Cardinality(Below(found)[x]) = k - 1]
<1>6. \A k \in 1..n : g[k] \in T /\ Cardinality(Below(found)[g[k]]) = k - 1
  BY <1>5
<1>7. g \in [1..n -> T]
  BY <1>6
<1>8. ASSUME NEW j \in 1..n, NEW k \in 1..n, g[j] = g[k] PROVE j = k
  <2>1. j - 1 = k - 1
    BY <1>6, <1>8
  <2> QED
    BY <2>1
<1> HIDE DEF g
<1>9. g \in Injection(1..n, T)
  BY <1>7, <1>8 DEF Injection, IsInjective
<1>10. IsFiniteSet(T)
  BY <1>3, FS_Subset
<1>11. IsFiniteSet(1..n) /\ Cardinality(1..n) = n
  <2>1. 1 \in Int /\ n \in Int
    OBVIOUS
  <2> QED
    BY <2>1, FS_Interval
<1> HIDE DEF T
<1>12. Cardinality(1..n) <= Cardinality(T)
  BY <1>9, <1>10, FS_Injection
<1> QED
  BY <1>11, <1>12 DEF T

-----------------------------------------------------------------------------
(* News graphs: what names the stock comes first *)

\* The first m of n elements.
FirstOf(first, list, n, m) ==
  /\ Graph!Len(first) = (IF n < m THEN n ELSE m)
  /\ DOMAIN first = 1..Graph!Len(first)
  /\ \A k \in DOMAIN first : k \in 1..n /\ first[k] = list[k]

LEMMA FirstNewsAre ==
  ASSUME NEW S, NEW n \in Nat, NEW list \in [1..n -> S], NEW m \in Nat
  PROVE  FirstOf(Graph!First(list, m), list, n, m)
<1> DEFINE first == Graph!First(list, m)
<1>1. list \in Seq(S) /\ Graph!Len(list) = n
  OBVIOUS
<1>2. first = SubSeq(list, 1, IF n < m THEN n ELSE m)
  BY <1>1 DEF Graph!First
<1> QED
  BY <1>1, <1>2 DEF FirstOf

\* What is asked about the news.
GraphAsked ==
  /\ query.what \in {"stock", "index", "focus"} /\ DOMAIN query.news = 1..Pieces
  /\ \A i \in 1..Pieces : query.news[i].sectors \in SectorLists
  /\ query.what # "focus" => query.events \in SUBSET Nat /\ IsFiniteSet(query.events)
  /\ query.what = "focus" => query.center.related \in Related

LEMMA NewsAre ==
  ASSUME GraphAsked
  PROVE  Graph!News = 1..Pieces /\ Graph!News \in SUBSET Nat /\ IsFiniteSet(Graph!News)
<1>1. 1 \in Int /\ Pieces \in Int
  BY NewsAssumption
<1>2. IsFiniteSet(1..Pieces) /\ 1..Pieces \in SUBSET Nat
  BY <1>1, FS_Interval
<1> QED
  BY <1>2 DEF GraphAsked, Graph!News

\* Ten points are those of news that names the stock.
LEMMA StockScores ==
  ASSUME query.what = "stock", NEW i
  PROVE  /\ Graph!StockScore(i) \in Nat
         /\ Graph!Mentions(i) <=> Graph!StockScore(i) >= 10
<1>1. Graph!Components0 = {}
  BY DEF Graph!Components0
<1>2. /\ Graph!Points(Graph!Item(i).symbol \in Graph!Components0, 6) = 0
      /\ Graph!Points(Graph!Range(Graph!Item(i).related) \cap Graph!Components0 # {}, 5) = 0
  BY <1>1 DEF Graph!Points
<1>3. Graph!Points(query.sector \in Graph!Range(Graph!Item(i).sectors), 2) \in {0, 2}
  BY DEF Graph!Points
<1>4. /\ Graph!Points(Graph!Item(i).symbol = Subject, 12) = (IF Graph!Item(i).symbol = Subject THEN 12 ELSE 0)
      /\ Graph!Points(Subject \in Graph!Range(Graph!Item(i).related), 10) =
           (IF Subject \in Graph!Range(Graph!Item(i).related) THEN 10 ELSE 0)
  BY DEF Graph!Points
<1>5. Graph!StockScore(i) =
        (IF Graph!Item(i).symbol = Subject THEN 12 ELSE 0)
          + (IF Subject \in Graph!Range(Graph!Item(i).related) THEN 10 ELSE 0)
          + Graph!Points(query.sector \in Graph!Range(Graph!Item(i).sectors), 2)
  BY <1>2, <1>3, <1>4 DEF Graph!StockScore
<1> QED
  BY <1>3, <1>5 DEF Graph!Mentions

\* The order of NamedFirst.
Ordered(told) ==
  /\ Graph!IsInjective(told) /\ Graph!Len(told) <= MaxNews
  /\ \A j, k \in DOMAIN told : j < k =>
       /\ Graph!Mentions(told[k]) => Graph!Mentions(told[j])
       /\ Graph!StockScore(told[j]) = Graph!StockScore(told[k]) => told[j] < told[k]
  /\ \A i \in Graph!News : Graph!Mentions(i) /\ ~(\E k \in DOMAIN told : told[k] = i) =>
       Graph!Len(told) = MaxNews /\ \A k \in DOMAIN told : Graph!Mentions(told[k])

\* The rows that are ranked: those that name the stock, the newest of them, and
\* others.
StockRows(R) ==
  LET named == {i \in Graph!News : Graph!Mentions(i) \/ Graph!MentionsComponent(i)}
  IN /\ R \subseteq Graph!News /\ Graph!Newest(named, 3 * MaxNews) \subseteq R

LEMMA RanksNamedFirst ==
  ASSUME GraphAsked, query.what = "stock", NEW R, StockRows(R),
         NEW told, told = Graph!First(Graph!Rank([i \in R |-> Graph!StockScore(i)]), MaxNews)
  PROVE  Ordered(told)
<1> DEFINE named == {i \in Graph!News : Graph!Mentions(i) \/ Graph!MentionsComponent(i)}
           direct == Graph!Newest(named, 3 * MaxNews)
           score == [i \in R |-> Graph!StockScore(i)]
           S == {i \in R : score[i] >= 1}
           list == Graph!Rank(score)
           n == Cardinality(S)
           kept == [i \in S |-> score[i]]
           pred == Betters(S, kept)
<1>1. R \subseteq Graph!News /\ direct \subseteq R
  BY DEF StockRows
<1>2. /\ Graph!News \in SUBSET Nat /\ R \in SUBSET Nat
      /\ IsFiniteSet(R) /\ IsFiniteSet(S) /\ IsFiniteSet(named)
  BY <1>1, NewsAre, FS_Subset
<1>3. \A i \in R : score[i] = Graph!StockScore(i)
  OBVIOUS
<1>4. score \in [R -> Nat]
  BY StockScores
<1>5. \A i \in Graph!News : Graph!Mentions(i) <=> i \in named
  <2>1. Graph!Components0 = {}
    BY DEF Graph!Components0
  <2> QED
    BY <2>1 DEF Graph!MentionsComponent
<1>6. direct \subseteq named
  BY DEF Graph!Newest
<1>7. \A i \in R : Graph!Mentions(i) <=> score[i] >= 10
  BY <1>3, StockScores
<1>8. MaxNews \in Nat
  BY NewsAssumption
<1>8a. 3 * MaxNews \in Nat
  BY <1>8
<1>8b. named \in SUBSET Nat
  BY <1>2
<1>9. told = Graph!First(list, MaxNews)
  OBVIOUS
<1>10. \A i \in R : Graph!Mentions(i) => i \in S
  BY <1>4, <1>7
<1>11. \A x, y \in S : y \in pred[x] <=> score[y] > score[x] \/ (score[y] = score[x] /\ y < x)
  BY DEF Betters
<1>12. InBestOrder(S, kept, list)
  BY <1>2, <1>4, RankIsBest
<1>13. /\ n \in Nat /\ list \in [1..n -> S]
       /\ \A i \in DOMAIN list : Cardinality(pred[list[i]]) = i - 1
       /\ \A i, j \in DOMAIN list : i < j <=> list[i] \in pred[list[j]]
       /\ \A i, j \in DOMAIN list : i # j => list[i] # list[j]
       /\ \A x \in S : \E i \in DOMAIN list : list[i] = x
  BY <1>12 DEF InBestOrder
<1>14. \A i, j \in DOMAIN list : i < j => list[i] \in pred[list[j]]
  BY <1>13
<1>15. \A x \in S : pred[x] \subseteq S
  BY DEF Betters
<1>16. \A x \in S : x \in R
  OBVIOUS
<1> HIDE DEF score, S, list, kept, pred, direct
<1> HIDE DEF n
<1>17. /\ Graph!Len(told) = (IF n < MaxNews THEN n ELSE MaxNews)
       /\ DOMAIN told = 1..Graph!Len(told)
       /\ \A k \in DOMAIN told : k \in 1..n /\ told[k] = list[k]
  <2>1. FirstOf(Graph!First(list, MaxNews), list, n, MaxNews)
    BY <1>8, <1>13, FirstNewsAre, Zenon
  <2> QED
    BY <1>9, <2>1 DEF FirstOf
<1>18. \A k \in DOMAIN told : k \in 1..n /\ told[k] = list[k] /\ told[k] \in S /\ told[k] \in R
  BY <1>13, <1>16, <1>17
<1>19. Graph!IsInjective(told) /\ Graph!Len(told) <= MaxNews
  <2>1. ASSUME NEW i \in DOMAIN told, NEW j \in DOMAIN told, told[i] = told[j] PROVE i = j
    <3>1. i \in DOMAIN list /\ j \in DOMAIN list /\ list[i] = list[j]
      BY <1>13, <1>18, <2>1
    <3> QED
      BY <1>13, <3>1
  <2>2. Graph!Len(told) <= MaxNews
    BY <1>8, <1>13, <1>17
  <2> QED
    BY <2>1, <2>2 DEF Graph!IsInjective
<1>20. ASSUME NEW j \in DOMAIN told, NEW k \in DOMAIN told, j < k
       PROVE  score[told[j]] > score[told[k]] \/ (score[told[j]] = score[told[k]] /\ told[j] < told[k])
  <2>1. j \in DOMAIN list /\ k \in DOMAIN list /\ told[j] = list[j] /\ told[k] = list[k]
    BY <1>13, <1>18
  <2>2. told[j] \in pred[told[k]]
    BY <1>14, <1>20, <2>1
  <2> QED
    BY <1>11, <1>18, <2>2
<1>21. ASSUME NEW j \in DOMAIN told, NEW k \in DOMAIN told, j < k
       PROVE  /\ Graph!Mentions(told[k]) => Graph!Mentions(told[j])
              /\ Graph!StockScore(told[j]) = Graph!StockScore(told[k]) => told[j] < told[k]
  <2>1. told[j] \in R /\ told[k] \in R /\ score[told[j]] \in Int /\ score[told[k]] \in Int
    BY <1>4, <1>18
  <2>2. score[told[j]] > score[told[k]] \/ (score[told[j]] = score[told[k]] /\ told[j] < told[k])
    BY <1>20, <1>21
  <2>3. score[told[k]] >= 10 => score[told[j]] >= 10
    BY <2>1, <2>2
  <2>4. score[told[j]] = score[told[k]] => told[j] < told[k]
    BY <2>1, <2>2
  <2> QED
    BY <1>3, <1>7, <2>1, <2>3, <2>4
<1>22. ASSUME NEW i \in Graph!News, Graph!Mentions(i), ~ \E k \in DOMAIN told : told[k] = i, NEW k \in DOMAIN told
       PROVE  Graph!Mentions(told[k])
  <2>1. told[k] \in R /\ told[k] \in S /\ score[told[k]] \in Int /\ k \in 1..n /\ list[k] = told[k]
    BY <1>4, <1>18
  <2>2. k <= MaxNews /\ k \in Int
    BY <1>8, <1>13, <1>17
  <2>3. CASE i \in direct
    <3>1. i \in R /\ i \in S /\ score[i] \in Int /\ score[i] >= 10
      BY <1>1, <1>4, <1>7, <1>10, <1>22, <2>3
    <3>2. PICK p \in DOMAIN list : list[p] = i
      BY <1>13, <3>1
    <3>3. p \in 1..n /\ p \notin DOMAIN told
      BY <1>13, <1>18, <1>22, <3>2
    <3>4. k < p /\ k \in DOMAIN list
      BY <1>8, <1>13, <1>17, <2>1, <3>3
    <3>5. told[k] \in pred[i]
      BY <1>14, <2>1, <3>2, <3>4
    <3>6. score[told[k]] >= score[i]
      BY <1>11, <2>1, <3>1, <3>5
    <3>7. score[told[k]] >= 10
      BY <2>1, <3>1, <3>6
    <3> QED
      BY <1>7, <2>1, <3>7
  <2>4. CASE i \notin direct
    <3> SUFFICES ASSUME ~ Graph!Mentions(told[k]) PROVE FALSE
      OBVIOUS
    <3>1. 3 * MaxNews \in Nat /\ i \in named /\ named \in SUBSET Nat
      BY <1>5, <1>22, <1>8a, <1>8b
    <3>2. 3 * MaxNews <= Cardinality(direct)
      BY <1>2, <2>4, <3>1, NewestAreMany DEF direct
    <3>3. ASSUME NEW x \in direct PROVE x \in pred[told[k]]
      <4>1. x \in R /\ Graph!Mentions(x)
        BY <1>1, <1>5, <1>6
      <4>2. x \in S /\ score[x] >= 10 /\ score[x] \in Int /\ ~ (score[told[k]] >= 10)
        BY <1>4, <1>7, <1>10, <2>1, <4>1
      <4>3. score[x] > score[told[k]]
        BY <2>1, <4>2
      <4> QED
        BY <1>11, <2>1, <4>2, <4>3
    <3>4. IsFiniteSet(pred[told[k]])
      BY <1>2, <1>15, <2>1, FS_Subset
    <3>5. Cardinality(direct) <= Cardinality(pred[told[k]]) /\ Cardinality(direct) \in Nat
      BY <3>3, <3>4, FS_Subset, FS_CardinalityType
    <3>6. Cardinality(pred[told[k]]) = k - 1
      BY <1>13, <2>1
    <3> QED
      BY <1>8, <2>2, <3>2, <3>5, <3>6
  <2> QED
    BY <2>3, <2>4
<1>23. ASSUME NEW i \in Graph!News, Graph!Mentions(i), ~ \E k \in DOMAIN told : told[k] = i
       PROVE  Graph!Len(told) = MaxNews
  <2> SUFFICES ASSUME n < MaxNews PROVE FALSE
    BY <1>8, <1>13, <1>17
  <2>1. DOMAIN told = 1..n
    BY <1>17
  <2>2. ASSUME NEW x \in S PROVE \E k \in DOMAIN told : told[k] = x
    <3>1. PICK p \in DOMAIN list : list[p] = x
      BY <1>13
    <3> QED
      BY <1>13, <1>18, <2>1, <3>1
  <2>3. i \notin S
    BY <1>23, <2>2
  <2>4. i \notin direct
    BY <1>1, <1>10, <1>23, <2>3
  <2>5. 3 * MaxNews \in Nat /\ i \in named /\ named \in SUBSET Nat
    BY <1>5, <1>23, <1>8a, <1>8b
  <2>6. 3 * MaxNews <= Cardinality(direct)
    BY <1>2, <2>4, <2>5, NewestAreMany DEF direct
  <2>7. direct \subseteq S
    BY <1>1, <1>5, <1>6, <1>10
  <2>8. Cardinality(direct) <= n /\ Cardinality(direct) \in Nat
    BY <1>2, <2>7, FS_Subset, FS_CardinalityType DEF n
  <2> QED
    BY <1>8, <1>13, <2>6, <2>8
<1> QED
  BY <1>19, <1>21, <1>22, <1>23 DEF Ordered

-----------------------------------------------------------------------------
(* News graphs: nodes and edges *)

Small(n) == \E id, size : n = [id |-> id, size |-> size] /\ size \in 0..49

\* The nodes before _add_node: the center, and smaller ones.
Sized(N, center, most) ==
  /\ most \in 50..60 /\ [id |-> center, size |-> most] \in N
  /\ \A n \in N : n = [id |-> center, size |-> most] \/ Small(n)

LEMMA GreatestIs ==
  ASSUME NEW T \in SUBSET Nat, IsFiniteSet(T), T # {}
  PROVE  \E x \in T : \A y \in T : y <= x
<1> DEFINE N == Cardinality(T)
<1>2. PlacesOf(T, Below(T))
  BY NumbersLined, PlacesTell
<1>3. /\ N \in Nat /\ \A x \in T : Cardinality(Below(T)[x]) \in 0..(N - 1)
      /\ \A x, y \in T : x \in Below(T)[y] <=> Cardinality(Below(T)[x]) < Cardinality(Below(T)[y])
      /\ \A k \in 0..(N - 1) : \E x \in T : Cardinality(Below(T)[x]) = k
  BY <1>2 DEF PlacesOf
<1>4. \A x, y \in T : x \in Below(T)[y] <=> x < y
  BY DEF Below
<1>5. N - 1 \in 0..(N - 1)
  <2>1. PICK z \in T : TRUE
    OBVIOUS
  <2>2. Cardinality(Below(T)[z]) \in 0..(N - 1)
    BY <1>3, <2>1
  <2> HIDE DEF N
  <2> QED
    BY <1>3, <2>2
<1>6. PICK x \in T : Cardinality(Below(T)[x]) = N - 1
  BY <1>3, <1>5
<1>7. ASSUME NEW y \in T PROVE y <= x
  <2>1. Cardinality(Below(T)[y]) \in 0..(N - 1) /\ ~ (N - 1 < Cardinality(Below(T)[y]))
    BY <1>3
  <2>2. ~ (x < y)
    BY <1>3, <1>4, <1>6, <2>1
  <2> QED
    BY <2>2
<1> QED
  BY <1>7

\* What a graph's nodes are to be.
KeptWhole(N, kept, center) ==
  /\ \A n \in N : n.id \in Graph!Ids(kept)
  /\ \A m, n \in kept : m.id = n.id => m = n
  /\ \A n \in kept : n.size >= 50 <=> n.id = center

LEMMA LargestKept ==
  ASSUME NEW N, NEW center, NEW most, Sized(N, center, most)
  PROVE  KeptWhole(N, Graph!Largest(N), center)
<1> DEFINE kept == Graph!Largest(N)
           top == [id |-> center, size |-> most]
<1>1. kept = {n \in N : \A m \in N : m.id = n.id => m.size <= n.size}
  BY DEF Graph!Largest
<1>2. ASSUME NEW n \in N PROVE n = [id |-> n.id, size |-> n.size] /\ n.size \in 0..60
  BY DEF Sized, Small
<1>3. top \in N /\ most \in 50..60
  BY DEF Sized
<1>4. \A n \in N : n.size >= 50 => n = top
  BY DEF Sized, Small
<1> HIDE DEF kept
<1>5. ASSUME NEW n \in N PROVE n.id \in Graph!Ids(kept)
  <2> DEFINE T == {m.size : m \in {m \in N : m.id = n.id}}
  <2>1. n.size \in T
    OBVIOUS
  <2>2. T \subseteq 0..60 /\ T # {}
    BY <1>2, <2>1
  <2>6. T \in SUBSET Nat /\ IsFiniteSet(T)
    <3>1. IsFiniteSet(0..60)
      <4>1. 0 \in Int /\ 60 \in Int
        OBVIOUS
      <4> QED
        BY <4>1, FS_Interval
    <3>2. IsFiniteSet(T)
      BY <2>2, <3>1, FS_Subset
    <3> QED
      BY <2>2, <3>2
  <2>3. PICK x \in T : \A y \in T : y <= x
    <3> HIDE DEF T
    <3> QED
      BY <2>2, <2>6, GreatestIs
  <2>4. PICK m \in N : m.id = n.id /\ m.size = x
    BY <2>3
  <2>5. m \in kept
    BY <1>1, <2>3, <2>4
  <2> QED
    BY <2>4, <2>5 DEF Graph!Ids
<1>6. ASSUME NEW m \in kept, NEW n \in kept, m.id = n.id PROVE m = n
  <2>1. m \in N /\ n \in N /\ m.size <= n.size /\ n.size <= m.size
    BY <1>1, <1>6
  <2>2. m.size = n.size
    BY <1>2, <2>1
  <2> QED
    BY <1>2, <1>6, <2>1, <2>2
<1>7. ASSUME NEW n \in kept PROVE n.size >= 50 <=> n.id = center
  <2>1. n \in N /\ \A m \in N : m.id = n.id => m.size <= n.size
    BY <1>1
  <2>2. top.id = center /\ top.size = most
    OBVIOUS
  <2>3. n.size >= 50 => n.id = center
    BY <1>4, <2>1, <2>2
  <2>4. n.id = center => most <= n.size
    BY <1>3, <2>1, <2>2
  <2> QED
    BY <1>2, <1>3, <2>1, <2>3, <2>4
<1> QED
  BY <1>5, <1>6, <1>7 DEF KeptWhole, kept

LEMMA NodeIs ==
  ASSUME NEW sort, NEW of, NEW size \in 0..49, NEW n, n = Graph!Node(sort, of, size)
  PROVE  Small(n) /\ n.id = <<sort, of>>
BY DEF Small, Graph!Node

LEMMA SectorNodeIs ==
  ASSUME NEW i, NEW n \in Graph!SectorNodes(i, 24)
  PROVE  Small(n)
<1>1. PICK s \in Graph!Range(Graph!First(Graph!Item(i).sectors, MaxSectors)) : n = Graph!Node("sector", s, 24)
  BY DEF Graph!SectorNodes
<1> QED
  BY <1>1, NodeIs

\* The nodes of one piece of news.
NodesOf(i, told) ==
  {Graph!Node("news", i, IF Graph!Mentions(i) THEN 30 ELSE 24)} \cup Graph!SectorNodes(i, 24)
    \cup {Graph!Node("theme", t, 22) : t \in {Graph!Item(i).theme} \cap Graph!AllowedThemes(told)}
    \cup {Graph!Node("stock", p, 24) : p \in Graph!Range(Graph!PeersOf(i)) \cap Graph!AllowedPeers(told)}

\* And its edges.
EdgesOf(i, told) ==
  (IF Graph!Mentions(i) THEN {Graph!Edge(<<"news", i>>, Graph!Center, "mentions")} ELSE {})
    \cup {Graph!Edge(<<"news", i>>, n.id, "relates_sector") : n \in Graph!SectorNodes(i, 24)}
    \cup {Graph!Edge(<<"news", i>>, <<"theme", t>>, "has_theme") :
            t \in {Graph!Item(i).theme} \cap Graph!AllowedThemes(told)}
    \cup {Graph!Edge(<<"news", i>>, <<"stock", p>>, "mentions_peer") :
            p \in Graph!Range(Graph!PeersOf(i)) \cap Graph!AllowedPeers(told)}
    \cup {Graph!Edge(<<"news", i>>, <<"event", e>>, "cooccurs_event") : e \in Graph!Near(i)}

LEMMA NeighboursAre ==
  ASSUME NEW told
  PROVE  /\ Graph!StockNeighbours(told) =
              (IF query.sector = Nothing THEN {} ELSE {Graph!Node("sector", query.sector, 34)})
                \cup {Graph!Node("event", e, 26) : e \in query.events}
                \cup UNION {NodesOf(i, told) : i \in Graph!Range(told)}
         /\ Graph!StockEdges(told) =
              (IF query.sector = Nothing THEN {}
               ELSE {Graph!Edge(Graph!Center, <<"sector", query.sector>>, "belongs_to")})
                \cup {Graph!Edge(<<"event", e>>, Graph!Center, "event_of") : e \in query.events}
                \cup UNION {EdgesOf(i, told) : i \in Graph!Range(told)}
BY Zenon DEF Graph!StockNeighbours, Graph!StockEdges, NodesOf, EdgesOf

LEMMA NeighboursSmall == ASSUME NEW told, NEW n \in Graph!StockNeighbours(told) PROVE Small(n)
<1>1. CASE query.sector # Nothing /\ n = Graph!Node("sector", query.sector, 34)
  BY <1>1, NodeIs
<1>2. CASE \E e \in query.events : n = Graph!Node("event", e, 26)
  BY <1>2, NodeIs
<1>3. ASSUME NEW i \in Graph!Range(told), n \in NodesOf(i, told) PROVE Small(n)
  <2>1. CASE n = Graph!Node("news", i, IF Graph!Mentions(i) THEN 30 ELSE 24)
    <3>1. (IF Graph!Mentions(i) THEN 30 ELSE 24) \in 0..49
      OBVIOUS
    <3> QED
      BY <2>1, <3>1, NodeIs
  <2>2. CASE n \in Graph!SectorNodes(i, 24)
    BY <2>2, SectorNodeIs
  <2>3. CASE \E t : n = Graph!Node("theme", t, 22)
    BY <2>3, NodeIs
  <2>4. CASE \E p : n = Graph!Node("stock", p, 24)
    BY <2>4, NodeIs
  <2> QED
    BY <1>3, <2>1, <2>2, <2>3, <2>4 DEF NodesOf
<1> QED
  BY <1>1, <1>2, <1>3, NeighboursAre

\* Both ends of an edge are in the graph.
Ends(e, N) == {e.source, e.target} \subseteq {n.id : n \in N}

LEMMA EndIs ==
  ASSUME NEW source, NEW target, NEW type, NEW N, NEW e, e = Graph!Edge(source, target, type),
         \E n \in N : n.id = source, \E n \in N : n.id = target
  PROVE  Ends(e, N)
BY DEF Ends, Graph!Edge

LEMMA EdgesEnd ==
  ASSUME NEW told, NEW N, Graph!StockNeighbours(told) \subseteq N, NEW top \in N, top.id = Graph!Center,
         NEW e \in Graph!StockEdges(told)
  PROVE  Ends(e, N)
<1>1. ASSUME NEW i \in Graph!Range(told), NEW n \in NodesOf(i, told) PROVE n \in N
  BY NeighboursAre
<1>2. ASSUME NEW c \in query.events PROVE \E n \in N : n.id = <<"event", c>>
  <2>1. Graph!Node("event", c, 26) \in N
    BY NeighboursAre
  <2> QED
    BY <2>1 DEF Graph!Node
<1>3. CASE query.sector # Nothing /\ e = Graph!Edge(Graph!Center, <<"sector", query.sector>>, "belongs_to")
  <2>1. Graph!Node("sector", query.sector, 34) \in N
    BY <1>3, NeighboursAre
  <2>2. \E n \in N : n.id = <<"sector", query.sector>>
    BY <2>1 DEF Graph!Node
  <2> QED
    BY <1>3, <2>2, EndIs
<1>4. CASE \E c \in query.events : e = Graph!Edge(<<"event", c>>, Graph!Center, "event_of")
  BY <1>2, <1>4, EndIs
<1>5. ASSUME NEW i \in Graph!Range(told), e \in EdgesOf(i, told) PROVE Ends(e, N)
  <2>1. \E n \in N : n.id = <<"news", i>>
    <3>1. Graph!Node("news", i, IF Graph!Mentions(i) THEN 30 ELSE 24) \in N
      BY <1>1 DEF NodesOf
    <3> QED
      BY <3>1 DEF Graph!Node
  <2>2. CASE e = Graph!Edge(<<"news", i>>, Graph!Center, "mentions")
    BY <2>1, <2>2, EndIs
  <2>3. ASSUME NEW n \in Graph!SectorNodes(i, 24), e = Graph!Edge(<<"news", i>>, n.id, "relates_sector")
        PROVE  Ends(e, N)
    <3>1. n \in N
      BY <1>1 DEF NodesOf
    <3> QED
      BY <2>1, <2>3, <3>1, EndIs
  <2>4. ASSUME NEW t \in {Graph!Item(i).theme} \cap Graph!AllowedThemes(told),
               e = Graph!Edge(<<"news", i>>, <<"theme", t>>, "has_theme")
        PROVE  Ends(e, N)
    <3>1. Graph!Node("theme", t, 22) \in N
      BY <1>1 DEF NodesOf
    <3>2. \E n \in N : n.id = <<"theme", t>>
      BY <3>1 DEF Graph!Node
    <3> QED
      BY <2>1, <2>4, <3>2, EndIs
  <2>5. ASSUME NEW p \in Graph!Range(Graph!PeersOf(i)) \cap Graph!AllowedPeers(told),
               e = Graph!Edge(<<"news", i>>, <<"stock", p>>, "mentions_peer")
        PROVE  Ends(e, N)
    <3>1. Graph!Node("stock", p, 24) \in N
      BY <1>1 DEF NodesOf
    <3>2. \E n \in N : n.id = <<"stock", p>>
      BY <3>1 DEF Graph!Node
    <3> QED
      BY <2>1, <2>5, <3>2, EndIs
  <2>6. ASSUME NEW c \in Graph!Near(i), e = Graph!Edge(<<"news", i>>, <<"event", c>>, "cooccurs_event")
        PROVE  Ends(e, N)
    <3>1. c \in query.events
      BY DEF Graph!Near
    <3> QED
      BY <1>2, <2>1, <2>6, <3>1, EndIs
  <2> QED
    BY <1>5, <2>2, <2>3, <2>4, <2>5, <2>6 DEF EdgesOf
<1> QED
  BY <1>3, <1>4, <1>5, NeighboursAre

-----------------------------------------------------------------------------
(* News graphs: chains *)

\* The chains that are kept, strongest first.
Limited(kept, chains) ==
  /\ Graph!Len(kept) \in Nat /\ Graph!Len(kept) <= MaxChains /\ DOMAIN kept = 1..Graph!Len(kept)
  /\ \A j, k \in DOMAIN kept : j < k =>
       kept[j].steps # kept[k].steps /\ kept[j].strength >= kept[k].strength
  /\ \A k \in DOMAIN kept : \E j \in DOMAIN chains : kept[k] = chains[j]

\* Chains of which the strength is told.
Strong(chains, n) ==
  n \in Nat /\ DOMAIN chains = 1..n /\ \A k \in 1..n : chains[k].strength \in Nat

FirstOfChains(chains) ==
  {k \in DOMAIN chains : \A j \in 1..(k - 1) : chains[j].steps # chains[k].steps}
Strengths(chains) == [k \in FirstOfChains(chains) |-> chains[k].strength]

LEMMA ChainsSorted ==
  ASSUME NEW chains
  PROVE  Graph!LimitChains(chains) =
           LET order == Graph!First(BestOf(FirstOfChains(chains), Strengths(chains)), MaxChains)
           IN [k \in DOMAIN order |-> chains[order[k]]]
<1>1. Graph!LimitChains(chains) =
        LET order == Graph!First(Graph!BestFirst(Strengths(chains)), MaxChains)
        IN [k \in DOMAIN order |-> chains[order[k]]]
  BY DEF Graph!LimitChains, FirstOfChains, Strengths
<1>2. DOMAIN Strengths(chains) = FirstOfChains(chains)
  BY DEF Strengths
<1>3. Graph!BestFirst(Strengths(chains)) = BestOf(FirstOfChains(chains), Strengths(chains))
  BY <1>2, GraphBest
<1> QED
  BY <1>1, <1>3

LEMMA LimitIs ==
  ASSUME NEW chains, NEW n, Strong(chains, n)
  PROVE  Limited(Graph!LimitChains(chains), chains)
<1> DEFINE S == FirstOfChains(chains)
           p == Strengths(chains)
           list == BestOf(S, p)
           N == Cardinality(S)
           order == Graph!First(list, MaxChains)
           kept == [k \in DOMAIN order |-> chains[order[k]]]
<1>1. n \in Nat /\ DOMAIN chains = 1..n /\ \A k \in 1..n : chains[k].strength \in Nat
  BY DEF Strong
<1>2. /\ S \subseteq 1..n /\ \A k \in S : p[k] = chains[k].strength
      /\ \A k \in S : \A j \in 1..(k - 1) : chains[j].steps # chains[k].steps
  BY <1>1 DEF FirstOfChains, Strengths
<1>3. Predicted(S, p)
  <2>1. 1 \in Int /\ n \in Int
    BY <1>1
  <2>2. IsFiniteSet(S)
    BY <1>2, <2>1, FS_Interval, FS_Subset
  <2>3. S \in SUBSET Nat
    BY <1>1, <1>2
  <2>4. \A k \in S : p[k] \in Nat
    BY <1>1, <1>2
  <2> QED
    BY <2>2, <2>3, <2>4 DEF Predicted
<1>4. InBestOrder(S, p, list)
  BY <1>3, BestIsFirst
<1>5. MaxChains \in Nat
  BY NewsAssumption
<1>6. \A x, y \in S : x \in Betters(S, p)[y] <=> p[x] > p[y] \/ (p[x] = p[y] /\ x < y)
  BY DEF Betters
<1>7. Graph!LimitChains(chains) = kept
  BY ChainsSorted
<1> HIDE DEF list, S, p
<1>8. /\ N \in Nat /\ list \in [1..N -> S]
      /\ \A i, j \in DOMAIN list : i < j <=> list[i] \in Betters(S, p)[list[j]]
      /\ \A i, j \in DOMAIN list : i # j => list[i] # list[j]
  BY <1>4 DEF InBestOrder
<1>9. \A i, j \in DOMAIN list : i < j => list[i] \in Betters(S, p)[list[j]]
  BY <1>8
<1> HIDE DEF N
<1>10. FirstOf(order, list, N, MaxChains)
  BY <1>5, <1>8, FirstNewsAre, Zenon
<1> HIDE DEF order
<1>11. /\ Graph!Len(order) = (IF N < MaxChains THEN N ELSE MaxChains)
       /\ DOMAIN order = 1..Graph!Len(order)
       /\ \A k \in DOMAIN order : k \in 1..N /\ order[k] = list[k]
  BY <1>10 DEF FirstOf
<1>12. Graph!Len(order) \in Nat /\ Graph!Len(order) <= MaxChains
  BY <1>5, <1>8, <1>11
<1>13. DOMAIN kept = 1..Graph!Len(order) /\ \A k \in DOMAIN kept : kept[k] = chains[list[k]] /\ list[k] \in S
       /\ k \in 1..N
  BY <1>8, <1>11
<1> HIDE DEF kept
<1>14. Graph!Len(kept) = Graph!Len(order)
  BY <1>12, <1>13
<1>15. ASSUME NEW j \in DOMAIN kept, NEW k \in DOMAIN kept, j < k
       PROVE  kept[j].steps # kept[k].steps /\ kept[j].strength >= kept[k].strength
  <2> DEFINE a == list[j]
             b == list[k]
  <2>1. j \in DOMAIN list /\ k \in DOMAIN list /\ a \in S /\ b \in S
    BY <1>8, <1>13
  <2>2. a \in Betters(S, p)[b] /\ a # b
    <3>1. j # k
      BY <1>8, <1>15, <2>1
    <3> QED
      BY <1>8, <1>9, <1>15, <2>1, <3>1
  <2>3. p[a] > p[b] \/ p[a] = p[b]
    BY <1>6, <2>1, <2>2
  <2>4. p[a] \in Int /\ p[b] \in Int /\ p[a] = chains[a].strength /\ p[b] = chains[b].strength
    <3>1. \A x \in S : p[x] \in Nat
      BY <1>3 DEF Predicted
    <3>2. p[a] \in Nat /\ p[b] \in Nat
      BY <2>1, <3>1
    <3>3. p[a] = chains[a].strength /\ p[b] = chains[b].strength
      BY <1>2, <2>1
    <3> HIDE DEF a, b
    <3> QED
      BY <3>2, <3>3
  <2>5. a \in 1..n /\ b \in 1..n
    BY <1>2, <2>1
  <2>6. a < b \/ b < a
    BY <1>1, <2>2, <2>5
  <2>7. chains[a].steps # chains[b].steps
    <3>1. CASE a < b
      <4>1. a \in 1..(b - 1)
        BY <1>1, <2>5, <3>1
      <4> QED
        BY <1>2, <2>1, <4>1
    <3>2. CASE b < a
      <4>1. b \in 1..(a - 1)
        BY <1>1, <2>5, <3>2
      <4> QED
        BY <1>2, <2>1, <4>1
    <3> QED
      BY <2>6, <3>1, <3>2
  <2>8. kept[j] = chains[a] /\ kept[k] = chains[b]
    BY <1>13
  <2> HIDE DEF a, b
  <2>9. chains[a].strength >= chains[b].strength
    BY <2>3, <2>4
  <2> QED
    BY <2>7, <2>8, <2>9
<1>16. ASSUME NEW k \in DOMAIN kept PROVE \E j \in DOMAIN chains : kept[k] = chains[j]
  <2>1. list[k] \in DOMAIN chains
    BY <1>1, <1>2, <1>13
  <2> QED
    BY <1>13, <2>1
<1>17. Limited(kept, chains)
  BY <1>12, <1>13, <1>14, <1>15, <1>16 DEF Limited
<1> QED
  BY <1>7, <1>17

\* From one step to another, by a third at most.
Path(steps, from, via, to) ==
  /\ steps[1] = from /\ steps[Graph!Len(steps)] = to
  /\ Graph!Range(steps) = {from, to} \cup Graph!Range(via)

LEMMA JoinIs ==
  ASSUME NEW S, NEW s \in Seq(S), NEW t \in Seq(S), Graph!Len(s) \in {1, 2}, Graph!Len(t) = 1
  PROVE  /\ s \o t \in Seq(S) /\ Graph!Len(s \o t) = Graph!Len(s) + 1
         /\ (s \o t)[1] = s[1]
         /\ Graph!Len(s) = 2 => (s \o t)[2] = s[2]
         /\ (s \o t)[Graph!Len(s) + 1] = t[1]
<1> DEFINE j == s \o t
<1>1. /\ j \in Seq(S) /\ Graph!Len(j) = Graph!Len(s) + Graph!Len(t)
      /\ \A i \in 1..(Graph!Len(s) + Graph!Len(t)) :
           j[i] = IF i <= Graph!Len(s) THEN s[i] ELSE t[i - Graph!Len(s)]
  BY ConcatProperties, Zenon
<1> HIDE DEF j
<1>2. /\ j \in Seq(S) /\ Graph!Len(j) = Graph!Len(s) + 1 /\ j[1] = s[1]
      /\ Graph!Len(s) = 2 => j[2] = s[2]
      /\ j[Graph!Len(s) + 1] = t[1]
  BY <1>1
<1> QED
  BY <1>2 DEF j

LEMMA ShortPath == ASSUME NEW from, NEW to PROVE Path(<<from>> \o <<>> \o <<to>>, from, <<>>, to)
<1> DEFINE S == {from, to}
           one == <<from>>
           two == <<to>>
           steps == one \o two
<1>1. one \in Seq(S) /\ two \in Seq(S) /\ Graph!Len(one) = 1 /\ Graph!Len(two) = 1 /\ one[1] = from /\ two[1] = to
  OBVIOUS
<1>2. one \o <<>> = one
  BY <1>1, ConcatEmptySeq
<1> HIDE DEF one, two
<1>3. steps \in Seq(S) /\ Graph!Len(steps) = 2 /\ steps[1] = from /\ steps[2] = to
  BY <1>1, JoinIs
<1>4. DOMAIN steps = 1..2 /\ 1..2 = {1, 2}
  BY <1>3
<1> HIDE DEF steps
<1>5. Graph!Range(steps) = {from, to}
  BY <1>3, <1>4 DEF Graph!Range
<1>6. Graph!Range(<<>>) = {}
  BY DEF Graph!Range
<1>7. Path(steps, from, <<>>, to)
  BY <1>3, <1>5, <1>6 DEF Path
<1> QED
  BY <1>2, <1>7 DEF steps, one, two

LEMMA LongPath == ASSUME NEW from, NEW x, NEW to PROVE Path(<<from>> \o <<x>> \o <<to>>, from, <<x>>, to)
<1> DEFINE S == {from, x, to}
           one == <<from>>
           via == <<x>>
           two == <<to>>
           steps == (one \o via) \o two
<1>1. /\ one \in Seq(S) /\ via \in Seq(S) /\ two \in Seq(S)
      /\ Graph!Len(one) = 1 /\ Graph!Len(via) = 1 /\ Graph!Len(two) = 1
      /\ one[1] = from /\ via[1] = x /\ two[1] = to
  OBVIOUS
<1>2. DOMAIN via = {1}
  OBVIOUS
<1> HIDE DEF one, via, two
<1>3. one \o via \in Seq(S) /\ Graph!Len(one \o via) = 2 /\ (one \o via)[1] = from /\ (one \o via)[2] = x
  BY <1>1, JoinIs
<1>4. steps \in Seq(S) /\ Graph!Len(steps) = 3 /\ steps[1] = from /\ steps[2] = x /\ steps[3] = to
  BY <1>1, <1>3, JoinIs
<1>5. DOMAIN steps = 1..3 /\ 1..3 = {1, 2, 3}
  BY <1>4
<1> HIDE DEF steps
<1>6. Graph!Range(steps) = {from, x, to}
  BY <1>4, <1>5 DEF Graph!Range
<1>7. Graph!Range(via) = {x}
  BY <1>1, <1>2 DEF Graph!Range
<1>8. Path(steps, from, via, to)
  BY <1>4, <1>6, <1>7 DEF Path
<1> QED
  BY <1>8 DEF steps, one, via, two

-----------------------------------------------------------------------------
(* News graphs: how news spreads to the stock *)

LEMMA ScoreIsNat == ASSUME NEW i PROVE Graph!StockScore(i) \in Nat
<1>1. \A condition : /\ Graph!Points(condition, 2) \in {0, 2} /\ Graph!Points(condition, 5) \in {0, 5}
                     /\ Graph!Points(condition, 6) \in {0, 6} /\ Graph!Points(condition, 10) \in {0, 10}
                     /\ Graph!Points(condition, 12) \in {0, 12}
  BY DEF Graph!Points
<1> QED
  BY <1>1 DEF Graph!StockScore

\* The rows of a graph of a stock or an index.
LEMMA NearbyNewsAre ==
  ASSUME GraphAsked
  PROVE  /\ Graph!Len(Graph!NearbyNews) \in Nat
         /\ DOMAIN Graph!NearbyNews = 1..Graph!Len(Graph!NearbyNews)
         /\ \A k \in DOMAIN Graph!NearbyNews : Graph!NearbyNews[k] \in 1..Pieces
<1> DEFINE direct == Graph!Newest({i \in Graph!News : Graph!Mentions(i) \/ Graph!MentionsComponent(i)}, 3 * MaxNews)
           ofSector == Graph!Newest({i \in Graph!News : query.sector \in Graph!Range(Graph!Item(i).sectors)},
                                    3 * MaxNews)
           R == IF Graph!Cardinality(direct) >= MaxNews \/ query.sector = Nothing THEN direct
                ELSE direct \cup ofSector
           score == [i \in R |-> Graph!StockScore(i)]
           S == {i \in R : score[i] >= 1}
           list == Graph!Rank(score)
           told == Graph!NearbyNews
           n == Cardinality(S)
<1>1. direct \subseteq Graph!News /\ ofSector \subseteq Graph!News
  BY DEF Graph!Newest
<1>2. R \subseteq Graph!News
  BY <1>1
<1>3. told = Graph!First(list, MaxNews)
  BY DEF Graph!NearbyNews
<1> HIDE DEF R, told
<1>4. R \in SUBSET Nat /\ IsFiniteSet(R) /\ R \subseteq 1..Pieces
  BY <1>2, NewsAre, FS_Subset
<1>5. score \in [R -> Nat]
  BY ScoreIsNat
<1> HIDE DEF score
<1>6. InBestOrder(S, [i \in S |-> score[i]], list)
  BY <1>4, <1>5, RankIsBest
<1>7. n \in Nat /\ list \in [1..n -> S] /\ MaxNews \in Nat
  BY <1>6, NewsAssumption DEF InBestOrder
<1>8. S \subseteq 1..Pieces
  BY <1>4
<1> HIDE DEF list, n, S
<1>9. FirstOf(Graph!First(list, MaxNews), list, n, MaxNews)
  BY <1>7, FirstNewsAre, Zenon
<1>10. /\ Graph!Len(told) = (IF n < MaxNews THEN n ELSE MaxNews)
       /\ DOMAIN told = 1..Graph!Len(told)
       /\ \A k \in DOMAIN told : k \in 1..n /\ told[k] = list[k]
  BY <1>3, <1>9 DEF FirstOf
<1>11. Graph!Len(told) \in Nat
  BY <1>7, <1>10
<1>12. \A k \in DOMAIN told : told[k] \in 1..Pieces
  BY <1>7, <1>8, <1>10
<1> QED
  BY <1>10, <1>11, <1>12 DEF told

LEMMA LatestIs ==
  ASSUME NEW S \in SUBSET Nat, IsFiniteSet(S), S # {}
  PROVE  Graph!Max(S) \in S
<1>1. \E x \in S : \A y \in S : y <= x
  BY GreatestIs
<1>2. \E x \in S : \A y \in S : x >= y
  BY <1>1
<1> QED
  BY <1>2 DEF Graph!Max

\* What is between news and the stock.
Between(i, s) ==
  \/ \E e \in query.events : s = <<"event", e>>
  \/ \E t : /\ s = <<"sector", t>> /\ t # Nothing
            /\ t = query.sector \/ t \in Graph!Range(Graph!First(Graph!Item(i).sectors, MaxSectors))

LEMMA SharedSectorIs ==
  ASSUME GraphAsked, NEW i \in 1..Pieces, NEW t, t = Graph!SharedSector(i), t # Nothing
  PROVE  Between(i, <<"sector", t>>)
<1> DEFINE sectors == Graph!Item(i).sectors
           first == Graph!First(sectors, MaxSectors)
<1>1. t = query.sector \/ (sectors # <<>> /\ t = sectors[1])
  BY DEF Graph!SharedSector
<1>2. CASE sectors # <<>> /\ t = sectors[1]
  <2>1. sectors \in Seq(Nat) /\ MaxSectors \in Nat \ {0}
    BY NewsAssumption DEF GraphAsked, Graph!Item
  <2> HIDE DEF sectors
  <2>2. /\ Graph!Len(sectors) \in Nat \ {0}
        /\ sectors \in [1..Graph!Len(sectors) -> Nat]
    BY <1>2, <2>1
  <2>3. FirstOf(first, sectors, Graph!Len(sectors), MaxSectors)
    BY <2>1, <2>2, FirstNewsAre
  <2>4. 1 \in DOMAIN first /\ first[1] = sectors[1]
    BY <2>1, <2>2, <2>3 DEF FirstOf
  <2>5. t \in Graph!Range(first)
    BY <1>2, <2>4 DEF Graph!Range
  <2> QED
    BY <2>5 DEF Between, sectors
<1> QED
  BY <1>1, <1>2 DEF Between

LEMMA PropagationIs ==
  ASSUME GraphAsked, query.what # "focus", NEW i \in 1..Pieces
  PROVE  /\ Graph!Propagation(i).strength \in Nat
         /\ \E via : /\ Path(Graph!Propagation(i).steps, <<"news", i>>, via, <<"stock", Subject>>)
                     /\ \A s \in Graph!Range(via) : Between(i, s)
<1> DEFINE near == Graph!Near(i)
           t == Graph!SharedSector(i)
           via == IF near # {} THEN <<<<"event", Graph!Max(near)>>>>
                  ELSE IF t = Nothing THEN <<>> ELSE <<<<"sector", t>>>>
           chain == Graph!Propagation(i)
<1>1. chain.steps = <<<<"news", i>>>> \o via \o <<<<"stock", Subject>>>>
  BY DEF Graph!Propagation, Graph!Chain
<1>2. chain.strength \in Nat
  <2>1. \A condition : Graph!Points(condition, 8) \in {0, 8}
    BY DEF Graph!Points
  <2> DEFINE base == Graph!Points(TRUE, IF Graph!Mentions(i) THEN 82 ELSE 70)
             more == Graph!Points(near # {}, 8)
  <2>2. base \in {82, 70} /\ more \in {0, 8}
    BY <2>1 DEF Graph!Points
  <2>3. chain.strength = base + more
    BY DEF Graph!Propagation, Graph!Chain
  <2> HIDE DEF chain, base, more
  <2> QED
    BY <2>1, <2>2, <2>3
<1>3. near \subseteq query.events /\ near \in SUBSET Nat /\ IsFiniteSet(near)
  <2>1. near \subseteq query.events
    BY DEF Graph!Near
  <2>2. query.events \in SUBSET Nat /\ IsFiniteSet(query.events)
    BY DEF GraphAsked
  <2> QED
    BY <2>1, <2>2, FS_Subset
<1> HIDE DEF chain, near, t
<1>4. CASE near # {}
  <2>1. via = <<<<"event", Graph!Max(near)>>>>
    BY <1>4
  <2>2. Graph!Max(near) \in query.events
    BY <1>3, <1>4, LatestIs
  <2>3. Between(i, <<"event", Graph!Max(near)>>)
    BY <2>2 DEF Between
  <2> HIDE DEF via
  <2>4. Path(chain.steps, <<"news", i>>, via, <<"stock", Subject>>)
    BY <1>1, <2>1, LongPath
  <2>5. \A s \in Graph!Range(via) : s = <<"event", Graph!Max(near)>>
    BY <2>1 DEF Graph!Range
  <2> QED
    BY <1>2, <2>3, <2>4, <2>5 DEF chain
<1>5. CASE near = {} /\ t # Nothing
  <2>1. via = <<<<"sector", t>>>>
    BY <1>5
  <2>2. Between(i, <<"sector", t>>)
    BY <1>5, SharedSectorIs DEF t
  <2> HIDE DEF via
  <2>3. Path(chain.steps, <<"news", i>>, via, <<"stock", Subject>>)
    BY <1>1, <2>1, LongPath
  <2>4. \A s \in Graph!Range(via) : s = <<"sector", t>>
    BY <2>1 DEF Graph!Range
  <2> QED
    BY <1>2, <2>2, <2>3, <2>4 DEF chain
<1>6. CASE near = {} /\ t = Nothing
  <2>1. via = <<>>
    BY <1>6
  <2> HIDE DEF via
  <2>2. Path(chain.steps, <<"news", i>>, via, <<"stock", Subject>>)
    BY <1>1, <2>1, ShortPath
  <2>3. Graph!Range(via) = {}
    BY <2>1 DEF Graph!Range
  <2> QED
    BY <1>2, <2>2, <2>3 DEF chain
<1> QED
  BY <1>4, <1>5, <1>6

\* What GraphWhole says of nodes and edges.
Whole(nodes, edges, center) ==
  /\ \A e \in edges : {e.source, e.target} \subseteq Graph!Ids(nodes)
  /\ \A m, n \in nodes : m.id = n.id => m = n
  /\ \A n \in nodes : n.size >= 50 <=> n.id = center

LEMMA EndsKept ==
  ASSUME NEW N, NEW nodes, NEW center, NEW edges, KeptWhole(N, nodes, center), \A e \in edges : Ends(e, N)
  PROVE  Whole(nodes, edges, center)
BY DEF KeptWhole, Ends, Whole

LEMMA StockKept ==
  ASSUME NEW told
  PROVE  KeptWhole({[id |-> Graph!Center, size |-> 58]} \cup Graph!StockNeighbours(told),
                   Graph!StockNodes(told), Graph!Center)
<1> DEFINE N == {[id |-> Graph!Center, size |-> 58]} \cup Graph!StockNeighbours(told)
<1>1. Graph!StockNodes(told) = Graph!Largest(N)
  BY DEF Graph!StockNodes
<1>2. Sized(N, Graph!Center, 58)
  BY NeighboursSmall DEF Sized
<1> QED
  BY <1>1, <1>2, LargestKept

LEMMA StockGraphWhole ==
  ASSUME NEW told
  PROVE  Whole(Graph!StockNodes(told), Graph!StockEdges(told), Graph!Center)
<1> DEFINE nodes == Graph!StockNodes(told)
           edges == Graph!StockEdges(told)
           top == [id |-> Graph!Center, size |-> 58]
           N == {top} \cup Graph!StockNeighbours(told)
<1>1. KeptWhole(N, nodes, Graph!Center)
  BY StockKept
<1>2. top \in N /\ top.id = Graph!Center /\ Graph!StockNeighbours(told) \subseteq N
  OBVIOUS
<1> HIDE DEF N, top
<1>3. \A e \in edges : Ends(e, N)
  BY <1>2, EdgesEnd
<1> HIDE DEF nodes, edges
<1>4. Whole(nodes, edges, Graph!Center)
  BY <1>1, <1>3, EndsKept
<1> QED
  BY <1>4 DEF nodes, edges

FocusNodes(told) == Graph!Largest({Graph!Node("news", 0, 54)} \cup Graph!FocusNeighbours(told))
FocusEdges(told) == {Graph!Edge(<<"news", 0>>, n.id, "related") : n \in Graph!FocusNeighbours(told)}

LEMMA FocusKept ==
  ASSUME NEW told
  PROVE  KeptWhole({Graph!Node("news", 0, 54)} \cup Graph!FocusNeighbours(told), FocusNodes(told), <<"news", 0>>)
<1> DEFINE top == Graph!Node("news", 0, 54)
           N == {top} \cup Graph!FocusNeighbours(told)
<1>1. top = [id |-> <<"news", 0>>, size |-> 54]
  BY DEF Graph!Node
<1>2. ASSUME NEW n \in Graph!FocusNeighbours(told) PROVE Small(n)
  <2>1. \/ \E s : n = Graph!Node("stock", s, 28)
        \/ \E s : n = Graph!Node("sector", s, 24)
        \/ n = Graph!Node("theme", query.center.theme, 20)
        \/ \E i : n = Graph!Node("news", i, 24)
    BY DEF Graph!FocusNeighbours
  <2> QED
    BY <2>1, NodeIs
<1>3. Sized(N, <<"news", 0>>, 54)
  <2> HIDE DEF top
  <2> QED
    BY <1>1, <1>2 DEF Sized
<1>4. FocusNodes(told) = Graph!Largest(N)
  BY DEF FocusNodes
<1> QED
  BY <1>3, <1>4, LargestKept

LEMMA FocusGraphWhole == ASSUME NEW told PROVE Whole(FocusNodes(told), FocusEdges(told), <<"news", 0>>)
<1> DEFINE nodes == FocusNodes(told)
           edges == FocusEdges(told)
           top == Graph!Node("news", 0, 54)
           N == {top} \cup Graph!FocusNeighbours(told)
<1>1. KeptWhole(N, nodes, <<"news", 0>>)
  BY FocusKept
<1>2. top \in N /\ top.id = <<"news", 0>> /\ Graph!FocusNeighbours(told) \subseteq N
  BY DEF Graph!Node
<1> HIDE DEF N, top
<1>3. ASSUME NEW e \in edges PROVE Ends(e, N)
  <2>1. PICK n \in Graph!FocusNeighbours(told) : e = Graph!Edge(<<"news", 0>>, n.id, "related")
    BY DEF FocusEdges
  <2> QED
    BY <1>2, <2>1, EndIs
<1> HIDE DEF nodes, edges
<1>4. Whole(nodes, edges, <<"news", 0>>)
  BY <1>1, <1>3, EndsKept
<1> QED
  BY <1>4 DEF nodes, edges

\* The rows of a stock's graph are ranked out of its own news and others.
LEMMA NearbyNewsOrdered ==
  ASSUME GraphAsked, query.what = "stock"
  PROVE  Ordered(Graph!NearbyNews)
<1> DEFINE direct == Graph!Newest({i \in Graph!News : Graph!Mentions(i) \/ Graph!MentionsComponent(i)}, 3 * MaxNews)
           ofSector == Graph!Newest({i \in Graph!News : query.sector \in Graph!Range(Graph!Item(i).sectors)},
                                    3 * MaxNews)
           R == IF Graph!Cardinality(direct) >= MaxNews \/ query.sector = Nothing THEN direct
                ELSE direct \cup ofSector
<1>1. direct \subseteq Graph!News /\ ofSector \subseteq Graph!News
  BY DEF Graph!Newest
<1>2. StockRows(R)
  BY <1>1 DEF StockRows
<1>3. Graph!NearbyNews = Graph!First(Graph!Rank([i \in R |-> Graph!StockScore(i)]), MaxNews)
  BY DEF Graph!NearbyNews
<1> HIDE DEF R
<1> QED
  BY <1>2, <1>3, RanksNamedFirst

-----------------------------------------------------------------------------
(* News graphs: its chains are in the graph *)

\* A chain from news of the graph to one of the ends.
Led(steps, ends, nodes) ==
  /\ steps[1][1] = "news" /\ steps[1] \in Graph!Ids(nodes)
  /\ query.what = "stock" => Graph!Range(steps) \subseteq Graph!Ids(nodes)
  /\ steps[Graph!Len(steps)] \in ends

\* ChainsLead, of the nodes.
Lead(chains, ends, nodes) ==
  /\ Graph!Len(chains) <= MaxChains
  /\ \A j, k \in DOMAIN chains : j < k =>
       chains[j].steps # chains[k].steps /\ chains[j].strength >= chains[k].strength
  /\ \A k \in DOMAIN chains : Led(chains[k].steps, ends, nodes)

LEMMA LimitLeads ==
  ASSUME NEW chains, NEW n, Strong(chains, n), NEW ends, NEW nodes,
         \A j \in DOMAIN chains : Led(chains[j].steps, ends, nodes)
  PROVE  Lead(Graph!LimitChains(chains), ends, nodes)
<1>1. Limited(Graph!LimitChains(chains), chains)
  BY LimitIs
<1> QED
  BY <1>1 DEF Limited, Lead

LEMMA PropagationLed ==
  ASSUME GraphAsked, query.what # "focus", NEW told, NEW i \in Graph!Range(told), i \in 1..Pieces
  PROVE  Led(Graph!Propagation(i).steps, {<<"stock", Subject>>}, Graph!StockNodes(told))
<1> DEFINE N == {[id |-> Graph!Center, size |-> 58]} \cup Graph!StockNeighbours(told)
           nodes == Graph!StockNodes(told)
           steps == Graph!Propagation(i).steps
<1>1. \A n \in N : n.id \in Graph!Ids(nodes)
  BY StockKept DEF KeptWhole
<1>2. PICK via : /\ Path(steps, <<"news", i>>, via, <<"stock", Subject>>)
                 /\ \A s \in Graph!Range(via) : Between(i, s)
  BY PropagationIs
<1>3. NodesOf(i, told) \subseteq N
  BY NeighboursAre
<1> HIDE DEF nodes, steps
<1>4. <<"news", i>> \in Graph!Ids(nodes)
  <2>1. Graph!Node("news", i, IF Graph!Mentions(i) THEN 30 ELSE 24) \in N
    BY <1>3 DEF NodesOf
  <2> QED
    BY <1>1, <2>1 DEF Graph!Node
<1>5. ASSUME query.what = "stock" PROVE <<"stock", Subject>> \in Graph!Ids(nodes)
  <2>1. Graph!Center = <<"stock", Subject>>
    BY <1>5 DEF Graph!Center
  <2> DEFINE top == [id |-> Graph!Center, size |-> 58]
  <2>2. top \in N /\ top.id = Graph!Center
    OBVIOUS
  <2> HIDE DEF top, N
  <2>3. top.id \in Graph!Ids(nodes)
    BY <1>1, <2>2
  <2> QED
    BY <2>1, <2>2, <2>3
<1>6. ASSUME NEW s \in Graph!Range(via) PROVE s \in Graph!Ids(nodes)
  <2>1. CASE \E e \in query.events : s = <<"event", e>>
    <3>1. PICK e \in query.events : s = <<"event", e>>
      BY <2>1
    <3>2. Graph!Node("event", e, 26) \in N
      BY NeighboursAre
    <3> QED
      BY <1>1, <3>1, <3>2 DEF Graph!Node
  <2>2. ASSUME NEW t, s = <<"sector", t>>, t # Nothing, t = query.sector
        PROVE  s \in Graph!Ids(nodes)
    <3>1. Graph!Node("sector", t, 34) \in N
      BY <2>2, NeighboursAre
    <3> QED
      BY <1>1, <2>2, <3>1 DEF Graph!Node
  <2>3. ASSUME NEW t, s = <<"sector", t>>, t \in Graph!Range(Graph!First(Graph!Item(i).sectors, MaxSectors))
        PROVE  s \in Graph!Ids(nodes)
    <3>1. Graph!Node("sector", t, 24) \in Graph!SectorNodes(i, 24)
      BY <2>3 DEF Graph!SectorNodes
    <3>2. Graph!Node("sector", t, 24) \in N
      BY <1>3, <3>1 DEF NodesOf
    <3> QED
      BY <1>1, <2>3, <3>2 DEF Graph!Node
  <2>4. Between(i, s)
    BY <1>2
  <2> QED
    BY <2>1, <2>2, <2>3, <2>4 DEF Between
<1> HIDE DEF N
<1>7. /\ steps[1] = <<"news", i>> /\ steps[Graph!Len(steps)] = <<"stock", Subject>>
      /\ Graph!Range(steps) = {<<"news", i>>, <<"stock", Subject>>} \cup Graph!Range(via)
  BY <1>2 DEF Path
<1>8. Led(steps, {<<"stock", Subject>>}, nodes)
  <2>1. steps[1][1] = "news" /\ steps[1] \in Graph!Ids(nodes)
    BY <1>4, <1>7
  <2>2. query.what = "stock" => Graph!Range(steps) \subseteq Graph!Ids(nodes)
    BY <1>4, <1>5, <1>6, <1>7
  <2>3. steps[Graph!Len(steps)] \in {<<"stock", Subject>>}
    BY <1>7
  <2> QED
    BY <2>1, <2>2, <2>3 DEF Led
<1> QED
  BY <1>8 DEF steps, nodes

LEMMA StockChainsLead ==
  ASSUME GraphAsked, query.what # "focus", NEW told, told = Graph!NearbyNews
  PROVE  Lead(Graph!Propagations(told), {<<"stock", Subject>>}, Graph!StockNodes(told))
<1> DEFINE chains == [k \in DOMAIN told |-> Graph!Propagation(told[k])]
           n == Graph!Len(told)
<1>1. n \in Nat /\ DOMAIN told = 1..n /\ \A k \in DOMAIN told : told[k] \in 1..Pieces
  BY NearbyNewsAre
<1> HIDE DEF n
<1>2. \A k \in DOMAIN told : told[k] \in Graph!Range(told)
  BY DEF Graph!Range
<1>3. DOMAIN chains = 1..n /\ \A k \in 1..n : chains[k] = Graph!Propagation(told[k])
  BY <1>1
<1>4. Strong(chains, n)
  BY <1>1, <1>3, PropagationIs DEF Strong
<1>5. \A k \in 1..n : Led(chains[k].steps, {<<"stock", Subject>>}, Graph!StockNodes(told))
  BY <1>1, <1>2, <1>3, PropagationLed
<1>6. Graph!Propagations(told) = Graph!LimitChains(chains)
  BY DEF Graph!Propagations
<1> HIDE DEF chains
<1> QED
  BY <1>3, <1>4, <1>5, <1>6, LimitLeads

LEMMA FocusChainsLead ==
  ASSUME GraphAsked, query.what = "focus", NEW told
  PROVE  Lead(Graph!FocusPropagations, Graph!Stocks, FocusNodes(told))
<1> DEFINE related == query.center.related
           to == Graph!First(related, 3)
           via == CASE query.center.type # 0 -> <<<<"event", query.center.type>>>>
                    [] query.center.type = 0 /\ query.center.sectors # <<>> ->
                         <<<<"sector", query.center.sectors[1]>>>>
                    [] OTHER -> <<>>
           StepsTo(s) == <<<<"news", 0>>>> \o via \o <<<<"stock", s>>>>
           strength == IF query.center.type # 0 THEN 90 ELSE 82
           chains == [k \in DOMAIN to |-> Graph!Chain(StepsTo(to[k]), strength)]
           n == Graph!Len(to)
<1>1. related \in Seq({Subject} \cup Components)
  BY NewsAssumption DEF GraphAsked
<1>2. /\ Graph!Len(related) \in Nat
      /\ related \in [1..Graph!Len(related) -> {Subject} \cup Components]
  <2> HIDE DEF related
  <2> QED
    BY <1>1
<1> HIDE DEF related
<1>3. FirstOf(to, related, Graph!Len(related), 3)
  BY <1>2, FirstNewsAre
<1>4. n \in Nat /\ DOMAIN to = 1..n /\ \A k \in 1..n : to[k] \in {Subject} \cup Components
  BY <1>2, <1>3 DEF FirstOf
<1>5. <<"news", 0>> \in Graph!Ids(FocusNodes(told))
  <2>1. Graph!Node("news", 0, 54).id \in Graph!Ids(FocusNodes(told))
    BY FocusKept DEF KeptWhole
  <2> QED
    BY <2>1 DEF Graph!Node
<1>6. via = <<>> \/ \E x : via = <<x>>
  OBVIOUS
<1>7. strength \in Nat
  OBVIOUS
<1>8. Graph!FocusPropagations = Graph!LimitChains(chains)
  BY DEF Graph!FocusPropagations, related
<1> HIDE DEF via, strength, to, n
<1>9. ASSUME NEW s \in {Subject} \cup Components PROVE Led(StepsTo(s), Graph!Stocks, FocusNodes(told))
  <2>1. Path(StepsTo(s), <<"news", 0>>, via, <<"stock", s>>)
    BY <1>6, ShortPath, LongPath
  <2> HIDE DEF StepsTo
  <2>2. StepsTo(s)[1] = <<"news", 0>> /\ StepsTo(s)[Graph!Len(StepsTo(s))] = <<"stock", s>>
    BY <2>1 DEF Path
  <2>3. <<"stock", s>> \in Graph!Stocks
    BY DEF Graph!Stocks
  <2> QED
    BY <1>5, <2>2, <2>3 DEF Led
<1> HIDE DEF StepsTo
<1>10. DOMAIN chains = 1..n /\ \A k \in 1..n : chains[k] = [steps |-> StepsTo(to[k]), strength |-> strength]
  BY <1>4 DEF Graph!Chain
<1> HIDE DEF chains
<1>11. Strong(chains, n)
  BY <1>4, <1>7, <1>10 DEF Strong
<1>12. \A k \in DOMAIN chains : Led(chains[k].steps, Graph!Stocks, FocusNodes(told))
  BY <1>4, <1>9, <1>10
<1> QED
  BY <1>8, <1>11, <1>12, LimitLeads

-----------------------------------------------------------------------------
(* News graphs: the theorem *)

NewsAnswered == Graph!GraphWhole /\ Graph!NamedFirst /\ Graph!PropagationsLead

\* What is asked stays, and the answer, if there is one, is whole and in order.
GraphInv == part = "graph" => GraphAsked /\ NewsAnswered

LEMMA GraphStarts == ASSUME Graph!Init PROVE GraphAsked /\ page = Nothing
<1>1. \A a, b, date : /\ DOMAIN Graph!Listed(a, b, date) = 1..Pieces
                      /\ \A i \in 1..Pieces : \/ /\ Graph!Listed(a, b, date)[i].sectors = a.sectors
                                               /\ Graph!Listed(a, b, date)[i].related = a.related
                                            \/ /\ Graph!Listed(a, b, date)[i].sectors = b.sectors
                                               /\ Graph!Listed(a, b, date)[i].related = b.related
  BY DEF Graph!Listed
<1>2. page = Nothing
  BY DEF Graph!Init
<1>3. \A a \in Graph!Items : a.sectors \in SectorLists /\ a.related \in Related
  BY DEF Graph!Items
<1>4. IsFiniteSet({}) /\ IsFiniteSet({2, 8})
  <2>1. IsFiniteSet({})
    BY FS_EmptySet
  <2>2. IsFiniteSet({2})
    BY FS_Singleton
  <2>3. IsFiniteSet({2} \cup {8}) /\ {2} \cup {8} = {2, 8}
    BY <2>2, FS_AddElement
  <2> QED
    BY <2>1, <2>3
<1>5. PICK a \in Graph!Items, b \in Graph!Items :
        \/ \E sector \in {1, Nothing}, events \in {{}, {2, 8}}, date \in {1, 8} :
             query = [what |-> "stock", sector |-> sector, events |-> events, news |-> Graph!Listed(a, b, date)]
        \/ query = [what |-> "index", sector |-> Nothing, events |-> {}, news |-> Graph!Listed(a, b, 8)]
        \/ query = [what |-> "focus", sector |-> Nothing, events |-> {}, news |-> Graph!Listed(a, b, 8),
                    center |-> Graph!Listed(b, b, 8)[1]]
  BY DEF Graph!Init
<1>6. CASE \E sector, events, date :
             /\ query = [what |-> "stock", sector |-> sector, events |-> events, news |-> Graph!Listed(a, b, date)]
             /\ events \in {{}, {2, 8}}
  <2>1. PICK sector, events, date :
          /\ query = [what |-> "stock", sector |-> sector, events |-> events, news |-> Graph!Listed(a, b, date)]
          /\ events \in {{}, {2, 8}}
    BY <1>6
  <2>2. query.what = "stock" /\ query.events = events /\ query.news = Graph!Listed(a, b, date)
    BY <2>1
  <2>3. events \in SUBSET Nat /\ IsFiniteSet(events)
    BY <1>4, <2>1
  <2>4. \A i \in 1..Pieces : query.news[i].sectors \in SectorLists
    BY <1>1, <1>3, <2>2
  <2>5. DOMAIN query.news = 1..Pieces
    BY <1>1, <2>2
  <2> QED
    BY <1>2, <2>2, <2>3, <2>4, <2>5 DEF GraphAsked
<1>7. CASE query = [what |-> "index", sector |-> Nothing, events |-> {}, news |-> Graph!Listed(a, b, 8)]
  BY <1>1, <1>2, <1>3, <1>4, <1>7 DEF GraphAsked
<1>8. CASE query = [what |-> "focus", sector |-> Nothing, events |-> {}, news |-> Graph!Listed(a, b, 8),
                    center |-> Graph!Listed(b, b, 8)[1]]
  <2>1. 1 \in 1..Pieces
    BY NewsAssumption
  <2> QED
    BY <1>1, <1>2, <1>3, <1>4, <1>8, <2>1 DEF GraphAsked
<1> QED
  BY <1>5, <1>6, <1>7, <1>8

LEMMA StockGraphAnswers ==
  ASSUME GraphAsked, Graph!build_stock_news_graph
  PROVE  NewsAnswered'
<1> DEFINE told == Graph!NearbyNews
<1>1. query' = query /\ query.what \in {"stock", "index"} /\ page' = Graph!StockGraph
  BY DEF Graph!build_stock_news_graph
<1>2. /\ page'.rows = told /\ page'.nodes = Graph!StockNodes(told)
      /\ page'.edges = Graph!StockEdges(told) /\ page'.propagation = Graph!Propagations(told)
  BY <1>1 DEF Graph!StockGraph
<1> HIDE DEF told
<1>3. Whole(page'.nodes, page'.edges, Graph!Center)
  BY <1>2, StockGraphWhole
<1>4. Graph!Center' = Graph!Center
  BY <1>1 DEF Graph!Center
<1>5. query'.what # "focus"
  BY <1>1
<1>6. Graph!GraphWhole'
  BY <1>3, <1>4, <1>5 DEF Graph!GraphWhole, Graph!Ids, Whole
<1>7. Graph!NamedFirst'
  <2> SUFFICES ASSUME query.what = "stock" PROVE Graph!NamedFirst'
    BY <1>1 DEF Graph!NamedFirst
  <2>1. Ordered(page'.rows)
    BY <1>2, NearbyNewsOrdered DEF told
  <2>2. Graph!News' = Graph!News
    BY <1>1 DEF Graph!News
  <2>3. \A i : Graph!Mentions(i)' = Graph!Mentions(i)
    BY <1>1 DEF Graph!Mentions, Graph!Item
  <2>4. \A i : Graph!StockScore(i)' = Graph!StockScore(i)
    BY <1>1 DEF Graph!StockScore, Graph!Item, Graph!Components0
  <2> QED
    BY <2>1, <2>2, <2>3, <2>4 DEF Graph!NamedFirst, Ordered
<1>8. Graph!PropagationsLead'
  <2>1. Lead(page'.propagation, {<<"stock", Subject>>}, page'.nodes)
    BY <1>1, <1>2, StockChainsLead DEF told
  <2> QED
    BY <1>1, <2>1 DEF Lead, Led, Graph!PropagationsLead, Graph!ChainsLead, Graph!Ids
<1> QED
  BY <1>6, <1>7, <1>8 DEF NewsAnswered

LEMMA FocusGraphAnswers ==
  ASSUME GraphAsked, Graph!build_news_focus_graph
  PROVE  NewsAnswered'
<1> DEFINE told == Graph!NearbyFocusNews
<1>1. query' = query /\ query.what = "focus" /\ page' = Graph!FocusGraph
  BY DEF Graph!build_news_focus_graph
<1>2. /\ page'.nodes = FocusNodes(told) /\ page'.edges = FocusEdges(told)
      /\ page'.propagation = Graph!FocusPropagations
  BY <1>1 DEF Graph!FocusGraph, FocusNodes, FocusEdges
<1> HIDE DEF told
<1>3. Whole(page'.nodes, page'.edges, <<"news", 0>>)
  BY <1>2, FocusGraphWhole
<1>4. query'.what = "focus"
  BY <1>1
<1>5. Graph!GraphWhole'
  BY <1>3, <1>4 DEF Graph!GraphWhole, Graph!Ids, Whole
<1>6. Graph!NamedFirst'
  BY <1>4 DEF Graph!NamedFirst
<1>7. Graph!PropagationsLead'
  <2>1. Lead(page'.propagation, Graph!Stocks, page'.nodes)
    BY <1>1, <1>2, FocusChainsLead
  <2> QED
    BY <1>1, <2>1 DEF Lead, Led, Graph!PropagationsLead, Graph!ChainsLead, Graph!Ids, Graph!Stocks
<1> QED
  BY <1>5, <1>6, <1>7 DEF NewsAnswered

LEMMA GraphInvariant == ApiSpec => []GraphInv
<1>1. ApiInit => GraphInv
  <2> SUFFICES ASSUME ApiInit, part = "graph" PROVE GraphAsked /\ NewsAnswered
    BY DEF GraphInv
  <2>1. Graph!Init
    BY DEF ApiInit
  <2> QED
    BY <2>1, GraphStarts DEF NewsAnswered, Graph!GraphWhole, Graph!NamedFirst, Graph!PropagationsLead
<1>2. GraphInv /\ [ApiNext]_allVars => GraphInv'
  <2> SUFFICES ASSUME GraphInv, [ApiNext]_allVars, part' = "graph"
               PROVE  GraphAsked' /\ NewsAnswered'
    BY DEF GraphInv
  <2>1. CASE UNCHANGED allVars
    <3>1. query' = query /\ page' = page /\ part' = part
      BY <2>1 DEF allVars
    <3>2. GraphAsked /\ Graph!GraphWhole /\ Graph!NamedFirst /\ Graph!PropagationsLead
      BY <3>1 DEF GraphInv, NewsAnswered
    <3>3. GraphAsked'
      BY <3>1, <3>2 DEF GraphAsked
    <3>4. Graph!GraphWhole'
      BY <3>1, <3>2 DEF Graph!GraphWhole, Graph!Center, Graph!Ids
    <3>5. Graph!NamedFirst'
      BY <3>1, <3>2, SMT DEF Graph!NamedFirst, Graph!News, Graph!Mentions, Graph!StockScore, Graph!Item,
                            Graph!Components0
    <3>6. Graph!PropagationsLead'
      <4> DEFINE ends == IF query.what = "focus" THEN Graph!Stocks ELSE {<<"stock", Subject>>}
      <4>1. CASE page = Nothing
        BY <3>1, <4>1 DEF Graph!PropagationsLead
      <4>2. CASE page # Nothing
        <5>1. Lead(page.propagation, ends, page.nodes)
          BY <3>2, <4>2 DEF Lead, Led, Graph!PropagationsLead, Graph!ChainsLead
        <5>2. Lead(page'.propagation, ends, page'.nodes)
          BY <3>1, <5>1
        <5> QED
          BY <3>1, <5>2 DEF Lead, Led, Graph!PropagationsLead, Graph!ChainsLead, Graph!Ids, Graph!Stocks
      <4> QED
        BY <4>1, <4>2
    <3> QED
      BY <3>3, <3>4, <3>5, <3>6 DEF NewsAnswered
  <2>2. CASE ApiNext
    <3>1. part = "graph" /\ Graph!Next
      BY <2>2 DEF ApiNext
    <3>2. GraphAsked
      BY <3>1 DEF GraphInv
    <3>3. Graph!build_stock_news_graph \/ Graph!build_news_focus_graph
      BY <3>1 DEF Graph!Next
    <3>4. query' = query
      BY <3>3 DEF Graph!build_stock_news_graph, Graph!build_news_focus_graph
    <3>5. GraphAsked'
      BY <3>2, <3>4 DEF GraphAsked
    <3> QED
      BY <3>2, <3>3, <3>5, StockGraphAnswers, FocusGraphAnswers
  <2> QED
    BY <2>1, <2>2
<1> QED
  BY <1>1, <1>2, PTL DEF ApiSpec

\* For any news and limits, both ends of an edge of a graph are in it, an id is
\* that of one node and none is as large as the center; news that names the stock
\* comes first, and is left out only of a graph that is full of news that names it.
\* The chains to the stock begin with news, pass what is in the graph and are shown
\* once each, the strongest first.
THEOREM NewsStayInOrder == ApiSpec => []NewsInOrder
<1>1. GraphInv => NewsInOrder
  BY DEF GraphInv, NewsAnswered, NewsInOrder
<1> QED
  BY <1>1, GraphInvariant, PTL

\* Whatever it is asked, an analysis answers what agrees with its data.
THEOREM AnalysesDoAgree == ApiSpec => []AnalysesAgree
<1>1. StrategySound /\ NewsInOrder /\ ExposuresSettle /\ VerdictsStand => AnalysesAgree
  BY DEF AnalysesAgree
<1> QED
  BY <1>1, StrategyIsSound, NewsStayInOrder, ExposuresDoSettle, VerdictsDoStand, PTL
=============================================================================
