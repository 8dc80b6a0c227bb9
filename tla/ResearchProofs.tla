----------------------------- MODULE ResearchProofs ----------------------------
(***************************************************************************)
(* The research side: the prediction rule, the time splits, the backtest,  *)
(* the pages of events, the news behind them, the brief and the adjusted   *)
(* prices, one section each.                                               *)
(*                                                                         *)
(* Prediction: ConfidenceIsEarned for any thresholds and any values of the *)
(* inputs.  The rows are what Predicted makes of some inputs; the rest is  *)
(* about the range of its parts, above all that a big move answered by the *)
(* dampener leaves no momentum.                                            *)
(* Time splits: FoldsApart for every call of the functions of              *)
(* time_split.py.  What ties the folds together is that each begins its    *)
(* test step_days after the one before it, and that the loop's counter is  *)
(* step_days past the last.                                                *)
(* Backtest: NavIsEarned and OverdraftIsCosts for any instruments, closes, *)
(* capital and cost models.  A ledger's sums are over a finite set         *)
(* (FoldFacts); LedgerInv ties the value recorded to cash and positions.   *)
(* Event pages: PagesOwnUp for whatever the providers answer and the cache *)
(* still holds.  The invariant keeps what a page was given beside what it  *)
(* shows of it.                                                            *)
(* News: ArticlesOnce and LimitsAreTold for any tickers, articles and      *)
(* answers.  The fold that drops repeated articles is taken apart one row  *)
(* at a time with FoldFacts.                                               *)
(* Brief: HistoryAgrees for any tickers, prices, mirror, news and limits.  *)
(* Every list of a brief is a finite set in some order (FoldFacts); the    *)
(* candidates that are stored are the first ones, and a part of a sorted   *)
(* set keeps its order.                                                    *)
(* Adjusted prices: WindowsAgree for any closes, ratios and payments.  A   *)
(* window is read through the actions after a bar's day, so two windows    *)
(* that hold the bar take the same ratios on it; AdjInv only types the     *)
(* rows.                                                                   *)
(***************************************************************************)
EXTENDS RuleV2, TimeSplits, Backtest, EventPages, NewsFeed, Brief, AdjustedPrices, FoldFacts, TLAPS

(***************************************************************************)
(* Prediction.                                                             *)
(***************************************************************************)

RowOf(t) == t \in Inputs /\ t.move # Missing /\ row = Predicted(t)

RuleInv ==
  /\ regime \in Regimes \cup {"unread"}
  /\ regime = "unread" => lag = Unread
  /\ row.eligible => regime \in Regimes /\ \E t \in Inputs : RowOf(t)

LEMMA InputTypes ==
  ASSUME NEW t \in Inputs, t.move # Missing
  PROVE  /\ t.move \in Int /\ t.volume \in Int /\ t.news \in Int /\ t.priority \in Int
         /\ t.position # Missing => t.position \in Int
         /\ {MomentumBand, ExtensionMove, HighPosition, LowPosition} \subseteq Nat
         /\ 0 < MomentumBand /\ MomentumBand <= ExtensionMove
  BY RuleAssumption DEF Inputs

\* Momentum and extension never point the same way, and extension alone never stands.
LEMMA BalancedMove ==
  ASSUME NEW t \in Inputs, t.move # Missing
  PROVE  /\ Momentum(t) \in {-1, 0, 1} /\ Extension(t) \in {-1, 0, 1}
         /\ Extension(t) # 0 => Momentum(t) + Extension(t) = 0
  <1>1. Momentum(t) \in {-1, 0, 1}
    BY DEF Momentum
  <1>2. CASE Extension(t) = 0
    BY <1>1, <1>2
  <1>3. CASE Extension(t) # 0
    <2>1. t.position # Missing
      BY <1>3 DEF Extension
    <2>2. \/ t.move >= ExtensionMove /\ Extension(t) = -1
          \/ t.move <= -ExtensionMove /\ Extension(t) = 1
      BY <1>3, <2>1 DEF Extension
    <2>3. /\ t.move \in Int /\ MomentumBand \in Nat /\ ExtensionMove \in Nat
          /\ 0 < MomentumBand /\ MomentumBand <= ExtensionMove
      BY InputTypes
    <2>4. CASE t.move >= ExtensionMove /\ Extension(t) = -1
      <3>1. t.move >= MomentumBand
        BY <2>3, <2>4
      <3>2. Momentum(t) = 1
        BY <3>1 DEF Momentum
      <3> QED
        BY <3>2, <2>4
    <2>5. CASE t.move <= -ExtensionMove /\ Extension(t) = 1
      <3>1. t.move <= -MomentumBand /\ ~(t.move >= MomentumBand)
        BY <2>3, <2>5
      <3>2. Momentum(t) = -1
        BY <3>1 DEF Momentum
      <3> QED
        BY <3>2, <2>5
    <2> QED
      BY <2>2, <2>4, <2>5
  <1> QED
    BY <1>2, <1>3

\* What a composite may be, and what the highest one takes.
LEMMA CompositeRange ==
  ASSUME NEW t \in Inputs, t.move # Missing,
         NEW composite, composite = Momentum(t) + Extension(t) + News(t) + RegimeSignal
  PROVE  /\ composite \in -2 .. 3
         /\ composite = 3 => regime = "positive" /\ Extension(t) = 0
  <1> DEFINE move == Momentum(t) + Extension(t)
  <1>1. move \in {-1, 0, 1} /\ (Extension(t) # 0 => move = 0)
    BY BalancedMove
  <1>2. News(t) \in {0, 1}
    BY DEF News
  <1>3. /\ RegimeSignal \in {-1, 0, 1}
        /\ RegimeSignal = 1 => regime = "positive"
    BY DEF RegimeSignal
  <1>4. composite = move + News(t) + RegimeSignal
    BY BalancedMove
  <1> HIDE DEF move
  <1>5. composite \in -2 .. 3 /\ (composite = 3 => move = 1 /\ RegimeSignal = 1)
    BY <1>1, <1>2, <1>3, <1>4
  <1> QED
    BY <1>1, <1>3, <1>5

LEMMA PredictedEarns ==
  ASSUME NEW t \in Inputs, RowOf(t), regime \in Regimes
  PROVE  ConfidenceIsEarned
  <1> DEFINE extension == Extension(t)
             composite == Momentum(t) + extension + News(t) + RegimeSignal
             direction == Direction(composite, extension)
  <1>1. /\ row.extension = extension /\ row.composite = composite /\ row.direction = direction
        /\ row.bucket = Bucket(direction, composite)
        /\ row.confidence = Confidence(t, composite, direction)
    BY DEF RowOf, Predicted
  <1>2. /\ extension \in {-1, 0, 1} /\ composite \in -2 .. 3
        /\ composite = 3 => regime = "positive" /\ extension = 0
    BY BalancedMove, CompositeRange DEF RowOf
  <1> HIDE DEF extension, composite
  <1>3. direction \in {"up", "flat-up", "flat-down", "down"}
    BY <1>2 DEF Direction
  <1>4. /\ extension = -1 => direction \in {"down", "flat-down"}
        /\ extension # -1 /\ composite = 3 => direction = "up"
        /\ extension # -1 /\ direction \in {"down", "flat-down"} => composite <= 0
    BY <1>2 DEF Direction
  <1> HIDE DEF direction
  <1>5. row.bucket # "below_minus_3"
    BY <1>1, <1>2, <1>3 DEF Bucket
  <1>6. row.confidence = "high" =>
          row.direction = "up" /\ regime = "positive" /\ row.bucket = "above_plus_3"
    <2> SUFFICES ASSUME row.confidence = "high"
                 PROVE  row.direction = "up" /\ regime = "positive" /\ row.bucket = "above_plus_3"
      OBVIOUS
    <2>1. composite >= 3 \/ composite <= -3
      BY <1>1 DEF Confidence
    <2>2. composite = 3
      BY <2>1, <1>2
    <2> QED
      BY <2>2, <1>1, <1>2, <1>4 DEF Bucket
  <1>7. row.confidence = "medium" => composite >= 2 \/ composite <= -2
    BY <1>1 DEF Confidence
  <1>8. row.confidence = "medium" /\ row.direction \in {"down", "flat-down"} =>
          \/ row.composite = -2
          \/ row.extension = -1 /\ row.composite = 2
    <2> SUFFICES ASSUME row.confidence = "medium", direction \in {"down", "flat-down"}
                 PROVE  composite = -2 \/ (extension = -1 /\ composite = 2)
      BY <1>1
    <2>1. composite \in {-2, 2, 3}
      BY <1>2, <1>7
    <2> QED
      BY <2>1, <1>2, <1>4
  <1> QED
    BY <1>1, <1>2, <1>4, <1>5, <1>6, <1>8 DEF ConfidenceIsEarned

LEMMA StepRule == ASSUME RuleInv, [RuleNext]_ruleVars PROVE RuleInv'
  <1>1. CASE ReadRegime
    <2>1. regime' \in Regimes
      BY <1>1 DEF ReadRegime, MarketRegime, Regimes
    <2>2. ~row.eligible /\ row' = row /\ lag' = lag
      BY <1>1 DEF ReadRegime, RuleInv, Regimes
    <2> QED
      BY <2>1, <2>2 DEF RuleInv, Regimes
  <1>2. CASE FindAnchor \/ FindPreviousClose
    BY <1>2 DEF FindAnchor, FindPreviousClose, RuleInv, NotEligible
  <1>3. CASE Predict
    <2>1. PICK t \in Inputs :
            row' = IF EligibleLatestAnchor(t) THEN Predicted(t) ELSE NotEligible
      BY <1>3 DEF Predict
    <2>2. regime' = regime /\ regime \in Regimes /\ lag' = Unread
      BY <1>3 DEF Predict, RuleInv
    <2>3. Predicted(t)' = Predicted(t)
      BY <2>2 DEF Predicted, Momentum, Extension, News, RegimeSignal, Direction, Negative,
                  Bucket, Confidence, Quality, RegimeAligns
    <2>4. row'.eligible => row' = Predicted(t)' /\ t.move # Missing
      BY <2>1, <2>3 DEF NotEligible, EligibleLatestAnchor
    <2> QED
      BY <2>2, <2>4 DEF RuleInv, RowOf
  <1>4. CASE UNCHANGED ruleVars
    <2>1. \A t \in Inputs : Predicted(t)' = Predicted(t)
      BY <1>4 DEF ruleVars, Predicted, Momentum, Extension, News, RegimeSignal, Direction,
                  Negative, Bucket, Confidence, Quality, RegimeAligns
    <2> QED
      BY <1>4, <2>1 DEF ruleVars, RuleInv, RowOf
  <1> QED
    BY <1>1, <1>2, <1>3, <1>4 DEF RuleNext

(* Whatever the thresholds, compute_per_ticker_v21 is highly confident     *)
(* only of "up" in a positive market, and never of a fall.                 *)
THEOREM ConfidenceEarned == RuleSpec => []ConfidenceIsEarned
  <1>1. RuleInit => RuleInv
    BY DEF RuleInit, RuleInv, NotEligible
  <1>2. RuleInv => ConfidenceIsEarned
    BY PredictedEarns DEF RuleInv, ConfidenceIsEarned
  <1> QED
    BY <1>1, <1>2, StepRule, PTL DEF RuleSpec

(***************************************************************************)
(* Time splits.                                                            *)
(***************************************************************************)

Calls == [kind : Kinds, train : Nat, test : Nat, step : Nat \ {0}, end : Nat]
Folds == [train_start : Nat, train_end : Nat, test_start : Nat, test_end : Int]

TypeInv ==
  /\ split \in Calls
  /\ train \in Nat
  /\ folds \in Seq(Folds)

Looping == split.kind # "simple"

\* A fold of either loop, and the one after it.
EachFold ==
  \A k \in DOMAIN folds :
    /\ folds[k].train_start <= folds[k].train_end
    /\ folds[k].train_end + 1 = folds[k].test_start
    /\ folds[k].test_end <= split.end
    /\ Looping => folds[k].test_end = folds[k].test_start + split.test
    /\ ~Looping => /\ folds[k].train_end <= split.end
                   /\ folds[k].test_end = split.end
Spaced ==
  \A k \in DOMAIN folds : k + 1 \in DOMAIN folds =>
    folds[k + 1].test_start = folds[k].test_start + split.step
Counter ==
  Looping /\ folds # <<>> =>
    train + split.train + 1 = folds[Len(folds)].test_start + split.step
OneCut == ~Looping => train = 0 /\ Len(folds) \in {0, 1}

SplitsInv == TypeInv /\ EachFold /\ Spaced /\ Counter /\ OneCut

\* A share of the days, in per cent and rounded down, is one of the days.
LEMMA ShareIsPart ==
  ASSUME NEW end \in Nat, NEW ratio \in 0 .. 100
  PROVE  (end * ratio) \div 100 \in 0 .. end
  <1>1. end * ratio \in Nat /\ end * ratio <= end * 100
    OBVIOUS
  <1> QED
    BY <1>1

LEMMA InitSplits == SplitsInit => SplitsInv
  BY DEF SplitsInit, SplitsInv, TypeInv, EachFold, Spaced, Counter, OneCut, Uncalled,
         Calls, Kinds, Looping

LEMMA CallKeeps == ASSUME SplitsInv, CallSplits PROVE SplitsInv'
  <1>1. split'.kind \in Kinds \ {"simple"} /\ split' \in Calls
    BY SplitsAssumption DEF CallSplits, Calls, Kinds
  <1>2. folds = <<>> /\ UNCHANGED <<train, folds>>
    BY DEF CallSplits
  <1> QED
    BY <1>1, <1>2 DEF SplitsInv, TypeInv, EachFold, Spaced, Counter, OneCut, Looping

LEMMA SimpleKeeps == ASSUME SplitsInv, SimpleSplit PROVE SplitsInv'
  <1>1. PICK ratio \in Ratios, end \in 0 .. LastDate :
          LET trained == (end * ratio) \div 100
          IN  /\ split' = [Uncalled EXCEPT !.train = trained, !.end = end]
              /\ folds' = <<[train_start |-> 0, train_end |-> trained,
                             test_start |-> trained + 1, test_end |-> end]>>
    BY DEF SimpleSplit
  <1> DEFINE trained == (end * ratio) \div 100
  <1>2. trained \in 0 .. end /\ end \in Nat
    BY ShareIsPart, SplitsAssumption
  <1> HIDE DEF trained
  <1>3. split' = [kind |-> "simple", train |-> trained, test |-> 0, step |-> 1, end |-> end]
    BY <1>1 DEF Uncalled, trained
  <1>4. folds' = <<[train_start |-> 0, train_end |-> trained,
                    test_start |-> trained + 1, test_end |-> end]>>
    BY <1>1 DEF trained
  <1>5. train' = 0
    BY DEF SimpleSplit, SplitsInv, OneCut, Looping, Uncalled
  <1>6. /\ folds' \in Seq(Folds) /\ Len(folds') = 1 /\ DOMAIN folds' = {1}
        /\ folds'[1] = [train_start |-> 0, train_end |-> trained,
                        test_start |-> trained + 1, test_end |-> end]
    BY <1>2, <1>4 DEF Folds
  <1>7. split' \in Calls /\ split'.kind = "simple" /\ split'.end = end
    BY <1>2, <1>3 DEF Calls, Kinds
  <1>8. EachFold'
    BY <1>2, <1>6, <1>7 DEF EachFold, Looping
  <1>9. Spaced' /\ Counter' /\ OneCut' /\ TypeInv'
    BY <1>5, <1>6, <1>7 DEF Spaced, Counter, OneCut, Looping, TypeInv
  <1> QED
    BY <1>8, <1>9 DEF SplitsInv

LEMMA FoldKeeps == ASSUME SplitsInv, AppendFold PROVE SplitsInv'
  <1> DEFINE last == Len(folds)
  <1>1. /\ split \in Calls /\ train \in Nat /\ folds \in Seq(Folds) /\ last \in Nat
        /\ Looping /\ split' = split /\ train' = train + split.step
        /\ folds' = Append(folds, Fold) /\ Fold.test_end <= split.end
    BY DEF SplitsInv, TypeInv, AppendFold, Looping
  <1>2. /\ split.train \in Nat /\ split.test \in Nat /\ split.step \in Nat /\ split.end \in Nat
    BY <1>1 DEF Calls
  <1>3. /\ Fold \in Folds
        /\ Fold.train_start <= Fold.train_end
        /\ Fold.train_end + 1 = Fold.test_start
        /\ Fold.test_start = train + split.train + 1
        /\ Fold.test_end = Fold.test_start + split.test
    BY <1>1, <1>2 DEF Fold, Folds
  <1>4. /\ Len(folds') = last + 1 /\ folds'[last + 1] = Fold
        /\ \A k \in 1 .. last : folds'[k] = folds[k]
        /\ DOMAIN folds' = 1 .. last + 1 /\ DOMAIN folds = 1 .. last
        /\ folds' \in Seq(Folds)
    BY <1>1, <1>3
  <1> HIDE DEF last
  <1>5. TypeInv' /\ OneCut'
    BY <1>1, <1>2, <1>4 DEF TypeInv, OneCut, Looping
  <1>6. EachFold'
    BY <1>1, <1>3, <1>4 DEF SplitsInv, EachFold, Looping
  <1>7. Spaced'
    <2> SUFFICES ASSUME NEW k \in 1 .. last
                 PROVE  folds'[k + 1].test_start = folds'[k].test_start + split.step
      BY <1>1, <1>4 DEF Spaced
    <2>1. CASE k < last
      <3>1. k + 1 \in 1 .. last /\ k \in 1 .. last
        BY <2>1, <1>1
      <3>2. folds'[k + 1] = folds[k + 1] /\ folds'[k] = folds[k]
        BY <3>1, <1>4
      <3> QED
        BY <3>1, <3>2, <1>4 DEF SplitsInv, Spaced
    <2>2. CASE k = last
      <3>1. folds'[k + 1] = Fold /\ folds'[k] = folds[last]
        BY <2>2, <1>4
      <3>2. train + split.train + 1 = folds[last].test_start + split.step
        BY <2>2, <1>1, <1>4 DEF SplitsInv, Counter, last
      <3> QED
        BY <3>1, <3>2, <1>3
    <2>3. k < last \/ k = last
      <3>1. last \in Nat /\ k \in 1 .. last
        BY <1>1
      <3> QED
        BY <3>1
    <2> QED
      BY <2>1, <2>2, <2>3
  <1>8. Counter'
    <2>1. folds'[Len(folds')].test_start = train + split.train + 1
      BY <1>3, <1>4
    <2>2. train' + split'.train + 1 = train + split.step + split.train + 1 /\ split' = split
      BY <1>1
    <2>3. train + split.step + split.train + 1 = (train + split.train + 1) + split.step
      BY <1>1, <1>2
    <2> QED
      BY <2>1, <2>2, <2>3 DEF Counter
  <1> QED
    BY <1>5, <1>6, <1>7, <1>8 DEF SplitsInv

LEMMA SplitsInvariant == SplitsSpec => []SplitsInv
  <1>1. ASSUME SplitsInv, UNCHANGED tsVars PROVE SplitsInv'
    BY <1>1 DEF SplitsInv, TypeInv, EachFold, Spaced, Counter, OneCut, Looping, tsVars
  <1>2. SplitsInv /\ [SplitsNext]_tsVars => SplitsInv'
    BY CallKeeps, SimpleKeeps, FoldKeeps, <1>1 DEF SplitsNext
  <1> QED
    BY InitSplits, <1>2, PTL DEF SplitsSpec

LEMMA InvApart == SplitsInv => FoldsApart
  <1> SUFFICES ASSUME SplitsInv PROVE FoldsApart
    OBVIOUS
  <1>1. /\ split.test \in Nat /\ split.step \in Nat
        /\ \A k \in DOMAIN folds : folds[k] \in Folds
    BY DEF SplitsInv, TypeInv, Calls
  <1>2. ASSUME NEW k \in DOMAIN folds
        PROVE  /\ folds[k].train_start <= folds[k].train_end
               /\ folds[k].train_end < folds[k].test_start
               /\ folds[k].test_end <= split.end
               /\ \/ folds[k].test_start <= folds[k].test_end
                  \/ split.kind = "simple" /\ folds[k].train_end = split.end
    BY <1>1 DEF SplitsInv, EachFold, Looping, Folds
  <1>3. ASSUME NEW k \in DOMAIN folds, k + 1 \in DOMAIN folds
        PROVE  folds[k + 1].test_start <= folds[k].test_end <=> split.step <= split.test
    <2>1. Looping
      BY <1>3 DEF SplitsInv, OneCut, TypeInv
    <2>2. /\ folds[k + 1].test_start = folds[k].test_start + split.step
          /\ folds[k].test_end = folds[k].test_start + split.test
          /\ folds[k].test_start \in Nat
      BY <2>1, <1>1, <1>3 DEF SplitsInv, EachFold, Spaced, Folds
    <2> QED
      BY <2>2, <1>1
  <1> QED
    BY <1>2, <1>3 DEF FoldsApart

(* Whatever spans a caller of time_split.py passes, each fold tests after  *)
(* it has trained and inside the period, and neighbours share a test day   *)
(* exactly when step_days <= test_days.                                    *)
THEOREM FoldsStayApart == SplitsSpec => []FoldsApart
  BY SplitsInvariant, InvApart, PTL

(***************************************************************************)
(* Backtest.                                                               *)
(***************************************************************************)

LedgerType ==
  [cash : Int, held : [Assets -> Int], nav : Int, first : Int,
   trades : [Assets -> [qty : Int, cost : Nat]], records : 0 .. 2]

LedgerTyped ==
  /\ bar \in Int
  /\ close \in [Assets -> Nat]
  /\ ledger \in [Runs -> LedgerType]

\* The value recorded is the value of what is there, and what has no price is not held.
ValueFits ==
  \A m \in Runs :
    /\ ledger[m].nav = ledger[m].cash + Worth(close, ledger[m].held)
    /\ \A i \in Assets : close[i] = Unpriced => ledger[m].held[i] = 0

LedgerInv == LedgerTyped /\ ValueFits

LEMMA AssetsFinite == IsFiniteSet(Assets)
  <1>1. Listing \in Seq(Assets)
    BY BacktestAssumption
  <1>2. PICK n \in Nat : DOMAIN Listing = 1 .. n
    BY <1>1
  <1>3. IsFiniteSet(DOMAIN Listing)
    BY <1>2, FS_Interval
  <1>4. Listing \in Surjection(DOMAIN Listing, Assets)
    BY <1>1 DEF Surjection, Assets
  <1> QED
    BY <1>3, <1>4, FS_Surjection

LEMMA TotalTyped ==
  ASSUME NEW f \in [Assets -> Int]
  PROVE  Total(f) \in Int
  <1>1. Total(f) = SumOf(f)
    BY DEF Total, SumOf
  <1> QED
    BY <1>1, AssetsFinite, SumType

LEMMA TotalAdds ==
  ASSUME NEW f \in [Assets -> Int], NEW g \in [Assets -> Int], NEW e \in [Assets -> Int],
         \A i \in Assets : e[i] = f[i] + g[i]
  PROVE  Total(e) = Total(f) + Total(g)
  <1>1. Total(e) = SumOf(e) /\ Total(f) = SumOf(f) /\ Total(g) = SumOf(g)
    BY DEF Total, SumOf
  <1>2. SumOf(e) = SumOf(f) + SumOf(g)
    BY AssetsFinite, SumOfSums
  <1> QED
    BY <1>1, <1>2

LEMMA TotalOrdered ==
  ASSUME NEW f \in [Assets -> Int], NEW g \in [Assets -> Int],
         \A i \in Assets : f[i] <= g[i]
  PROVE  Total(f) <= Total(g)
  <1>1. Total(f) = SumOf(f) /\ Total(g) = SumOf(g)
    BY DEF Total, SumOf
  <1>2. SumOf(f) <= SumOf(g)
    BY AssetsFinite, SumsOrdered
  <1> QED
    BY <1>1, <1>2

LEMMA TotalZero ==
  ASSUME NEW f \in [Assets -> Int], \A i \in Assets : f[i] = 0
  PROVE  Total(f) = 0
  <1>1. Total(f) = Total(f) + Total(f)
    BY TotalAdds
  <1> QED
    BY <1>1, TotalTyped

LEMMA WorthTyped ==
  ASSUME NEW price \in [Assets -> Nat], NEW held \in [Assets -> Int]
  PROVE  /\ [i \in Assets |-> held[i] * price[i]] \in [Assets -> Int]
         /\ Worth(price, held) = Total([i \in Assets |-> held[i] * price[i]])
         /\ Worth(price, held) \in Int
  <1>1. [i \in Assets |-> held[i] * price[i]] \in [Assets -> Int]
    OBVIOUS
  <1> QED
    BY <1>1, TotalTyped DEF Worth

\* What a closing price gains is gained by what is held of it.
LEMMA WorthGains ==
  ASSUME NEW before \in [Assets -> Nat], NEW price \in [Assets -> Nat],
         NEW held \in [Assets -> Int]
  PROVE  /\ Total([i \in Assets |-> held[i] * (price[i] - before[i])]) \in Int
         /\ Worth(price, held)
            = Worth(before, held) + Total([i \in Assets |-> held[i] * (price[i] - before[i])])
  <1> DEFINE f == [i \in Assets |-> held[i] * before[i]]
             g == [i \in Assets |-> held[i] * (price[i] - before[i])]
             e == [i \in Assets |-> held[i] * price[i]]
  <1>1. f \in [Assets -> Int] /\ g \in [Assets -> Int] /\ e \in [Assets -> Int]
    OBVIOUS
  <1>2. ASSUME NEW i \in Assets PROVE e[i] = f[i] + g[i]
    <2>1. held[i] \in Int /\ price[i] \in Int /\ before[i] \in Int
      OBVIOUS
    <2>2. held[i] * price[i] = held[i] * before[i] + held[i] * (price[i] - before[i])
      BY <2>1
    <2> QED
      BY <2>2
  <1>3. Worth(price, held) = Total(e) /\ Worth(before, held) = Total(f)
    BY DEF Worth
  <1> HIDE DEF e, f, g
  <1>4. Total(e) = Total(f) + Total(g) /\ Total(g) \in Int
    BY <1>1, <1>2, TotalAdds, TotalTyped
  <1> QED
    BY <1>3, <1>4 DEF g

\* The weights of a rebalance: n of a target's weight are at most the whole.
Weighting(weight, price) ==
  \E n \in Nat \ {0} :
    /\ DOMAIN weight \subseteq Assets /\ Cardinality(DOMAIN weight) <= n
    /\ \A i \in DOMAIN weight :
         /\ price[i] > 0
         /\ weight[i] \in Nat \X (Nat \ {0}) /\ n * weight[i][1] <= weight[i][2]

LEMMA EqualWeighs ==
  ASSUME NEW price \in [Assets -> Nat]
  PROVE  Weighting(EqualWeight(price), price)
  <1> DEFINE places == Available(price)
             n == Cardinality(places)
             targets == {Listing[k] : k \in places}
             w == IF WeightCap[2] < n * WeightCap[1] THEN <<1, n>> ELSE WeightCap
  <1>1. Listing \in Seq(Assets) /\ WeightCap \in Nat \X (Nat \ {0})
    BY BacktestAssumption
  <1>2. PICK l \in Nat : DOMAIN Listing = 1 .. l
    BY <1>1
  <1>3. IsFiniteSet(DOMAIN Listing)
    BY <1>2, FS_Interval
  <1>4. places \in SUBSET DOMAIN Listing /\ \A k \in places : price[Listing[k]] > 0
    BY DEF Available
  <1>5. EqualWeight(price) = [i \in targets |-> w]
    BY DEF EqualWeight
  <1> HIDE DEF places
  <1>6. IsFiniteSet(places) /\ n \in Nat
    BY <1>3, <1>4, FS_Subset, FS_CardinalityType
  <1>7. targets \subseteq Assets /\ \A i \in targets : price[i] > 0
    BY <1>1, <1>4
  <1>8. Cardinality(targets) <= n
    <2> DEFINE place == [k \in places |-> Listing[k]]
    <2>1. place \in Surjection(places, targets)
      BY DEF Surjection
    <2> HIDE DEF place, targets
    <2> QED
      BY <1>6, <2>1, FS_Surjection
  <1>9. CASE n = 0
    <2>1. places = {}
      BY <1>6, <1>9, FS_EmptySet
    <2>2. targets = {} /\ Cardinality(targets) = 0
      BY <2>1, FS_EmptySet
    <2>3. DOMAIN EqualWeight(price) = {}
      BY <1>5, <2>2
    <2>4. Cardinality(DOMAIN EqualWeight(price)) = 0
      BY <2>3, FS_EmptySet
    <2>5. 1 \in Nat \ {0} /\ Cardinality(DOMAIN EqualWeight(price)) <= 1
      BY <2>4
    <2> HIDE DEF targets, w
    <2> QED
      BY <2>3, <2>5 DEF Weighting
  <1>10. CASE n # 0
    <2>1. w \in Nat \X (Nat \ {0}) /\ n * w[1] <= w[2]
      <3>1. CASE WeightCap[2] < n * WeightCap[1]
        <4>1. w = <<1, n>>
          BY <3>1
        <4> QED
          BY <4>1, <1>6, <1>10
      <3>2. CASE ~(WeightCap[2] < n * WeightCap[1])
        <4>1. w = WeightCap
          BY <3>2
        <4>2. n * WeightCap[1] \in Nat /\ WeightCap[2] \in Nat
          BY <1>1, <1>6
        <4> QED
          BY <4>1, <4>2, <3>2, <1>1
      <3> QED
        BY <3>1, <3>2
    <2> HIDE DEF w, targets
    <2>2. DOMAIN EqualWeight(price) = targets /\ \A i \in targets : EqualWeight(price)[i] = w
      BY <1>5
    <2>3. n \in Nat \ {0}
      BY <1>6, <1>10
    <2> HIDE DEF n
    <2> QED
      BY <1>7, <1>8, <2>1, <2>2, <2>3 DEF Weighting
  <1> QED
    BY <1>9, <1>10

LEMMA SignalWeighs ==
  ASSUME NEW price \in [Assets -> Nat], NEW winners \in SUBSET {i \in Assets : price[i] > 0}
  PROVE  Weighting(SignalWeight(winners), price)
  <1> DEFINE n == Cardinality(winners)
  <1>1. winners \in SUBSET Assets /\ \A i \in winners : price[i] > 0
    OBVIOUS
  <1>2. IsFiniteSet(winners) /\ n \in Nat
    BY <1>1, AssetsFinite, FS_Subset, FS_CardinalityType
  <1>3. /\ DOMAIN SignalWeight(winners) = winners
        /\ \A i \in winners : SignalWeight(winners)[i] = <<1, n>>
    BY DEF SignalWeight
  <1>4. CASE n = 0
    <2>1. winners = {}
      BY <1>2, <1>4, FS_EmptySet
    <2>2. 1 \in Nat \ {0} /\ Cardinality(DOMAIN SignalWeight(winners)) <= 1
      BY <1>3, <1>4
    <2> QED
      BY <1>3, <2>1, <2>2 DEF Weighting
  <1>5. CASE n # 0
    <2>1. n \in Nat \ {0} /\ <<1, n>> \in Nat \X (Nat \ {0}) /\ n * 1 <= n
      BY <1>2, <1>5
    <2>2. Cardinality(DOMAIN SignalWeight(winners)) <= n
      BY <1>2, <1>3
    <2> HIDE DEF n
    <2> QED
      BY <1>1, <1>3, <2>1, <2>2 DEF Weighting
  <1> QED
    BY <1>4, <1>5

\* A share of the value buys at most that share of it, in whole pieces.
LEMMA ShareBuys ==
  ASSUME NEW value \in Nat, NEW a \in Nat, NEW b \in Nat \ {0}, NEW p \in Nat \ {0},
         NEW n \in Nat \ {0}, n * a <= b
  PROVE  /\ Truncated(value * a, b * p) \in Nat
         /\ n * (Truncated(value * a, b * p) * p) <= value
  <1> DEFINE x == value * a
             y == b * p
             q == x \div y
  <1>1. x \in Nat /\ y \in Nat /\ y > 0
    BY SMT
  <1>2. Truncated(value * a, b * p) = q
    BY <1>1 DEF Truncated
  <1>3. q \in Nat /\ q * y <= x
    <2> HIDE DEF x, y
    <2> QED
      BY <1>1, SMT
  <1> HIDE DEF q
  <1> DEFINE s == n * (q * p)
  <1>4. s \in Nat
    BY <1>3
  <1>5. s * b <= value * b
    <2>1. s * b = n * (q * y)
      BY <1>3, SMT
    <2>2. n * (q * y) <= n * x
      <3> HIDE DEF x, y
      <3>1. q * y \in Nat
        BY <1>1, <1>3
      <3> QED
        BY <1>1, <1>3, <3>1, SMT
    <2>3. n * x = value * (n * a)
      BY SMT
    <2>4. value * (n * a) <= value * b
      <3>1. n * a \in Nat
        BY SMT
      <3> DEFINE k == n * a
      <3> HIDE DEF k
      <3>2. k \in Nat /\ k <= b
        BY <3>1 DEF k
      <3>3. value * k <= value * b
        BY <3>2, SMT
      <3> QED
        BY <3>3 DEF k
    <2>5. n * (q * y) \in Nat /\ n * x \in Nat /\ value * (n * a) \in Nat /\ value * b \in Nat
      BY <1>1, <1>3
    <2> HIDE DEF s, x, y
    <2> QED
      BY <2>1, <2>2, <2>3, <2>4, <2>5
  <1> HIDE DEF s
  <1>6. s <= value
    <2> SUFFICES ASSUME ~(s <= value) PROVE FALSE
      OBVIOUS
    <2>1. value + 1 <= s
      BY <1>4
    <2>2. (value + 1) * b <= s * b
      BY <1>4, <2>1, SMT
    <2>3. (value + 1) * b = value * b + b
      BY SMT
    <2> QED
      BY <1>4, <1>5, <2>2, <2>3, SMT
  <1> QED
    BY <1>2, <1>3, <1>6 DEF s

LEMMA CostTyped ==
  ASSUME NEW m \in Runs, NEW i, NEW qty \in Int, NEW price \in Nat
  PROVE  Cost(CostModel[m], i, qty, price) \in Nat
  <1> DEFINE c == CostModel[m]
             q == Magnitude(qty)
             share == q * c.commission_per_share
             rate == c.bps + (IF i \in Foreign THEN c.fx_fee_bps ELSE 0)
  <1>1. /\ c.commission_per_share \in Nat /\ c.commission_min \in Nat
        /\ c.bps \in Nat /\ c.fx_fee_bps \in Nat
    BY BacktestAssumption
  <1>2. q \in Nat
    BY DEF Magnitude
  <1>3. rate \in Nat /\ share \in Nat
    BY <1>1, <1>2
  <1>4. Cost(c, i, qty, price)
        = (IF share < c.commission_min THEN c.commission_min ELSE share)
          + (q * price * rate) \div 10000
    BY DEF Cost
  <1> HIDE DEF c, q, share, rate
  <1>5. q * price * rate \in Nat
    BY <1>2, <1>3
  <1>6. (q * price * rate) \div 10000 \in Nat
    BY <1>5
  <1>7. (IF share < c.commission_min THEN c.commission_min ELSE share) \in Nat
    BY <1>1, <1>3
  <1>8. Cost(c, i, qty, price) \in Nat
    BY <1>4, <1>6, <1>7
  <1> QED
    BY <1>8 DEF c

\* What a date's trades make of a ledger.
Traded(old, new, price) ==
  /\ new \in LedgerType
  /\ \A i \in Assets : new.trades[i].qty = new.held[i] - old.held[i]
  /\ \A i \in Assets : price[i] = 0 => new.held[i] = old.held[i]
  /\ new.nav = new.cash + Worth(price, new.held)
  /\ new.cash = old.cash + Worth(price, old.held) - Worth(price, new.held)
                - Total([i \in Assets |-> new.trades[i].cost])
  /\ new.records = (IF old.records = 2 THEN 2 ELSE old.records + 1)
  /\ new.first = (IF old.records = 0 THEN new.nav ELSE old.first)

LEMMA RebalancedTyped ==
  ASSUME NEW held \in [Assets -> Int], NEW price \in [Assets -> Nat], NEW weight,
         Weighting(weight, price), NEW value \in Int
  PROVE  /\ Rebalanced(held, price, weight, value) \in [Assets -> Int]
         /\ \A i \in Assets :
              price[i] = 0 => Rebalanced(held, price, weight, value)[i] = held[i]
  <1>1. PICK n \in Nat \ {0} :
          /\ DOMAIN weight \subseteq Assets /\ Cardinality(DOMAIN weight) <= n
          /\ \A i \in DOMAIN weight :
               /\ price[i] > 0
               /\ weight[i] \in Nat \X (Nat \ {0}) /\ n * weight[i][1] <= weight[i][2]
    BY DEF Weighting
  <1>2. ASSUME NEW i \in DOMAIN weight
        PROVE  Truncated(value * weight[i][1], weight[i][2] * price[i]) \in Int
    <2> DEFINE a == value * weight[i][1]
               b == weight[i][2] * price[i]
    <2>1. weight[i][1] \in Nat /\ weight[i][2] \in Nat \ {0} /\ price[i] \in Nat \ {0}
      BY <1>1
    <2>2. a \in Int /\ b \in Nat /\ b > 0
      BY <2>1
    <2> HIDE DEF a, b
    <2>3. Truncated(a, b) \in Int
      BY <2>2 DEF Truncated
    <2> QED
      BY <2>3 DEF a, b
  <1>3. ASSUME NEW i \in Assets
        PROVE  /\ Rebalanced(held, price, weight, value)[i] \in Int
               /\ price[i] = 0 => Rebalanced(held, price, weight, value)[i] = held[i]
    <2>1. Rebalanced(held, price, weight, value)[i]
          = IF price[i] <= 0 THEN held[i]
            ELSE IF i \in DOMAIN weight
                 THEN Truncated(value * weight[i][1], weight[i][2] * price[i])
                 ELSE 0
      BY DEF Rebalanced
    <2>2. held[i] \in Int /\ price[i] \in Nat
      OBVIOUS
    <2> QED
      BY <1>2, <2>1, <2>2
  <1>4. DOMAIN Rebalanced(held, price, weight, value) = Assets
        /\ Rebalanced(held, price, weight, value)
            = [i \in Assets |-> Rebalanced(held, price, weight, value)[i]]
    BY DEF Rebalanced
  <1> QED
    BY <1>3, <1>4

LEMMA TradeMoves ==
  ASSUME LedgerTyped, NEW m \in Runs, NEW price \in [Assets -> Nat], NEW weight,
         Weighting(weight, price)
  PROVE  /\ Traded(ledger[m], Trade(m, price, weight), price)
         /\ Trade(m, price, weight).held
            = Rebalanced(ledger[m].held, price, weight,
                         ledger[m].cash + Worth(price, ledger[m].held))
         /\ \A i \in Assets :
              Trade(m, price, weight).trades[i].cost
              = (IF Trade(m, price, weight).trades[i].qty = 0 THEN 0
                 ELSE Cost(CostModel[m], i, Trade(m, price, weight).trades[i].qty, price[i]))
  <1> DEFINE l == ledger[m]
             value == l.cash + Worth(price, l.held)
             held == Rebalanced(l.held, price, weight, value)
             trades == [i \in Assets |->
               [qty |-> held[i] - l.held[i],
                cost |-> IF held[i] - l.held[i] = 0 THEN 0
                         ELSE Cost(CostModel[m], i, held[i] - l.held[i], price[i])]]
             cash == l.cash - Spent(trades, price)
             nav == cash + Worth(price, held)
             new == Trade(m, price, weight)
  <1>1. /\ l \in LedgerType /\ l.cash \in Int /\ l.held \in [Assets -> Int]
        /\ l.records \in 0 .. 2 /\ l.first \in Int
    BY DEF LedgerTyped, LedgerType
  <1>2. /\ DOMAIN l = {"cash", "held", "nav", "first", "trades", "records"}
    BY <1>1 DEF LedgerType
  <1>3. /\ new.cash = cash /\ new.held = held /\ new.nav = nav /\ new.trades = trades
        /\ new.first = (IF l.records = 0 THEN nav ELSE l.first)
        /\ new.records = (IF l.records = 2 THEN 2 ELSE l.records + 1)
        /\ new = [cash |-> new.cash, held |-> new.held, nav |-> new.nav, first |-> new.first,
                  trades |-> new.trades, records |-> new.records]
    <2> DEFINE after == [l EXCEPT !.held = held, !.trades = trades, !.cash = cash]
    <2>1. new = Marked(after, price)
      BY DEF Trade
    <2>2. /\ after.held = held /\ after.trades = trades /\ after.cash = cash
          /\ after.records = l.records /\ after.first = l.first
          /\ DOMAIN after = {"cash", "held", "nav", "first", "trades", "records"}
          /\ after = [cash |-> after.cash, held |-> after.held, nav |-> after.nav,
                      first |-> after.first, trades |-> after.trades,
                      records |-> after.records]
      <3>1. l = [cash |-> l.cash, held |-> l.held, nav |-> l.nav, first |-> l.first,
                 trades |-> l.trades, records |-> l.records]
        <4> HIDE DEF l
        <4> QED
          BY <1>1 DEF LedgerType
      <3>2. after = [l EXCEPT !.held = held, !.trades = trades, !.cash = cash]
        OBVIOUS
      <3> HIDE DEF held, trades, cash, after, l
      <3>3. after = [cash |-> cash, held |-> held, nav |-> l.nav, first |-> l.first,
                     trades |-> trades, records |-> l.records]
        BY <3>1, <3>2
      <3> QED
        BY <3>3
    <2> HIDE DEF after, new, held, trades, cash, l
    <2>3. new = [after EXCEPT !.nav = after.cash + Worth(price, after.held),
                              !.records = IF after.records = 2 THEN 2 ELSE after.records + 1,
                              !.first = IF after.records = 0
                                        THEN after.cash + Worth(price, after.held)
                                        ELSE after.first]
      BY <2>1 DEF Marked
    <2>4. /\ new.cash = after.cash /\ new.held = after.held /\ new.trades = after.trades
          /\ new.nav = after.cash + Worth(price, after.held)
          /\ new.records = (IF after.records = 2 THEN 2 ELSE after.records + 1)
          /\ new.first = (IF after.records = 0 THEN after.cash + Worth(price, after.held)
                          ELSE after.first)
          /\ new = [cash |-> new.cash, held |-> new.held, nav |-> new.nav, first |-> new.first,
                    trades |-> new.trades, records |-> new.records]
      BY <2>2, <2>3
    <2>5. after.cash + Worth(price, after.held) = nav
      BY <2>2
    <2>6. /\ new.cash = cash /\ new.held = held /\ new.trades = trades /\ new.nav = nav
          /\ new.first = (IF l.records = 0 THEN nav ELSE l.first)
          /\ new.records = (IF l.records = 2 THEN 2 ELSE l.records + 1)
      BY <2>2, <2>4, <2>5
    <2>7. new = [cash |-> new.cash, held |-> new.held, nav |-> new.nav, first |-> new.first,
                 trades |-> new.trades, records |-> new.records]
      BY <2>4
    <2> QED
      BY <2>6, <2>7
  <1>4. value \in Int
    <2> DEFINE were == l.held
    <2>1. were \in [Assets -> Int] /\ l.cash \in Int
      BY <1>1
    <2> HIDE DEF were, l
    <2>2. Worth(price, were) \in Int
      BY <2>1, WorthTyped
    <2> QED
      BY <2>1, <2>2 DEF were
  <1>5. held \in [Assets -> Int] /\ \A i \in Assets : price[i] = 0 => held[i] = l.held[i]
    <2> HIDE DEF value, l
    <2>1. /\ Rebalanced(l.held, price, weight, value) \in [Assets -> Int]
          /\ \A i \in Assets :
               price[i] = 0 => Rebalanced(l.held, price, weight, value)[i] = l.held[i]
      <3> DEFINE were == l.held
      <3>1. were \in [Assets -> Int]
        BY <1>1
      <3> HIDE DEF were
      <3>2. /\ Rebalanced(were, price, weight, value) \in [Assets -> Int]
            /\ \A i \in Assets :
                 price[i] = 0 => Rebalanced(were, price, weight, value)[i] = were[i]
        BY <3>1, <1>4, RebalancedTyped
      <3> QED
        BY <3>2 DEF were
    <2> QED
      BY <2>1
  <1> HIDE DEF held
  <1>6. \A i \in Assets : held[i] \in Int /\ l.held[i] \in Int /\ price[i] \in Nat
    BY <1>1, <1>5
  <1>7. \A i \in Assets : trades[i].qty = held[i] - l.held[i] /\ trades[i].qty \in Int
                          /\ trades[i].cost \in Nat
                          /\ trades[i].cost
                             = (IF trades[i].qty = 0 THEN 0
                                ELSE Cost(CostModel[m], i, trades[i].qty, price[i]))
                          /\ trades[i] \in [qty : Int, cost : Nat]
    <2> TAKE i \in Assets
    <2> DEFINE qty == held[i] - l.held[i]
               cost == IF qty = 0 THEN 0 ELSE Cost(CostModel[m], i, qty, price[i])
    <2>1. trades[i] = [qty |-> qty, cost |-> cost]
      OBVIOUS
    <2>2. qty \in Int /\ price[i] \in Nat
      BY <1>6
    <2> HIDE DEF qty, trades
    <2>3. cost \in Nat
      BY <2>2, CostTyped
    <2>4. trades[i].qty = qty /\ trades[i].cost = cost
      BY <2>1
    <2>5. trades[i].cost = (IF trades[i].qty = 0 THEN 0
                            ELSE Cost(CostModel[m], i, trades[i].qty, price[i]))
      BY <2>4
    <2>6. trades[i].qty = held[i] - l.held[i]
      BY <2>4 DEF qty
    <2> HIDE DEF cost
    <2>7. trades[i] \in [qty : Int, cost : Nat]
      BY <2>1, <2>2, <2>3
    <2> QED
      BY <2>2, <2>3, <2>4, <2>5, <2>6, <2>7
  <1>8. trades \in [Assets -> [qty : Int, cost : Nat]]
    BY <1>6, CostTyped
  <1> HIDE DEF trades, l
  <1> DEFINE costs == [i \in Assets |-> trades[i].cost]
             moved == [i \in Assets |-> trades[i].qty * price[i]]
             spent == [i \in Assets |-> trades[i].qty * price[i] + trades[i].cost]
             were == [i \in Assets |-> l.held[i] * price[i]]
             are == [i \in Assets |-> held[i] * price[i]]
  <1>9. /\ costs \in [Assets -> Int] /\ moved \in [Assets -> Int] /\ spent \in [Assets -> Int]
        /\ were \in [Assets -> Int] /\ are \in [Assets -> Int]
    BY <1>6, <1>7
  <1>10. \A i \in Assets : spent[i] = moved[i] + costs[i]
    OBVIOUS
  <1>11. \A i \in Assets : are[i] = were[i] + moved[i]
    <2> TAKE i \in Assets
    <2>1. are[i] = held[i] * price[i] /\ were[i] = l.held[i] * price[i]
          /\ moved[i] = (held[i] - l.held[i]) * price[i]
      BY <1>7
    <2>2. held[i] * price[i] = l.held[i] * price[i] + (held[i] - l.held[i]) * price[i]
      BY <1>6
    <2> HIDE DEF are, were, moved
    <2> QED
      BY <2>1, <2>2
  <1>12. /\ Spent(trades, price) = Total(spent) /\ Worth(price, l.held) = Total(were)
         /\ Worth(price, held) = Total(are)
    BY DEF Spent, Worth
  <1> HIDE DEF costs, moved, spent, were, are
  <1>13. /\ Total(spent) = Total(moved) + Total(costs) /\ Total(are) = Total(were) + Total(moved)
         /\ Total(costs) \in Int /\ Total(moved) \in Int /\ Total(were) \in Int
    BY <1>9, <1>10, <1>11, TotalAdds, TotalTyped
  <1>14. /\ cash = l.cash + Worth(price, l.held) - Worth(price, held) - Total(costs)
         /\ cash \in Int /\ nav \in Int
    BY <1>1, <1>12, <1>13
  <1>15. new \in LedgerType
    <2>1. /\ new.cash \in Int /\ new.held \in [Assets -> Int] /\ new.nav \in Int
          /\ new.first \in Int /\ new.trades \in [Assets -> [qty : Int, cost : Nat]]
          /\ new.records \in 0 .. 2
      BY <1>1, <1>3, <1>5, <1>8, <1>14
    <2> HIDE DEF new, cash, nav
    <2> QED
      BY <1>3, <2>1 DEF LedgerType
  <1>16. Total(costs) = Total([i \in Assets |-> new.trades[i].cost])
    BY <1>3 DEF costs
  <1>17. Traded(l, new, price)
    <2> HIDE DEF new, cash
    <2> QED
      BY <1>3, <1>5, <1>7, <1>14, <1>15, <1>16 DEF Traded
  <1> QED
    BY <1>3, <1>7, <1>17 DEF l, held

\* A date without a rebalance: no trade, and the value marked again.
Held(old, new, price) ==
  /\ new \in LedgerType
  /\ new.held = old.held /\ new.cash = old.cash
  /\ new.trades = NoTrades
  /\ new.nav = new.cash + Worth(price, new.held)
  /\ new.records = (IF old.records = 2 THEN 2 ELSE old.records + 1)
  /\ new.first = (IF old.records = 0 THEN new.nav ELSE old.first)

LEMMA HeldMarked ==
  ASSUME LedgerTyped, NEW m \in Runs, NEW price \in [Assets -> Nat]
  PROVE  Held(ledger[m], Marked([ledger[m] EXCEPT !.trades = NoTrades], price), price)
  <1> DEFINE l == ledger[m]
             still == [l EXCEPT !.trades = NoTrades]
             nav == still.cash + Worth(price, still.held)
             new == Marked(still, price)
  <1>1. /\ l \in LedgerType /\ l.cash \in Int /\ l.held \in [Assets -> Int]
        /\ l.records \in 0 .. 2 /\ l.first \in Int
    BY DEF LedgerTyped, LedgerType
  <1>2. NoTrades \in [Assets -> [qty : Int, cost : Nat]]
    BY DEF NoTrades
  <1>3. /\ still \in LedgerType /\ still.held = l.held /\ still.cash = l.cash
        /\ still.trades = NoTrades /\ still.records = l.records /\ still.first = l.first
    <2> HIDE DEF l
    <2> QED
      BY <1>1, <1>2 DEF LedgerType
  <1> HIDE DEF still, l
  <1>4. nav \in Int
    <2> DEFINE were == still.held
    <2>1. were \in [Assets -> Int] /\ still.cash \in Int
      BY <1>1, <1>3
    <2> HIDE DEF were
    <2>2. Worth(price, were) \in Int
      BY <2>1, WorthTyped
    <2> QED
      BY <2>1, <2>2 DEF were
  <1> HIDE DEF nav
  <1>5. new = [still EXCEPT !.nav = nav, !.records = IF still.records = 2 THEN 2 ELSE still.records + 1,
                            !.first = IF still.records = 0 THEN nav ELSE still.first]
    BY DEF Marked, nav
  <1> HIDE DEF new
  <1>6. /\ new \in LedgerType /\ new.held = still.held /\ new.cash = still.cash
        /\ new.trades = still.trades /\ new.nav = nav
        /\ new.records = (IF still.records = 2 THEN 2 ELSE still.records + 1)
        /\ new.first = (IF still.records = 0 THEN nav ELSE still.first)
    <2> DEFINE records == IF still.records = 2 THEN 2 ELSE still.records + 1
               first == IF still.records = 0 THEN nav ELSE still.first
    <2>1. new = [still EXCEPT !.nav = nav, !.records = records, !.first = first]
      BY <1>5
    <2>2. records \in 0 .. 2 /\ first \in Int
      BY <1>1, <1>3, <1>4
    <2> HIDE DEF records, first
    <2>3. /\ new \in LedgerType /\ new.held = still.held /\ new.cash = still.cash
          /\ new.trades = still.trades /\ new.nav = nav
          /\ new.records = records /\ new.first = first
      BY <1>3, <1>4, <2>1, <2>2 DEF LedgerType
    <2> QED
      BY <2>3 DEF records, first
  <1>7. new.nav = new.cash + Worth(price, new.held)
    BY <1>6 DEF nav
  <1>8. Held(l, new, price)
    BY <1>3, <1>6, <1>7 DEF Held
  <1> QED
    BY <1>8 DEF new, still, l

\* What a date does to both ledgers.
Steps(price) ==
  \/ /\ RebalanceOn(bar')
     /\ \E weight :
          /\ Weighting(weight, price)
          /\ ledger' = [m \in Runs |-> Trade(m, price, weight)]
  \/ /\ ~RebalanceOn(bar')
     /\ ledger' = [m \in Runs |-> Marked([ledger[m] EXCEPT !.trades = NoTrades], price)]

LEMMA SessionSteps ==
  ASSUME LedgerTyped, SomeSession
  PROVE  /\ close' \in [Assets -> Nat] /\ bar' \in Int /\ bar' > bar
         /\ \A i \in Assets : close'[i] = 0 => close[i] = 0
         /\ verdict' = verdict
         /\ Steps(close')
  <1>1. PICK d \in bar + 1 .. LastBar, quoted \in [Assets -> Quotes \cup {Unpriced}] :
          Session(d, quoted)
    BY DEF SomeSession
  <1>2. bar \in Int /\ close \in [Assets -> Nat] /\ LastBar \in Nat
    BY BacktestAssumption DEF LedgerTyped
  <1>3. bar' = d /\ close' = Filled(quoted) /\ verdict' = verdict
    BY <1>1 DEF Session
  <1>4. /\ Filled(quoted) \in [Assets -> Nat]
        /\ \A i \in Assets : Filled(quoted)[i] = 0 => close[i] = 0
    <2>1. \A i \in Assets : quoted[i] \in Nat /\ close[i] \in Nat
      <3>1. Quotes \subseteq Nat
        BY BacktestAssumption
      <3>2. quoted \in [Assets -> Quotes \cup {Unpriced}]
        BY <1>1
      <3>3. ASSUME NEW i \in Assets PROVE quoted[i] \in Nat
        <4>1. quoted[i] \in Quotes \/ quoted[i] = 0
          BY <3>2 DEF Unpriced
        <4>2. CASE quoted[i] \in Quotes
          BY <3>1, <4>2
        <4>3. CASE quoted[i] = 0
          BY <4>3
        <4> QED
          BY <4>1, <4>2, <4>3
      <3> QED
        BY <1>2, <3>3
    <2>2. \A i \in Assets :
            Filled(quoted)[i] = IF quoted[i] = 0 THEN close[i] ELSE quoted[i]
      BY DEF Filled, Unpriced
    <2>3. Filled(quoted) = [i \in Assets |-> Filled(quoted)[i]]
      BY DEF Filled
    <2>4. \A i \in Assets : Filled(quoted)[i] \in Nat /\ (Filled(quoted)[i] = 0 => close[i] = 0)
      BY <2>1, <2>2
    <2> QED
      BY <2>3, <2>4
  <1>5. CASE RebalanceOn(d)
    <2>1. \E weight : Weighting(weight, close') /\ ledger' = [m \in Runs |-> Trade(m, close', weight)]
      <3>1. CASE ledger' = [m \in Runs |-> Trade(m, close', EqualWeight(close'))]
        BY <1>3, <1>4, <3>1, EqualWeighs
      <3>2. CASE \E winners \in SUBSET {i \in Assets : close'[i] > 0} :
                   ledger' = [m \in Runs |-> Trade(m, close', SignalWeight(winners))]
        <4>1. PICK winners \in SUBSET {i \in Assets : close'[i] > 0} :
                     ledger' = [m \in Runs |-> Trade(m, close', SignalWeight(winners))]
          BY <3>2
        <4> QED
          BY <1>3, <1>4, <4>1, SignalWeighs
      <3> QED
        BY <1>1, <1>3, <1>5, <3>1, <3>2 DEF Session
    <2> QED
      BY <1>2, <1>3, <1>4, <1>5, <2>1 DEF Steps
  <1>6. CASE ~RebalanceOn(d)
    <2>1. ledger' = [m \in Runs |-> Marked([ledger[m] EXCEPT !.trades = NoTrades], close')]
      BY <1>1, <1>3, <1>6 DEF Session
    <2> QED
      BY <1>2, <1>3, <1>4, <1>6, <2>1 DEF Steps
  <1> QED
    BY <1>5, <1>6

LEMMA InitLedger == BacktestInit => LedgerInv
  <1> SUFFICES ASSUME BacktestInit PROVE LedgerInv
    OBVIOUS
  <1>1. /\ bar = -1 /\ close = [i \in Assets |-> 0]
        /\ ledger = [m \in Runs |-> [cash |-> Capital, held |-> [i \in Assets |-> 0],
                                    nav |-> Capital, first |-> 0, trades |-> NoTrades,
                                    records |-> 0]]
    BY DEF BacktestInit, Unpriced
  <1>2. Capital \in Int /\ NoTrades \in [Assets -> [qty : Int, cost : Nat]]
    BY BacktestAssumption DEF NoTrades
  <1>3. \A m \in Runs :
          /\ ledger[m] \in LedgerType /\ ledger[m].nav = Capital /\ ledger[m].cash = Capital
          /\ ledger[m].held = [i \in Assets |-> 0]
    BY <1>1, <1>2 DEF LedgerType
  <1>4. LedgerTyped
    BY <1>1, <1>3 DEF LedgerTyped
  <1>5. ASSUME NEW m \in Runs
        PROVE  /\ ledger[m].nav = ledger[m].cash + Worth(close, ledger[m].held)
               /\ \A i \in Assets : ledger[m].held[i] = 0
    <2> DEFINE worth == [i \in Assets |-> ledger[m].held[i] * close[i]]
    <2>1. \A i \in Assets : ledger[m].held[i] = 0 /\ close[i] = 0
      BY <1>1, <1>3
    <2>2. worth \in [Assets -> Int] /\ \A i \in Assets : worth[i] = 0
      BY <2>1
    <2> HIDE DEF worth
    <2>3. Total(worth) = 0
      BY <2>2, TotalZero
    <2>4. Worth(close, ledger[m].held) = 0
      BY <2>3 DEF Worth, worth
    <2> QED
      BY <1>2, <1>3, <2>1, <2>4
  <1> QED
    BY <1>4, <1>5 DEF LedgerInv, ValueFits

\* Either way a date gains what its closes gained and loses its costs.
Earns(old, new, before, price) ==
  /\ new \in LedgerType
  /\ new.nav = new.cash + Worth(price, new.held)
  /\ new.nav = old.nav - Total([i \in Assets |-> new.trades[i].cost])
               + Total([i \in Assets |-> old.held[i] * (price[i] - before[i])])
  /\ \A i \in Assets : price[i] = 0 => new.held[i] = old.held[i]
  /\ new.trades = NoTrades => new.held = old.held
  /\ new.records = (IF old.records = 2 THEN 2 ELSE old.records + 1)
  /\ new.first = (IF old.records = 0 THEN new.nav ELSE old.first)

LEMMA TradeEarns ==
  ASSUME NEW old \in LedgerType, NEW new, NEW before \in [Assets -> Nat],
         NEW price \in [Assets -> Nat],
         old.nav = old.cash + Worth(before, old.held), Traded(old, new, price)
  PROVE  Earns(old, new, before, price)
  <1> DEFINE were == old.held
             are == new.held
             costs == Total([i \in Assets |-> new.trades[i].cost])
             gains == Total([i \in Assets |-> were[i] * (price[i] - before[i])])
  <1>1. /\ new \in LedgerType /\ were \in [Assets -> Int] /\ are \in [Assets -> Int]
        /\ old.cash \in Int /\ new.cash \in Int
        /\ new.trades \in [Assets -> [qty : Int, cost : Nat]]
    BY DEF Traded, LedgerType
  <1>2. [i \in Assets |-> new.trades[i].cost] \in [Assets -> Int]
    BY <1>1
  <1>3. costs \in Int
    BY <1>2, TotalTyped
  <1>4. new.trades = NoTrades => are = were
    <2> SUFFICES ASSUME new.trades = NoTrades PROVE are = were
      OBVIOUS
    <2>1. \A i \in Assets : new.trades[i].qty = 0
      BY DEF NoTrades
    <2>2. \A i \in Assets : new.trades[i].qty = are[i] - were[i]
      BY DEF Traded
    <2> HIDE DEF are, were
    <2>3. ASSUME NEW i \in Assets PROVE are[i] = were[i]
      <3>1. are[i] \in Int /\ were[i] \in Int /\ are[i] - were[i] = 0
        BY <1>1, <2>1, <2>2
      <3> QED
        BY <3>1
    <2> QED
      BY <1>1, <2>3
  <1>5. /\ new.cash = old.cash + Worth(price, were) - Worth(price, are) - costs
        /\ new.nav = new.cash + Worth(price, are)
        /\ old.nav = old.cash + Worth(before, were)
    BY DEF Traded
  <1> HIDE DEF costs, were, are
  <1>6. /\ gains \in Int /\ Worth(price, were) = Worth(before, were) + gains
        /\ Worth(price, are) \in Int /\ Worth(before, were) \in Int
    BY <1>1, WorthGains, WorthTyped
  <1> HIDE DEF gains
  <1>7. new.nav = old.nav - costs + gains
    BY <1>1, <1>3, <1>5, <1>6
  <1> QED
    BY <1>4, <1>7 DEF Traded, Earns, costs, gains, were, are

LEMMA HeldEarns ==
  ASSUME NEW old \in LedgerType, NEW new, NEW before \in [Assets -> Nat],
         NEW price \in [Assets -> Nat],
         old.nav = old.cash + Worth(before, old.held), Held(old, new, price)
  PROVE  Earns(old, new, before, price)
  <1> DEFINE were == old.held
             costs == [i \in Assets |-> new.trades[i].cost]
             gains == Total([i \in Assets |-> were[i] * (price[i] - before[i])])
  <1>1. /\ new \in LedgerType /\ were \in [Assets -> Int] /\ old.cash \in Int
        /\ new.trades = NoTrades
    BY DEF Held, LedgerType
  <1>2. costs \in [Assets -> Int] /\ \A i \in Assets : costs[i] = 0
    BY <1>1 DEF NoTrades
  <1> HIDE DEF costs
  <1>3. Total(costs) = 0
    BY <1>2, TotalZero
  <1>5. /\ new.cash = old.cash
        /\ new.nav = new.cash + Worth(price, were)
        /\ old.nav = old.cash + Worth(before, were)
    BY DEF Held
  <1> HIDE DEF were
  <1>6. /\ gains \in Int /\ Worth(price, were) = Worth(before, were) + gains
        /\ Worth(before, were) \in Int
    BY <1>1, WorthGains, WorthTyped
  <1> HIDE DEF gains
  <1>7. new.nav = old.nav - Total(costs) + gains
    BY <1>1, <1>3, <1>5, <1>6
  <1> QED
    BY <1>7 DEF Held, Earns, costs, gains, were

LEMMA SessionEarns ==
  ASSUME LedgerInv, SomeSession
  PROVE  \A m \in Runs : Earns(ledger[m], ledger'[m], close, close')
  <1> SUFFICES ASSUME NEW m \in Runs PROVE Earns(ledger[m], ledger'[m], close, close')
    OBVIOUS
  <1>1. /\ LedgerTyped /\ close \in [Assets -> Nat] /\ ledger[m] \in LedgerType
        /\ ledger[m].nav = ledger[m].cash + Worth(close, ledger[m].held)
    BY DEF LedgerInv, LedgerTyped, ValueFits
  <1>2. close' \in [Assets -> Nat] /\ Steps(close')
    BY <1>1, SessionSteps
  <1>3. Traded(ledger[m], ledger'[m], close') \/ Held(ledger[m], ledger'[m], close')
    <2>1. CASE \E weight : Weighting(weight, close')
                          /\ ledger' = [k \in Runs |-> Trade(k, close', weight)]
      <3>1. PICK weight : Weighting(weight, close')
                          /\ ledger' = [k \in Runs |-> Trade(k, close', weight)]
        BY <2>1
      <3>2. ledger'[m] = Trade(m, close', weight)
        BY <3>1
      <3>3. Traded(ledger[m], Trade(m, close', weight), close')
        BY <1>1, <1>2, <3>1, TradeMoves
      <3> QED
        BY <3>2, <3>3
    <2>2. CASE ledger' = [k \in Runs |-> Marked([ledger[k] EXCEPT !.trades = NoTrades], close')]
      <3>1. ledger'[m] = Marked([ledger[m] EXCEPT !.trades = NoTrades], close')
        BY <2>2
      <3>2. Held(ledger[m], Marked([ledger[m] EXCEPT !.trades = NoTrades], close'), close')
        BY <1>1, <1>2, HeldMarked
      <3> QED
        BY <3>1, <3>2
    <2> QED
      BY <1>2, <2>1, <2>2 DEF Steps
  <1> QED
    BY <1>1, <1>2, <1>3, TradeEarns, HeldEarns

LEMMA LedgerKept == ASSUME LedgerInv, SomeSession PROVE LedgerInv'
  <1>1. \A m \in Runs : Earns(ledger[m], ledger'[m], close, close')
    BY SessionEarns
  <1>2. /\ close' \in [Assets -> Nat] /\ bar' \in Int
        /\ \A i \in Assets : close'[i] = 0 => close[i] = 0
    BY SessionSteps DEF LedgerInv
  <1>3. DOMAIN ledger' = Runs /\ ledger' = [m \in Runs |-> ledger'[m]]
    BY SessionSteps DEF LedgerInv, Steps
  <1>4. ledger' \in [Runs -> LedgerType]
    BY <1>1, <1>3 DEF Earns
  <1>5. LedgerTyped'
    BY <1>2, <1>4 DEF LedgerTyped
  <1>6. ASSUME NEW m \in Runs
        PROVE  /\ ledger'[m].nav = ledger'[m].cash + Worth(close', ledger'[m].held)
               /\ \A i \in Assets : close'[i] = 0 => ledger'[m].held[i] = 0
    <2>1. Earns(ledger[m], ledger'[m], close, close')
      BY <1>1
    <2>2. ASSUME NEW i \in Assets, close'[i] = 0 PROVE ledger'[m].held[i] = 0
      <3>1. ledger'[m].held[i] = ledger[m].held[i]
        BY <2>1, <2>2 DEF Earns
      <3>2. ledger[m].held[i] = 0
        BY <1>2, <2>2 DEF LedgerInv, ValueFits, Unpriced
      <3> QED
        BY <3>1, <3>2
    <2> QED
      BY <2>1, <2>2 DEF Earns
  <1> QED
    BY <1>5, <1>6 DEF LedgerInv, ValueFits, Unpriced

LEMMA StepLedger == LedgerInv /\ [BacktestNext]_btVars => LedgerInv'
  <1> SUFFICES ASSUME LedgerInv, [BacktestNext]_btVars PROVE LedgerInv'
    OBVIOUS
  <1>1. CASE SomeSession
    BY <1>1, LedgerKept
  <1>2. CASE UNCHANGED <<bar, close, ledger>>
    BY <1>2 DEF LedgerInv, LedgerTyped, ValueFits
  <1>3. Report => UNCHANGED <<bar, close, ledger>>
    BY DEF Report
  <1> QED
    BY <1>1, <1>2, <1>3 DEF BacktestNext, btVars

(* The value a run records is the value of its cash and positions, and     *)
(* what has no price is not held.                                          *)
THEOREM LedgersAddUp == BacktestSpec => []LedgerInv
  BY InitLedger, StepLedger, PTL DEF BacktestSpec

(* From one recorded value to the next run_backtest gains what the closes  *)
(* of its positions gained and loses the costs of the date's trades.       *)
THEOREM NavOnlyEarns == BacktestSpec => NavIsEarned
  <1>1. LedgerInv /\ [BacktestNext]_btVars =>
          [bar' # bar => \A m \in Runs :
             ledger'[m].nav = ledger[m].nav - DayCosts(m)
               + Total([i \in Assets |-> ledger[m].held[i] * (close'[i] - close[i])])]_btVars
    <2> SUFFICES ASSUME LedgerInv, BacktestNext, bar' # bar, NEW m \in Runs
                 PROVE  ledger'[m].nav = ledger[m].nav - DayCosts(m)
                          + Total([i \in Assets |-> ledger[m].held[i] * (close'[i] - close[i])])
      BY DEF btVars
    <2>1. SomeSession
      BY DEF BacktestNext, Report
    <2> QED
      BY <2>1, SessionEarns DEF Earns, DayCosts
  <1> QED
    BY <1>1, LedgersAddUp, PTL DEF BacktestSpec, NavIsEarned

\* The targets of a rebalance are worth no more than what is shared out to them.
LEMMA TargetsAfford ==
  ASSUME NEW held \in [Assets -> Int], NEW price \in [Assets -> Nat], NEW weight,
         Weighting(weight, price), NEW value \in Nat,
         \A i \in Assets : price[i] = 0 => held[i] = 0
  PROVE  /\ \A i \in Assets : Rebalanced(held, price, weight, value)[i] >= 0
         /\ Worth(price, Rebalanced(held, price, weight, value)) <= value
  <1> DEFINE new == Rebalanced(held, price, weight, value)
             f == [i \in Assets |-> new[i] * price[i]]
  <1>1. PICK n \in Nat \ {0} :
          /\ DOMAIN weight \subseteq Assets /\ Cardinality(DOMAIN weight) <= n
          /\ \A i \in DOMAIN weight :
               /\ price[i] > 0
               /\ weight[i] \in Nat \X (Nat \ {0}) /\ n * weight[i][1] <= weight[i][2]
    BY DEF Weighting
  <1>2. ASSUME NEW i \in DOMAIN weight
        PROVE  new[i] \in Nat /\ n * (new[i] * price[i]) <= value
    <2>1. i \in Assets /\ price[i] \in Nat \ {0}
      BY <1>1
    <2>2. new[i] = Truncated(value * weight[i][1], weight[i][2] * price[i])
      BY <2>1, <1>1 DEF Rebalanced
    <2>3. weight[i][1] \in Nat /\ weight[i][2] \in Nat \ {0} /\ n * weight[i][1] <= weight[i][2]
      BY <1>1
    <2> HIDE DEF new
    <2> DEFINE a == weight[i][1]
               b == weight[i][2]
               p == price[i]
    <2>4. a \in Nat /\ b \in Nat \ {0} /\ n * a <= b /\ p \in Nat \ {0}
      BY <2>1, <2>3
    <2>5. new[i] = Truncated(value * a, b * p)
      BY <2>2
    <2> HIDE DEF a, b, p
    <2>6. /\ Truncated(value * a, b * p) \in Nat
          /\ n * (Truncated(value * a, b * p) * p) <= value
      BY <2>4, ShareBuys
    <2> QED
      BY <2>5, <2>6 DEF p
  <1>3. ASSUME NEW i \in Assets \ DOMAIN weight
        PROVE  new[i] = 0
    <2>1. new[i] = IF price[i] <= 0 THEN held[i] ELSE 0
      BY DEF Rebalanced
    <2>2. price[i] \in Nat
      OBVIOUS
    <2> HIDE DEF new
    <2> QED
      BY <2>1, <2>2
  <1> HIDE DEF new
  <1>4. \A i \in Assets : new[i] \in Nat
    BY <1>2, <1>3
  <1>5. f \in [Assets -> Nat] /\ \A i \in Assets : f[i] = new[i] * price[i]
    BY <1>4
  <1>6. \A i \in DOMAIN weight : n * f[i] <= value
    BY <1>1, <1>2, <1>5
  <1>7. \A i \in Assets \ DOMAIN weight : f[i] = 0
    BY <1>3, <1>5
  <1>8. Worth(price, new) = SumOf(f)
    BY DEF Worth, Total, SumOf
  <1> HIDE DEF f
  <1>9. SumOf(f) <= value
    <2>1. DOMAIN weight \in SUBSET Assets /\ n \in Nat /\ Cardinality(DOMAIN weight) <= n
      BY <1>1
    <2> DEFINE D == DOMAIN weight
    <2> HIDE DEF D
    <2>2. D \in SUBSET Assets /\ Cardinality(D) <= n /\ (\A i \in D : n * f[i] <= value)
          /\ (\A i \in Assets \ D : f[i] = 0)
      BY <1>6, <1>7, <2>1 DEF D
    <2> QED
      BY <1>5, <2>1, <2>2, AssetsFinite, SumOfShares
  <1> QED
    BY <1>4, <1>8, <1>9 DEF new

(* A rebalance of a portfolio that is worth something never goes short,    *)
(* and overdraws the cash by no more than the costs it has just paid.      *)
THEOREM OverdraftsAreCosts == BacktestSpec => OverdraftIsCosts
  <1>1. LedgerInv /\ [BacktestNext]_btVars =>
          [\A m \in Runs :
             /\ bar' # bar /\ ledger'[m].trades # NoTrades
             /\ ledger[m].cash + Worth(close', ledger[m].held) >= 0
             => /\ ledger'[m].cash + DayCosts(m) >= 0
                /\ \A i \in Assets : ledger'[m].held[i] >= 0]_btVars
    <2> SUFFICES ASSUME LedgerInv, BacktestNext, NEW m \in Runs, bar' # bar,
                        ledger'[m].trades # NoTrades,
                        ledger[m].cash + Worth(close', ledger[m].held) >= 0
                 PROVE  /\ ledger'[m].cash + DayCosts(m) >= 0
                        /\ \A i \in Assets : ledger'[m].held[i] >= 0
      BY DEF btVars
    <2> DEFINE were == ledger[m].held
               value == ledger[m].cash + Worth(close', were)
    <2>1. SomeSession
      BY DEF BacktestNext, Report
    <2>2. /\ LedgerTyped /\ close' \in [Assets -> Nat] /\ Steps(close')
          /\ \A i \in Assets : close'[i] = 0 => close[i] = 0
      BY <2>1, SessionSteps DEF LedgerInv
    <2>3. /\ were \in [Assets -> Int] /\ ledger[m].cash \in Int
          /\ \A i \in Assets : close'[i] = 0 => were[i] = 0
      BY <2>2 DEF LedgerInv, LedgerTyped, LedgerType, ValueFits, Unpriced
    <2>4. PICK weight : Weighting(weight, close')
                        /\ ledger' = [k \in Runs |-> Trade(k, close', weight)]
      <3>1. CASE ledger' = [k \in Runs |-> Marked([ledger[k] EXCEPT !.trades = NoTrades], close')]
        <4>1. ledger'[m] = Marked([ledger[m] EXCEPT !.trades = NoTrades], close')
          BY <3>1
        <4>2. Held(ledger[m], Marked([ledger[m] EXCEPT !.trades = NoTrades], close'), close')
          BY <2>2, HeldMarked
        <4> QED
          BY <4>1, <4>2 DEF Held
      <3> QED
        BY <2>2, <3>1 DEF Steps
    <2>5. ledger'[m] = Trade(m, close', weight)
      BY <2>4
    <2>6. /\ Traded(ledger[m], ledger'[m], close')
          /\ ledger'[m].held = Rebalanced(were, close', weight, value)
      BY <2>2, <2>4, <2>5, TradeMoves
    <2> HIDE DEF were
    <2>7. Worth(close', were) \in Int
      BY <2>2, <2>3, WorthTyped
    <2>8. value \in Nat
      BY <2>3, <2>7 DEF were
    <2> HIDE DEF value
    <2>9. /\ \A i \in Assets : ledger'[m].held[i] >= 0
          /\ Worth(close', ledger'[m].held) <= value
      BY <2>2, <2>3, <2>4, <2>6, <2>8, TargetsAfford
    <2>10. ledger'[m].held \in [Assets -> Int] /\ ledger'[m].cash \in Int
           /\ ledger'[m].trades \in [Assets -> [qty : Int, cost : Nat]]
      BY <2>6 DEF Traded, LedgerType
    <2>11. Worth(close', ledger'[m].held) \in Int
      <3> DEFINE are == ledger'[m].held
      <3>1. are \in [Assets -> Int]
        BY <2>10
      <3> HIDE DEF are
      <3>2. Worth(close', are) \in Int
        BY <2>2, <3>1, WorthTyped
      <3> QED
        BY <3>2 DEF are
    <2>12. DayCosts(m) \in Int
      <3>1. [i \in Assets |-> ledger'[m].trades[i].cost] \in [Assets -> Int]
        BY <2>10
      <3> QED
        BY <3>1, TotalTyped DEF DayCosts
    <2>13. ledger'[m].cash = value - Worth(close', ledger'[m].held) - DayCosts(m)
      <3>1. ledger'[m].cash = ledger[m].cash + Worth(close', ledger[m].held)
                              - Worth(close', ledger'[m].held) - DayCosts(m)
        BY <2>6 DEF Traded, DayCosts
      <3>2. value = ledger[m].cash + Worth(close', ledger[m].held)
            /\ Worth(close', ledger[m].held) \in Int
        BY <2>7 DEF value, were
      <3> QED
        BY <3>1, <3>2, <2>3, <2>10, <2>11, <2>12
    <2> QED
      BY <2>8, <2>9, <2>10, <2>11, <2>12, <2>13
  <1> QED
    BY <1>1, LedgersAddUp, PTL DEF BacktestSpec, OverdraftIsCosts

(***************************************************************************)
(* Event pages.                                                            *)
(***************************************************************************)

Statuses == {"none", "ok", "cached", "failed", "unavailable", "partial", "rate_limited",
             "timeout", "empty"}
Values == [status : Statuses, rows : BOOLEAN]

CacheType ==
  /\ DOMAIN cache = Sources
  /\ \A s \in Sources : DOMAIN cache[s] = {"value", "fresh"} /\ cache[s].value \in Values

PageType ==
  /\ DOMAIN page = {"scope", "shown", "calendar", "symbols", "earnings", "news", "retried",
                    "profile"}
  /\ page.scope \in FeedScopes \cup {"detail", "none"}
  /\ page.calendar \in Values /\ page.symbols \in Values /\ page.earnings \in Values
  /\ page.news \in Values /\ page.profile \in Values

\* The earnings a page has are the symbols' where those brought rows, else the
\* calendar's.
EarningsSource ==
  /\ page.earnings = IF page.symbols.rows THEN page.symbols ELSE page.calendar
  /\ page.symbols # None => page.calendar # None /\ ~page.calendar.rows

\* A page that has tickers has asked for the news it shows.
NewsAsked == Listed => page.news \in NewsReplies \cup {None}

\* What a detail page was ready to show is settled: it has news, or none to look for.
ShownReady ==
  page.shown =>
    /\ page.scope # "none" /\ page.news # None
    /\ page.scope = "detail" =>
         \/ page.retried \/ ~(days < WideSpan) \/ page.news.rows
         \/ page.news.status \notin {"ok", "empty", "partial"}

PagesInv == CacheType /\ PageType /\ EarningsSource /\ NewsAsked /\ ShownReady

LEMMA NoneTyped == None \in Values
  BY DEF None, Values, Statuses

LEMMA BlankPage ==
  ASSUME NEW scope \in FeedScopes \cup {"detail", "none"},
         page' = [NoPage EXCEPT !.scope = scope]
  PROVE  PageType' /\ EarningsSource' /\ NewsAsked' /\ ShownReady'
  <1>1. /\ DOMAIN page' = {"scope", "shown", "calendar", "symbols", "earnings", "news",
                           "retried", "profile"}
        /\ page'.scope = scope /\ page'.shown = FALSE /\ page'.calendar = None
        /\ page'.symbols = None /\ page'.earnings = None /\ page'.news = None
        /\ page'.profile = None
    BY DEF NoPage
  <1>2. PageType'
    BY <1>1, NoneTyped DEF PageType
  <1>3. EarningsSource' /\ NewsAsked' /\ ShownReady'
    BY <1>1 DEF EarningsSource, NewsAsked, ShownReady, None
  <1> QED
    BY <1>2, <1>3

LEMMA InitPages == PagesInit => PagesInv
  <1> SUFFICES ASSUME PagesInit PROVE PagesInv
    OBVIOUS
  <1>1. CacheType
    BY NoneTyped DEF PagesInit, CacheType
  <1>2. /\ DOMAIN page = {"scope", "shown", "calendar", "symbols", "earnings", "news",
                          "retried", "profile"}
        /\ page.scope = "none" /\ page.shown = FALSE /\ page.calendar = None
        /\ page.symbols = None /\ page.earnings = None /\ page.news = None
        /\ page.profile = None
    BY DEF PagesInit, NoPage
  <1>3. PageType
    BY <1>2, NoneTyped DEF PageType
  <1>4. EarningsSource /\ NewsAsked /\ ShownReady
    BY <1>2 DEF EarningsSource, NewsAsked, ShownReady, None
  <1> QED
    BY <1>1, <1>3, <1>4 DEF PagesInv

LEMMA LookupTyped ==
  ASSUME NEW s \in Sources, NEW found \in Values, NEW answer,
         CacheType, Lookup(s, found, answer)
  PROVE  CacheType'
  <1>1. CASE cache[s].fresh
    BY <1>1 DEF CacheType, Lookup
  <1>2. CASE ~cache[s].fresh
    <2>1. cache' = [cache EXCEPT ![s] = [value |-> found, fresh |-> TRUE]]
      BY <1>2 DEF Lookup
    <2> QED
      BY <2>1 DEF CacheType
  <1> QED
    BY <1>1, <1>2

\* What each operation of a page that is under way writes.
LEMMA StepPages == PagesInv /\ [PagesNext]_pageVars => PagesInv'
  <1> SUFFICES ASSUME PagesInv, [PagesNext]_pageVars PROVE PagesInv'
    OBVIOUS
  <1>0. CacheType /\ PageType /\ EarningsSource /\ NewsAsked /\ ShownReady
    BY DEF PagesInv
  <1>1. CASE OpenPage
    <2>1. CacheType'
      BY <1>0, <1>1 DEF OpenPage, CacheType
    <2>2. PICK scope \in FeedScopes \cup {"detail"} : page' = [NoPage EXCEPT !.scope = scope]
      BY <1>1 DEF OpenPage
    <2> QED
      BY <2>1, <2>2, BlankPage DEF PagesInv
  <1>2. CASE AskCalendar
    <2>1. PICK reply \in CalendarReplies, answer \in Answers :
            /\ Lookup("calendar", reply, answer)
            /\ \E left \in IF Listed THEN BOOLEAN ELSE {page.scope = "all_supported"} :
                 LET told == [answer EXCEPT !.rows = answer.rows /\ left]
                 IN  page' = [page EXCEPT !.calendar = told, !.earnings = told]
      BY <1>2 DEF AskCalendar
    <2>2. reply \in Values /\ answer \in Values
      BY DEF CalendarReplies, Answers, Values, Statuses
    <2>3. CacheType'
      BY <1>0, <2>1, <2>2, LookupTyped DEF Sources
    <2>4. PICK told \in Values : page' = [page EXCEPT !.calendar = told, !.earnings = told]
      <3>1. PICK left \in BOOLEAN :
              page' = [page EXCEPT !.calendar = [answer EXCEPT !.rows = answer.rows /\ left],
                                   !.earnings = [answer EXCEPT !.rows = answer.rows /\ left]]
        BY <2>1
      <3>2. [answer EXCEPT !.rows = answer.rows /\ left] \in Values
        BY <2>2 DEF Values
      <3> QED
        BY <3>1, <3>2
    <2>5. ~page.shown /\ days' = days /\ page.earnings = None
      BY <1>2 DEF AskCalendar, UnderWay
    <2>6. page.symbols.rows = FALSE
      BY <1>0, <2>5 DEF EarningsSource, PageType, None, Values, Statuses
    <2>7. PageType' /\ EarningsSource' /\ NewsAsked' /\ ShownReady'
      BY <1>0, <2>4, <2>5, <2>6 DEF PageType, EarningsSource, NewsAsked, Listed, ShownReady
    <2> QED
      BY <2>3, <2>7 DEF PagesInv
  <1>3. CASE AskSymbols
    <2>1. PICK reply \in SymbolReplies :
            page' = [page EXCEPT !.symbols = reply,
                                 !.earnings = Substitute(page.earnings, reply)]
      BY <1>3 DEF AskSymbols
    <2>2. reply \in Values
      BY DEF SymbolReplies, Values, Statuses
    <2>3. ~page.shown /\ days' = days /\ cache' = cache /\ page.symbols = None
      BY <1>3 DEF AskSymbols, FallsBack, UnderWay
    <2>4. page.earnings = page.calendar
      BY <1>0, <2>3 DEF EarningsSource, None
    <2>5. page'.earnings = IF reply.rows THEN reply ELSE page.calendar
      BY <1>0, <2>1, <2>4 DEF Substitute, PageType
    <2>6. page.calendar # None /\ ~page.calendar.rows
      BY <1>3, <2>4 DEF FallsBack, AskSymbols
    <2>7. EarningsSource'
      BY <1>0, <2>1, <2>5, <2>6 DEF PageType, EarningsSource
    <2>8. PageType' /\ NewsAsked' /\ ShownReady'
      BY <1>0, <2>1, <2>2, <2>3, <2>5
         DEF PageType, NewsAsked, Listed, ShownReady
    <2>9. CacheType'
      BY <1>0, <2>3 DEF CacheType
    <2> QED
      BY <2>7, <2>8, <2>9 DEF PagesInv
  <1>4. CASE OmitNews
    <2>1. /\ page' = [page EXCEPT !.news = [status |-> "ok", rows |-> FALSE]]
          /\ days' = days /\ cache' = cache /\ ~page.shown /\ ~Listed
      BY <1>4 DEF OmitNews, UnderWay
    <2>2. [status |-> "ok", rows |-> FALSE] \in Values
      BY DEF Values, Statuses
    <2>3. PageType' /\ EarningsSource' /\ NewsAsked' /\ ShownReady'
      BY <1>0, <2>1, <2>2 DEF PageType, EarningsSource, NewsAsked, Listed, ShownReady
    <2>4. CacheType'
      BY <1>0, <2>1 DEF CacheType
    <2> QED
      BY <2>3, <2>4 DEF PagesInv
  <1>5. CASE AskNews
    <2>1. PICK reply \in NewsReplies : page' = [page EXCEPT !.news = reply]
      BY <1>5 DEF AskNews
    <2>2. days' = days /\ cache' = cache /\ ~page.shown
      BY <1>5 DEF AskNews, UnderWay
    <2>3. reply \in Values
      BY DEF NewsReplies, Values, Statuses
    <2>4. PageType' /\ EarningsSource' /\ NewsAsked' /\ ShownReady'
      BY <1>0, <2>1, <2>2, <2>3 DEF PageType, EarningsSource, NewsAsked, Listed, ShownReady
    <2>5. CacheType'
      BY <1>0, <2>2 DEF CacheType
    <2> QED
      BY <2>4, <2>5 DEF PagesInv
  <1>6. CASE RetryWide
    <2>1. PICK reply \in NewsReplies :
            page' = [page EXCEPT !.retried = TRUE,
                                 !.news = IF reply.rows THEN reply ELSE page.news]
      BY <1>6 DEF RetryWide
    <2>2. days' = days /\ cache' = cache /\ ~page.shown
      BY <1>6 DEF RetryWide, Widens, UnderWay
    <2>3. reply \in Values
      BY DEF NewsReplies, Values, Statuses
    <2>4. PageType' /\ EarningsSource' /\ NewsAsked' /\ ShownReady'
      BY <1>0, <2>1, <2>2, <2>3 DEF PageType, EarningsSource, NewsAsked, Listed, ShownReady
    <2>5. CacheType'
      BY <1>0, <2>2 DEF CacheType
    <2> QED
      BY <2>4, <2>5 DEF PagesInv
  <1>7. CASE AskProfile
    <2>1. PICK reply \in ProfileReplies, answer \in Answers :
            Lookup("profile", reply, answer) /\ page' = [page EXCEPT !.profile = answer]
      BY <1>7 DEF AskProfile
    <2>2. days' = days /\ ~page.shown
      BY <1>7 DEF AskProfile, UnderWay
    <2>3. reply \in Values /\ answer \in Values
      BY DEF ProfileReplies, CalendarReplies, Answers, Values, Statuses
    <2>4. PageType' /\ EarningsSource' /\ NewsAsked' /\ ShownReady'
      BY <1>0, <2>1, <2>2, <2>3 DEF PageType, EarningsSource, NewsAsked, Listed, ShownReady
    <2>5. CacheType'
      BY <1>0, <2>1, <2>3, LookupTyped DEF Sources
    <2> QED
      BY <2>4, <2>5 DEF PagesInv
  <1>8. CASE ShowFeed
    <2>1. /\ page' = [page EXCEPT !.shown = TRUE] /\ days' = days /\ cache' = cache
          /\ page.scope \in FeedScopes /\ page.news # None
      BY <1>8 DEF ShowFeed
    <2>2. page.scope # "none" /\ page.scope # "detail"
      BY <2>1 DEF FeedScopes
    <2>3. PageType' /\ EarningsSource' /\ NewsAsked' /\ ShownReady'
      BY <1>0, <2>1, <2>2 DEF PageType, EarningsSource, NewsAsked, Listed, ShownReady
    <2>4. CacheType'
      BY <1>0, <2>1 DEF CacheType
    <2> QED
      BY <2>3, <2>4 DEF PagesInv
  <1>9. CASE ShowDetail
    <2>1. /\ page' = [page EXCEPT !.shown = TRUE] /\ days' = days /\ cache' = cache
          /\ page.scope = "detail" /\ page.news # None
          /\ \/ page.retried \/ ~(days < WideSpan) \/ page.news.rows
             \/ page.news.status \notin {"ok", "empty", "partial"}
      BY <1>9 DEF ShowDetail, UnderWay, Widens
    <2>2. PageType' /\ EarningsSource' /\ NewsAsked' /\ ShownReady'
      BY <1>0, <2>1 DEF PageType, EarningsSource, NewsAsked, Listed, ShownReady
    <2>3. CacheType'
      BY <1>0, <2>1 DEF CacheType
    <2> QED
      BY <2>2, <2>3 DEF PagesInv
  <1>10. CASE UNCHANGED pageVars
    BY <1>0, <1>10
       DEF pageVars, PagesInv, CacheType, PageType, EarningsSource, NewsAsked, Listed, ShownReady
  <1> QED
    BY <1>1, <1>2, <1>3, <1>4, <1>5, <1>6, <1>7, <1>8, <1>9, <1>10 DEF PagesNext

LEMMA PagesInvOwnsUp == PagesInv => PagesOwnUp
  <1> SUFFICES ASSUME PagesInv, page.shown PROVE PagesOwnUp
    BY DEF PagesOwnUp
  <1>1. CacheType /\ PageType /\ EarningsSource /\ NewsAsked /\ ShownReady
    BY DEF PagesInv
  <1>2. page.news # None /\ (Listed => page.news \in NewsReplies)
    BY <1>1 DEF ShownReady, NewsAsked
  <1>3. ASSUME page.scope \in FeedScopes, ~AnySectionPartial
        PROVE  /\ page.scope = "listed" => page.news.rows
               /\ page.calendar.status \notin Answered =>
                    page.symbols.rows /\ page.symbols.status \in Answered
               /\ page.symbols # None /\ page.symbols.status \notin Answered =>
                    /\ page.calendar.status \in Answered
                    /\ ~page.calendar.rows /\ ~page.symbols.rows
    <2>1. page.earnings.status \in Answered /\ page.news.status \in Answered
      BY <1>3 DEF AnySectionPartial
    <2>2. ASSUME page.scope = "listed" PROVE page.news.rows
      BY <1>2, <2>1, <2>2 DEF Listed, NewsReplies, Answered
    <2>3. page.calendar.status \notin Answered =>
            page.symbols.rows /\ page.symbols.status \in Answered
      BY <1>1, <2>1 DEF EarningsSource
    <2>4. page.symbols # None /\ page.symbols.status \notin Answered =>
            /\ page.calendar.status \in Answered
            /\ ~page.calendar.rows /\ ~page.symbols.rows
      BY <1>1, <2>1 DEF EarningsSource
    <2> QED
      BY <2>2, <2>3, <2>4
  <1>4. ASSUME page.scope = "detail"
        PROVE  /\ EarningsHint = "not on this plan" =>
                    page.calendar.status = "unavailable" /\ ~page.symbols.rows
               /\ NewsHint = "none in the wide span either" =>
                    page.retried \/ page.news.status = "rate_limited"
    <2>1. EarningsHint = "not on this plan" =>
            ~page.earnings.rows /\ page.earnings.status = "unavailable"
      BY DEF EarningsHint
    <2>2. NewsHint = "none in the wide span either" =>
            /\ ~page.news.rows /\ page.news.status \notin {"unavailable", "timeout"}
            /\ days < WideSpan
      BY DEF NewsHint
    <2>3. page.news \in NewsReplies
      BY <1>2, <1>4 DEF Listed
    <2>4. ~page.news.rows /\ page.news.status \notin {"unavailable", "timeout"} =>
            page.news.status \in {"ok", "empty", "partial", "rate_limited"}
      BY <2>3 DEF NewsReplies
    <2>5. EarningsHint = "not on this plan" =>
                    page.calendar.status = "unavailable" /\ ~page.symbols.rows
      BY <1>1, <2>1 DEF EarningsSource
    <2> QED
      BY <1>1, <1>4, <2>2, <2>4, <2>5 DEF ShownReady
  <1> QED
    BY <1>3, <1>4 DEF PagesOwnUp

(* Whatever the providers answer and the cache still holds: a feed of      *)
(* get_feed that is shown without its flag lacks nothing but what          *)
(* PagesOwnUp excepts (a failed calendar made good by symbol, and lookups  *)
(* by symbol that failed after an empty calendar), and the two hints of    *)
(* get_ticker_detail are true, the second one or both providers limited.   *)
THEOREM PagesTellTheTruth == PagesSpec => []PagesOwnUp
  BY InitPages, StepPages, PagesInvOwnsUp, PTL DEF PagesSpec

(***************************************************************************)
(* News.                                                                   *)
(***************************************************************************)

Rows == NewsTickers \X Articles
FreshStatuses == {"none", "ok", "unavailable", "rate_limited", "empty", "timeout", "error"}
Workers == {"none", "queued", "asking", "over"}

\* What a fetcher returns and a cache entry holds: rows only under "ok".
FetchedValues ==
  {v \in [status : FreshStatuses, rows : Seq(Rows), stale : BOOLEAN, limited : BOOLEAN] :
     ~v.stale /\ ~v.limited /\ (v.rows # <<>> => v.status = "ok")}

\* What a request gets: that, or rows of an earlier refresh, which are called cached.
Results ==
  FetchedValues
    \cup {v \in [status : {"cached"}, rows : Seq(Rows), stale : BOOLEAN, limited : BOOLEAN] :
            v.rows # <<>>}

Fans == [worker : [NewsTickers -> Workers], rows : Seq(Rows), blocked : BOOLEAN, limited : BOOLEAN]

NewsType ==
  /\ DOMAIN entries = NewsProviders
  /\ \A p \in NewsProviders :
       DOMAIN entries[p] = {"value", "fresh"} /\ entries[p].value \in FetchedValues
  /\ fetched \in [NewsProviders -> Results]
  /\ fan \in [NewsProviders -> Fans]

\* What a request gets of a provider after a fan-out tells of a limit that left no
\* row and that no block outranks, tells of none that was not met, and is not
\* called "empty" when a worker was barred.
Told(f, result) ==
  f # NoFan /\ result.status # "none" =>
    /\ result.status = "empty" => ~f.blocked /\ ~f.limited
    /\ f.limited /\ ~f.blocked /\ f.rows = <<>> =>
         result.status = "rate_limited" \/ (result.status = "cached" /\ result.limited)
    /\ result.status = "rate_limited" \/ result.limited => f.limited

FansTold == \A p \in NewsProviders : Told(fan[p], fetched[p])

NewsInv == NewsType /\ FansTold

LEMMA NoNewsTyped == NoNews \in FetchedValues /\ NoNews.status = "none"
  BY DEF NoNews, FetchedValues, FreshStatuses

\* A value a fetcher builds.
LEMMA BuiltTyped ==
  ASSUME NEW status \in FreshStatuses, NEW sent \in Seq(Rows), sent # <<>> => status = "ok",
         NEW v, \/ v = [NoNews EXCEPT !.status = status, !.rows = sent]
                \/ sent = <<>> /\ v = [NoNews EXCEPT !.status = status]
  PROVE  v \in FetchedValues /\ v.status = status
  <1> DEFINE Records == [status : FreshStatuses, rows : Seq(Rows), stale : BOOLEAN, limited : BOOLEAN]
  <1>1. NoNews \in Records /\ ~NoNews.stale /\ ~NoNews.limited
    BY NoNewsTyped DEF FetchedValues
  <1>2. v \in Records /\ v.status = status /\ v.rows = sent
    <2>1. NoNews.rows = <<>>
      BY DEF NoNews
    <2> QED
      BY <1>1, <2>1
  <1>3. v.stale = NoNews.stale /\ v.limited = NoNews.limited
    BY <1>1
  <1> QED
    BY <1>1, <1>2, <1>3 DEF FetchedValues

LEMMA NoFanTyped == NoFan \in Fans
  BY DEF NoFan, Fans, Workers

LEMMA InitNews == NewsInit => NewsInv
  <1> SUFFICES ASSUME NewsInit PROVE NewsInv
    OBVIOUS
  <1>1. NewsType
    BY NoNewsTyped, NoFanTyped DEF NewsInit, NewsType, Results
  <1>2. FansTold
    BY DEF NewsInit, FansTold, Told
  <1> QED
    BY <1>1, <1>2 DEF NewsInv

\* A step of a fan-out whose request has no result yet.
LEMMA FanStep ==
  ASSUME NewsInv, NEW p \in NewsProviders, fetched[p].status = "none",
         NEW new \in Fans, fan' = [fan EXCEPT ![p] = new], UNCHANGED <<entries, fetched>>
  PROVE  NewsInv'
  <1>1. NewsType'
    BY DEF NewsInv, NewsType
  <1>2. FansTold'
    BY DEF NewsInv, NewsType, FansTold, Told
  <1> QED
    BY <1>1, <1>2 DEF NewsInv

\* What is stored is the fetcher's value; what is returned is it or the older rows.
LEMMA StoreStep ==
  ASSUME NewsInv, NEW p \in NewsProviders, NEW value \in FetchedValues, StoreNews(p, value),
         Told(fan[p], value), value.status # "none"
  PROVE  NewsInv'
  <1> DEFINE old == entries[p].value
             kept == value.status \in Failed /\ old.rows # <<>>
             result == IF kept
                       THEN [status |-> "cached", rows |-> old.rows, stale |-> TRUE,
                             limited |-> value.status = "rate_limited"]
                       ELSE value
  <1>1. old \in FetchedValues
    BY DEF NewsInv, NewsType
  <1>2. /\ entries' = [entries EXCEPT ![p] = [value |-> value, fresh |-> TRUE]]
        /\ fetched' = [fetched EXCEPT ![p] = result] /\ fan' = fan
    BY DEF StoreNews
  <1>3. result \in Results /\ Told(fan[p], result)
    <2>1. CASE kept
      <3>1. old.rows \in Seq(Rows)
        BY <1>1 DEF FetchedValues
      <3>2. /\ result \in [status : {"cached"}, rows : Seq(Rows), stale : BOOLEAN, limited : BOOLEAN]
            /\ result.rows # <<>>
        BY <2>1, <3>1
      <3>3. ~value.limited /\ result.status = "cached"
            /\ result.limited = (value.status = "rate_limited")
        BY <2>1 DEF FetchedValues
      <3>4. Told(fan[p], result)
        BY <3>3 DEF Told
      <3> QED
        BY <2>1, <3>2, <3>4 DEF Results
    <2>2. CASE ~kept
      BY <2>2 DEF Results
    <2> QED
      BY <2>1, <2>2
  <1> HIDE DEF result
  <1>4. NewsType'
    BY <1>2, <1>3 DEF NewsInv, NewsType
  <1>5. FansTold'
    BY <1>2, <1>3 DEF NewsInv, NewsType, FansTold, Told
  <1> QED
    BY <1>4, <1>5 DEF NewsInv

LEMMA StepNews == NewsInv /\ [NewsNext]_newsVars => NewsInv'
  <1> SUFFICES ASSUME NewsInv, [NewsNext]_newsVars PROVE NewsInv'
    OBVIOUS
  <1>0. NewsType /\ FansTold
    BY DEF NewsInv
  <1>1. CASE BeginRequest
    <2>1. fetched' = [p \in NewsProviders |-> NoNews] /\ fan' = [p \in NewsProviders |-> NoFan]
      BY <1>1 DEF BeginRequest
    <2>2. PICK old \in SUBSET NewsProviders :
            entries' = [p \in NewsProviders |->
                          [entries[p] EXCEPT !.fresh = entries[p].fresh /\ p \notin old]]
      BY <1>1 DEF BeginRequest
    <2>3. NewsType'
      BY <1>0, <2>1, <2>2, NoNewsTyped, NoFanTyped DEF NewsType, Results
    <2>4. FansTold'
      BY <2>1 DEF FansTold, Told
    <2> QED
      BY <2>3, <2>4 DEF NewsInv
  <1>2. ASSUME NEW p \in NewsProviders, ServeCached(p) PROVE NewsInv'
    <2>1. /\ fan[p] = NoFan /\ fan' = fan /\ entries' = entries
          /\ fetched' = [fetched EXCEPT ![p] = entries[p].value]
      BY <1>2 DEF ServeCached
    <2>2. NewsType'
      BY <1>0, <2>1 DEF NewsType, Results
    <2>3. FansTold'
      BY <1>0, <2>1 DEF NewsType, FansTold, Told
    <2> QED
      BY <2>2, <2>3 DEF NewsInv
  <1>3. ASSUME NEW p \in NewsProviders, FanOut(p) \/ SpendBudget(p) PROVE NewsInv'
    <2>1. PICK state \in Workers :
            fan' = [fan EXCEPT ![p] = [fan[p] EXCEPT !.worker = [t \in NewsTickers |-> state]]]
      BY <1>0, <1>3 DEF FanOut, SpendBudget, Workers, NewsType
    <2>2. [fan[p] EXCEPT !.worker = [t \in NewsTickers |-> state]] \in Fans
      BY <1>0 DEF NewsType, Fans
    <2>3. fetched[p].status = "none" /\ UNCHANGED <<entries, fetched>>
      BY <1>3 DEF FanOut, SpendBudget, Open
    <2> QED
      BY <2>1, <2>2, <2>3, FanStep
  <1>4. ASSUME NEW p \in NewsProviders, NEW t \in NewsTickers,
               AskProvider(p, t) \/ SkipBarred(p, t) \/ ReturnRows(p, t) \/ ReturnBar(p, t)
        PROVE  NewsInv'
    <2>0. fetched[p].status = "none" /\ UNCHANGED <<entries, fetched>>
      BY <1>4 DEF AskProvider, SkipBarred, ReturnRows, ReturnBar, Open
    <2>1. fan[p] \in Fans /\ fan \in [NewsProviders -> Fans]
      BY <1>0 DEF NewsType
    <2>2. ASSUME NEW state \in Workers
          PROVE  [fan[p].worker EXCEPT ![t] = state] \in [NewsTickers -> Workers]
      BY <2>1 DEF Fans
    <2>3. CASE AskProvider(p, t) \/ SkipBarred(p, t)
      <3>1. PICK state \in Workers : fan' = [fan EXCEPT ![p].worker[t] = state]
        BY <2>3 DEF AskProvider, SkipBarred, Workers
      <3> DEFINE new == [fan[p] EXCEPT !.worker = [fan[p].worker EXCEPT ![t] = state]]
      <3>2. fan' = [fan EXCEPT ![p] = new]
        BY <2>1, <3>1
      <3>3. new \in Fans
        BY <2>1, <2>2 DEF Fans
      <3> QED
        BY <2>0, <3>2, <3>3, FanStep
    <2>4. CASE ReturnRows(p, t)
      <3>1. PICK sent \in {<<>>} \cup {<<<<t, a>>>> : a \in Sends[p][t]} :
              fan' = [fan EXCEPT ![p].worker[t] = "over", ![p].rows = fan[p].rows \o sent]
        BY <2>4 DEF ReturnRows
      <3> DEFINE more == fan[p].rows \o sent
                 new == [fan[p] EXCEPT !.worker = [fan[p].worker EXCEPT ![t] = "over"],
                                       !.rows = more]
      <3>2. fan' = [fan EXCEPT ![p] = new]
        BY <2>1, <3>1
      <3>3. sent \in Seq(Rows)
        <4>1. CASE sent = <<>>
          BY <4>1
        <4>2. CASE sent \in {<<<<t, a>>>> : a \in Sends[p][t]}
          <5>1. PICK a \in Sends[p][t] : sent = <<<<t, a>>>>
            BY <4>2
          <5>2. <<t, a>> \in Rows
            BY <5>1, NewsAssumption DEF Rows
          <5> QED
            BY <5>1, <5>2
        <4> QED
          BY <3>1, <4>1, <4>2
      <3>4. more \in Seq(Rows)
        BY <2>1, <3>3 DEF Fans
      <3>5. "over" \in Workers
        BY DEF Workers
      <3>6. new \in Fans
        <4> HIDE DEF more
        <4> QED
          BY <2>1, <2>2, <3>4, <3>5 DEF Fans
      <3> QED
        BY <2>0, <3>2, <3>6, FanStep
    <2>5. CASE ReturnBar(p, t)
      <3> DEFINE worker == [fan[p].worker EXCEPT ![t] = "over"]
                 new1 == [fan[p] EXCEPT !.worker = worker, !.blocked = TRUE]
                 new2 == [fan[p] EXCEPT !.worker = worker, !.limited = TRUE]
      <3>1. worker \in [NewsTickers -> Workers]
        BY <2>2 DEF Workers
      <3>2. fan' = [fan EXCEPT ![p] = new1] \/ fan' = [fan EXCEPT ![p] = new2]
        BY <2>1, <2>5 DEF ReturnBar
      <3>3. new1 \in Fans /\ new2 \in Fans
        <4> HIDE DEF worker
        <4> QED
          BY <2>1, <3>1 DEF Fans
      <3> HIDE DEF new1, new2
      <3> QED
        BY <2>0, <3>2, <3>3, FanStep
    <2> QED
      BY <1>4, <2>3, <2>4, <2>5
  <1>5. ASSUME NEW p \in NewsProviders, EndFanOut(p) PROVE NewsInv'
    <2> DEFINE value == [NoNews EXCEPT !.status = FanStatus(p), !.rows = fan[p].rows]
    <2>1. fan[p] \in Fans
      BY <1>0 DEF NewsType
    <2>2. /\ FanStatus(p) \in FreshStatuses
          /\ fan[p].rows # <<>> => FanStatus(p) = "ok"
          /\ FanStatus(p) = "empty" => ~Barred(p)
          /\ fan[p].limited /\ ~fan[p].blocked /\ fan[p].rows = <<>> =>
               FanStatus(p) = "rate_limited"
          /\ FanStatus(p) = "rate_limited" => fan[p].limited
          /\ FanStatus(p) # "none"
      <3>1. fan[p].rows \in Seq(Rows) /\ fan[p].blocked \in BOOLEAN /\ fan[p].limited \in BOOLEAN
        BY <2>1 DEF Fans
      <3>2. CASE fan[p].rows # <<>>
        BY <3>2 DEF FanStatus, FreshStatuses
      <3>3. CASE fan[p].rows = <<>> /\ fan[p].blocked
        BY <3>3 DEF FanStatus, FreshStatuses, Barred
      <3>4. CASE fan[p].rows = <<>> /\ ~fan[p].blocked /\ fan[p].limited
        BY <3>4 DEF FanStatus, FreshStatuses, Barred
      <3>5. CASE fan[p].rows = <<>> /\ ~fan[p].blocked /\ ~fan[p].limited
        BY <3>5 DEF FanStatus, FreshStatuses, Barred
      <3> QED
        BY <3>2, <3>3, <3>4, <3>5
    <2>4. value \in FetchedValues /\ value.status = FanStatus(p)
      <3>1. fan[p].rows \in Seq(Rows)
        BY <2>1 DEF Fans
      <3> QED
        BY <2>2, <3>1, BuiltTyped
    <2>5. StoreNews(p, value)
      BY <1>5 DEF EndFanOut
    <2> HIDE DEF value
    <2>6. Told(fan[p], value) /\ value.status # "none"
      BY <2>2, <2>4 DEF Told, Barred, FetchedValues
    <2> QED
      BY <2>4, <2>5, <2>6, StoreStep
  <1>6. ASSUME NEW p \in NewsProviders, FetcherFails(p) PROVE NewsInv'
    <2>1. PICK status \in {"timeout", "error"} : StoreNews(p, [NoNews EXCEPT !.status = status])
      BY <1>6 DEF FetcherFails
    <2>2. /\ [NoNews EXCEPT !.status = status] \in FetchedValues
          /\ [NoNews EXCEPT !.status = status].status # "none"
      <3>1. status \in FreshStatuses /\ <<>> \in Seq(Rows)
        BY <2>1 DEF FreshStatuses
      <3> QED
        BY <3>1, BuiltTyped
    <2>3. Told(fan[p], [NoNews EXCEPT !.status = status])
      BY <1>6 DEF FetcherFails, Told
    <2> QED
      BY <2>1, <2>2, <2>3, StoreStep
  <1>7. CASE UNCHANGED newsVars
    BY <1>0, <1>7 DEF newsVars, NewsInv, NewsType, FansTold, Told
  <1> QED
    BY <1>1, <1>2, <1>3, <1>4, <1>5, <1>6, <1>7 DEF NewsNext

(* The providers' caches and fan-outs hold what they may: fetched rows     *)
(* stand under "ok" only, and a limit that left no row is in the provider's *)
(* own status.                                                              *)
THEOREM NewsRuns == NewsSpec => []NewsInv
  BY InitNews, StepNews, PTL DEF NewsSpec

-------------------------------------------------------------------------------
\* The merge, one row of the answers after the other.
LEMMA ItemsFold ==
  ASSUME Received \in Seq(Rows)
  PROVE  \E kept : /\ kept[0] = <<>> /\ kept[Len(Received)] = Items
                   /\ \A m \in 1 .. Len(Received) : kept[m] = Keep(kept[m - 1], Received[m])
  <1> DEFINE q == Received
             n == Len(q)
             S == 1 .. n
             Iter(iter) == iter = [s \in SUBSET DOMAIN q |->
                             IF s = {} THEN <<>> ELSE Keep(iter[s \ {Max(s)}], q[Max(s)])]
             step == [i \in S |-> [kept \in Seq(Rows) |-> Keep(kept, q[i])]]
  <1>1. n \in Nat /\ DOMAIN q = S /\ q \in [S -> Rows]
    OBVIOUS
  <1>2. step \in [S -> [Seq(Rows) -> Seq(Rows)]]
    BY <1>1 DEF Keep
  <1>3. <<>> \in Seq(Rows)
    OBVIOUS
  <1>4. PICK h \in [SUBSET S -> Seq(Rows)] :
          \A s \in SUBSET S : h[s] = IF s = {} THEN <<>> ELSE step[Max(s)][h[s \ {Max(s)}]]
    <2> HIDE DEF step, n
    <2>1. \E h \in [SUBSET S -> Seq(Rows)] : UnfoldsLeft(h, n, <<>>, step)
      BY <1>1, <1>2, <1>3, LeftFold
    <2> QED
      BY <2>1 DEF UnfoldsLeft
  <1>5. \A s \in SUBSET S : h[s] = IF s = {} THEN <<>> ELSE Keep(h[s \ {Max(s)}], q[Max(s)])
    <2>1. ASSUME NEW s \in SUBSET S, s # {} PROVE h[s] = Keep(h[s \ {Max(s)}], q[Max(s)])
      <3>1. Max(s) \in S
        BY <1>1, <2>1, MaxIsLast
      <3>2. h[s \ {Max(s)}] \in Seq(Rows) /\ h[s] = step[Max(s)][h[s \ {Max(s)}]]
        BY <1>4, <2>1
      <3> QED
        BY <3>1, <3>2
    <2> QED
      BY <1>4, <2>1
  <1>6. Iter(h)
    BY <1>1, <1>5
  <1> DEFINE iter == CHOOSE g : Iter(g)
  <1>7. Iter(iter)
    BY <1>6
  <1>8. Items = iter[S]
    BY <1>1 DEF Items, FoldLeft, MapThenFoldSet
  <1> DEFINE kept == [m \in 0 .. n |-> iter[1 .. m]]
  <1>9. \A s \in SUBSET S : iter[s] = IF s = {} THEN <<>> ELSE Keep(iter[s \ {Max(s)}], q[Max(s)])
    BY <1>1, <1>7
  <1> HIDE DEF iter
  <1>10. kept[0] = <<>> /\ kept[n] = Items
    <2>1. 1 .. 0 = {} /\ {} \in SUBSET S /\ 0 \in 0 .. n /\ n \in 0 .. n
      BY <1>1
    <2>2. iter[{}] = <<>>
      BY <1>9
    <2> QED
      BY <1>8, <2>1, <2>2
  <1>11. ASSUME NEW m \in 1 .. n PROVE kept[m] = Keep(kept[m - 1], q[m])
    <2>1. Max(1 .. m) = m /\ (1 .. m) \ {m} = 1 .. m - 1
      BY MaxOfInterval
    <2>2. (1 .. m) \in SUBSET S /\ 1 .. m # {} /\ m - 1 \in 0 .. n /\ m \in 0 .. n
      BY <1>1
    <2>3. iter[1 .. m] = Keep(iter[1 .. m - 1], q[m])
      BY <1>9, <2>1, <2>2
    <2> QED
      BY <2>2, <2>3
  <1> QED
    BY <1>10, <1>11

\* The rows kept of the first m rows received: no two meet, and every row meets one.
KeptOf(m, kept) ==
  /\ kept \in Seq(Rows)
  /\ \A j, k \in DOMAIN kept : j # k => ~SameNews(kept[j], kept[k])
  /\ \A j \in 1 .. m : \E k \in DOMAIN kept : SameNews(kept[k], Received[j])

LEMMA ItemsKept ==
  ASSUME Received \in Seq(Rows)
  PROVE  KeptOf(Len(Received), Items)
  <1>1. PICK kept : /\ kept[0] = <<>> /\ kept[Len(Received)] = Items
                    /\ \A m \in 1 .. Len(Received) : kept[m] = Keep(kept[m - 1], Received[m])
    BY ItemsFold
  <1>2. ASSUME NEW m \in 1 .. Len(Received), KeptOf(m - 1, kept[m - 1])
        PROVE  KeptOf(m, kept[m])
    <2> DEFINE old == kept[m - 1]
               added == Received[m]
    <2>1. added \in Rows /\ kept[m] = Keep(old, added)
      BY <1>1
    <2>2. old \in Seq(Rows)
      BY <1>2 DEF KeptOf
    <2>3. CASE \E k \in DOMAIN old : SameNews(old[k], added)
      <3>1. kept[m] = old
        BY <2>1, <2>3 DEF Keep
      <3>2. \A j \in 1 .. m : j \in 1 .. m - 1 \/ j = m
        OBVIOUS
      <3> QED
        BY <1>2, <2>3, <3>1, <3>2 DEF KeptOf
    <2>4. CASE ~\E k \in DOMAIN old : SameNews(old[k], added)
      <3>1. kept[m] = Append(old, added)
        BY <2>1, <2>4 DEF Keep
      <3>2. /\ Append(old, added) \in Seq(Rows) /\ Len(old) \in Nat
            /\ DOMAIN old = 1 .. Len(old) /\ DOMAIN Append(old, added) = 1 .. Len(old) + 1
            /\ \A k \in DOMAIN old : Append(old, added)[k] = old[k]
            /\ Append(old, added)[Len(old) + 1] = added
        BY <2>1, <2>2
      <3>3. \A x, y : SameNews(x, y) <=> SameNews(y, x)
        BY DEF SameNews
      <3>4. ASSUME NEW j \in DOMAIN kept[m], NEW k \in DOMAIN kept[m], j # k
            PROVE  ~SameNews(kept[m][j], kept[m][k])
        <4>1. CASE j \in DOMAIN old /\ k \in DOMAIN old
          BY <1>2, <3>1, <3>2, <3>4, <4>1 DEF KeptOf
        <4>2. CASE j \in DOMAIN old /\ k = Len(old) + 1
          BY <2>4, <3>1, <3>2, <4>2
        <4>3. CASE j = Len(old) + 1 /\ k \in DOMAIN old
          BY <2>4, <3>1, <3>2, <3>3, <4>3
        <4> QED
          BY <3>1, <3>2, <3>4, <4>1, <4>2, <4>3
      <3>5. ASSUME NEW j \in 1 .. m
            PROVE  \E k \in DOMAIN kept[m] : SameNews(kept[m][k], Received[j])
        <4>1. CASE j = m
          <5>1. Len(old) + 1 \in DOMAIN kept[m] /\ kept[m][Len(old) + 1] = Received[j]
            BY <3>1, <3>2, <4>1
          <5> QED
            BY <5>1 DEF SameNews
        <4>2. CASE j # m
          <5>1. j \in 1 .. m - 1
            BY <4>2
          <5>2. PICK k \in DOMAIN old : SameNews(old[k], Received[j])
            BY <1>2, <5>1 DEF KeptOf
          <5>3. k \in DOMAIN kept[m] /\ kept[m][k] = old[k]
            BY <3>1, <3>2
          <5> QED
            BY <5>2, <5>3
        <4> QED
          BY <4>1, <4>2
      <3> QED
        BY <3>1, <3>2, <3>4, <3>5 DEF KeptOf
    <2> QED
      BY <2>3, <2>4
  <1>3. KeptOf(0, kept[0])
    BY <1>1 DEF KeptOf
  <1> DEFINE Bad == {m \in 0 .. Len(Received) : ~KeptOf(m, kept[m])}
  <1>4. Bad = {}
    <2> SUFFICES ASSUME Bad # {} PROVE FALSE
      OBVIOUS
    <2>1. Len(Received) \in Nat
      OBVIOUS
    <2>2. Bad \subseteq Nat
      BY <2>1
    <2>3. PICK m \in Bad : \A k \in Bad : m <= k
      BY <2>2, LeastNat
    <2>4. m \in 1 .. Len(Received) /\ m - 1 \in 0 .. Len(Received) /\ ~KeptOf(m, kept[m])
      BY <1>3, <2>1, <2>3
    <2>5. m - 1 \notin Bad
      BY <2>3, <2>4
    <2> QED
      BY <1>2, <2>4, <2>5
  <1>5. Len(Received) \in 0 .. Len(Received)
    OBVIOUS
  <1> QED
    BY <1>1, <1>4, <1>5

LEMMA ReceivedTyped == NewsType => Received \in Seq(Rows)
  <1> SUFFICES ASSUME NewsType PROVE Received \in Seq(Rows)
    OBVIOUS
  <1>1. \A v \in Results : v.rows \in Seq(Rows)
    BY DEF Results, FetchedValues
  <1> QED
    BY <1>1 DEF NewsType, Received, NewsProviders

(* get_merged_news shows an article once, whichever of its keys repeats,   *)
(* and drops none whose article or site is not shown, for any answers.     *)
THEOREM NewsShownOnce == NewsSpec => []ArticlesOnce
  <1>1. NewsInv => ArticlesOnce
    BY ReceivedTyped, ItemsKept DEF NewsInv, KeptOf, SameNews, ArticlesOnce
  <1> QED
    BY <1>1, NewsRuns, PTL

LEMMA ItemsAreReceived ==
  ASSUME NewsType, Items # <<>>
  PROVE  Says("ok") \/ Says("cached")
  <1> SUFFICES ASSUME ~Says("ok"), ~Says("cached") PROVE FALSE
    OBVIOUS
  <1>1. \A p \in NewsProviders : fetched[p].rows = <<>>
    <2>1. ASSUME NEW p \in NewsProviders PROVE fetched[p].rows = <<>>
      <3>1. fetched[p] \in Results /\ fetched[p].status # "ok" /\ fetched[p].status # "cached"
        BY DEF NewsType, Says
      <3> QED
        BY <3>1 DEF Results, FetchedValues
    <2> QED
      BY <2>1
  <1>2. Received = <<>>
    BY <1>1 DEF Received, NewsProviders
  <1>3. PICK kept : kept[0] = <<>> /\ kept[Len(Received)] = Items
    BY ReceivedTyped, ItemsFold
  <1> QED
    BY <1>2, <1>3

\* A cached result has rows, and rows have an item.
LEMMA CachedIsShown ==
  ASSUME NewsType, NEW p \in NewsProviders, fetched[p].status = "cached"
  PROVE  Items # <<>>
  <1>1. fetched[p] \in Results
    BY DEF NewsType
  <1>2. fetched[p].rows # <<>>
    <2>1. ASSUME NEW v \in FetchedValues PROVE v.status # "cached"
      BY DEF FetchedValues, FreshStatuses
    <2> QED
      BY <1>1, <2>1 DEF Results
  <1>3. \A q \in NewsProviders : fetched[q].rows \in Seq(Rows)
    BY DEF NewsType, Results, FetchedValues
  <1>4. Len(Received) \in Nat /\ Len(Received) >= 1
    <2> DEFINE first == fetched["fmp"].rows
               second == fetched["polygon"].rows
    <2>1. first \in Seq(Rows) /\ second \in Seq(Rows)
      BY <1>3 DEF NewsProviders
    <2>2. first # <<>> \/ second # <<>>
      BY <1>2 DEF NewsProviders
    <2>3. Received = first \o second
      BY DEF Received
    <2> HIDE DEF first, second
    <2> QED
      BY <2>1, <2>2, <2>3
  <1>5. Received \in Seq(Rows)
    BY ReceivedTyped
  <1>6. KeptOf(Len(Received), Items)
    BY <1>5, ItemsKept
  <1>7. 1 \in 1 .. Len(Received)
    BY <1>4
  <1>8. \E k \in DOMAIN Items : SameNews(Items[k], Received[1])
    BY <1>6, <1>7 DEF KeptOf
  <1> QED
    BY <1>8

LEMMA LimitsTold == NewsInv => LimitsAreTold
  <1> SUFFICES ASSUME NewsInv, Merged PROVE LimitsAreTold
    BY DEF LimitsAreTold
  <1>1. NewsType /\ FansTold
    BY DEF NewsInv
  <1>2. ASSUME NEW p \in NewsProviders
        PROVE  /\ fetched[p].status \in {"ok", "unavailable", "rate_limited", "empty", "timeout",
                                          "error", "cached"}
               /\ fetched[p].stale => fetched[p].status = "cached"
               /\ fetched[p].limited => fetched[p].status = "cached"
               /\ Told(fan[p], fetched[p])
    <2>1. fetched[p] \in Results /\ fetched[p].status # "none"
      BY <1>1 DEF NewsType, Merged
    <2> QED
      BY <1>1, <2>1 DEF Results, FetchedValues, FreshStatuses, FansTold
  <1>3. Items # <<>> => Says("ok") \/ Says("cached")
    BY <1>1, ItemsAreReceived
  <1>4. MergedStatus \notin RateLimited
    BY DEF MergedStatus, RateLimited
  <1>5. ASSUME SectionState = "ok" PROVE Items # <<>>
    <2>1. MergedStatus = "ok"
      BY <1>5 DEF SectionState
    <2> QED
      BY <2>1 DEF MergedStatus
  <1>6. ASSUME NEW p \in NewsProviders, fetched[p].status = "cached" /\ fetched[p].limited,
               Items # <<>>
        PROVE  SectionState \in RateLimited
    BY <1>6 DEF SectionState, RateLimited, Says
  <1>7. ASSUME NEW p \in NewsProviders,
               fan[p].limited, ~fan[p].blocked, fan[p].rows = <<>>
        PROVE  SectionState \in RateLimited
    <2>1. fan[p] # NoFan
      BY <1>7 DEF NoFan
    <2>2. fetched[p].status = "rate_limited" \/ (fetched[p].status = "cached" /\ fetched[p].limited)
      BY <1>2, <1>7, <2>1 DEF Told
    <2>3. CASE fetched[p].status = "rate_limited"
      BY <2>3 DEF SectionState, Says, RateLimited
    <2>4. CASE fetched[p].status = "cached" /\ fetched[p].limited
      <3>1. Items # <<>>
        BY <1>1, <2>4, CachedIsShown
      <3> QED
        BY <1>6, <2>4, <3>1
    <2> QED
      BY <2>2, <2>3, <2>4
  <1>8. ASSUME SectionState \in RateLimited
        PROVE  \E p \in NewsProviders : fan[p].limited \/ fan[p] = NoFan
    <2>1. \E p \in NewsProviders : fetched[p].status = "rate_limited" \/ fetched[p].limited
      BY <1>4, <1>8 DEF SectionState, Says, RateLimited
    <2> QED
      BY <1>2, <2>1 DEF Told
  <1>9. Items # <<>> /\ Says("cached") => SectionState \in {"cached", "rate_limited_cached"}
    BY DEF SectionState
  <1>10. SectionState \in {"empty", "unavailable", "timeout", "rate_limited_no_cache"} => Items = <<>>
    <2> SUFFICES ASSUME Items # <<>>
                 PROVE  SectionState \notin {"empty", "unavailable", "timeout", "rate_limited_no_cache"}
      OBVIOUS
    <2>1. MergedStatus \in {"ok", "partial"}
      BY <1>3 DEF MergedStatus
    <2> QED
      BY <2>1 DEF SectionState
  <1>11. \A p \in NewsProviders : fan[p] # NoFan /\ fetched[p].status = "empty" => ~Barred(p)
    BY <1>2 DEF Told, Barred
  <1>12. (\E p \in NewsProviders : fetched[p].stale) => Says("cached")
    BY <1>2 DEF Says
  <1> QED
    BY <1>5, <1>7, <1>8, <1>9, <1>10, <1>11, <1>12 DEF LimitsAreTold

(* A 429 that left a provider without rows is told by the brief's news     *)
(* state, and no other is; old items are called cached, and a state of     *)
(* absence stands over no items.                                           *)
THEOREM NewsLimitsTold == NewsSpec => []LimitsAreTold
  BY LimitsTold, NewsRuns, PTL

-------------------------------------------------------------------------------
(***************************************************************************)
(* The brief and its history.                                              *)
(***************************************************************************)

Row ==
  [tags : SUBSET {"SCANNER", "HELD", "RECENTLY_TRADED", "WATCHED", "UNMAPPED"},
   strength : {"none", "low", "medium", "high"}, change : Int,
   mapping : {"mapped", "unmapped", "unresolved"},
   news : Nat, earnings : BOOLEAN, priority : Nat]

BriefRows(r) == DOMAIN r \subseteq BriefTickers /\ r \in [DOMAIN r -> Row]

Sections == {"price", "news", "earnings", "unmapped", "candidates"}

BriefInv == BriefRows(rows) /\ HistoryAgrees

-------------------------------------------------------------------------------
\* The rows keep their form.
LEMMA RowFields ==
  ASSUME NEW entry \in Row
  PROVE  /\ \A tags \in SUBSET {"SCANNER", "HELD", "RECENTLY_TRADED", "WATCHED", "UNMAPPED"} :
              [entry EXCEPT !.tags = tags] \in Row
         /\ \A m \in {"mapped", "unmapped", "unresolved"} : [entry EXCEPT !.mapping = m] \in Row
         /\ \A n \in Nat : [entry EXCEPT !.news = n] \in Row /\ [entry EXCEPT !.priority = n] \in Row
         /\ \A b \in BOOLEAN : [entry EXCEPT !.earnings = b] \in Row
  BY DEF Row

LEMMA PriorityType ==
  ASSUME NEW entry \in Row
  PROVE  Priority(entry) \in Nat
  <1> DEFINE held == "HELD" \in entry.tags
             top == {1} \cup (IF held THEN {2} ELSE {})
                    \cup (IF entry.strength = "none" THEN {} ELSE {4 - Rank[entry.strength]})
                    \cup (IF entry.news > 0 \/ entry.earnings THEN {3} ELSE {})
                    \cup (IF held /\ entry.earnings THEN {4} ELSE {})
                    \cup (IF held /\ entry.strength # "none" /\ entry.news > 0 THEN {5} ELSE {})
  <1>1. entry.strength # "none" => 4 - Rank[entry.strength] \in 0 .. 5
    <2>1. entry.strength \in {"none", "low", "medium", "high"}
      BY DEF Row
    <2>2. CASE entry.strength = "low"
      BY <2>2 DEF Rank
    <2>3. CASE entry.strength = "medium"
      BY <2>3 DEF Rank
    <2>4. CASE entry.strength = "high"
      BY <2>4 DEF Rank
    <2> QED
      BY <2>1, <2>2, <2>3, <2>4
  <1>2. top \in SUBSET (0 .. 5) /\ top # {}
    <2> DEFINE strong == 4 - Rank[entry.strength]
    <2> HIDE DEF held, strong
    <2>1. entry.strength # "none" => strong \in 0 .. 5
      BY <1>1 DEF strong
    <2> QED
      BY <2>1 DEF strong
  <1>3. Priority(entry) = Max(top)
    BY DEF Priority
  <1> HIDE DEF top
  <1>4. Max(top) \in top
    BY <1>2, MaxOfDays
  <1>5. Max(top) \in 0 .. 5
    BY <1>2, <1>4
  <1> QED
    BY <1>3, <1>5

LEMMA InitBrief == BriefInit => BriefInv
  BY DEF BriefInit, BriefInv, BriefRows, HistoryAgrees

LEMMA RowsBuilt ==
  ASSUME NEW D \in SUBSET BriefTickers, NEW r, r = [t \in D |-> r[t]], \A t \in D : r[t] \in Row
  PROVE  BriefRows(r)
  <1>1. DOMAIN r = D
    OBVIOUS
  <1> QED
    BY <1>1 DEF BriefRows

LEMMA StepRows == BriefInv /\ [BriefNext]_briefVars => BriefRows(rows')
  <1> SUFFICES ASSUME BriefInv, [BriefNext]_briefVars PROVE BriefRows(rows')
    OBVIOUS
  <1>0. DOMAIN rows \in SUBSET BriefTickers /\ rows \in [DOMAIN rows -> Row]
    BY DEF BriefInv, BriefRows
  <1>1. CASE ScanStocks
    <2>1. PICK snap \in [InMaster -> Snapshots], kept \in SUBSET InMaster :
            rows' = [t \in kept |->
                  [NewRow EXCEPT !.tags = {"SCANNER"}, !.mapping = "mapped",
                     !.strength = Strength(ScanTypes(snap[t])),
                     !.change = snap[t].change_1d]]
      BY <1>1 DEF ScanStocks
    <2>2. \A s \in Snapshots : s.change_1d \in Int
      BY BriefAssumption
    <2>3. \A t \in kept : rows'[t] \in Row
      <3> SUFFICES ASSUME NEW t \in kept PROVE rows'[t] \in Row
        OBVIOUS
      <3> DEFINE strength == Strength(ScanTypes(snap[t]))
                 change == snap[t].change_1d
      <3>1. strength \in {"low", "medium", "high"}
        BY DEF Strength
      <3>2. change \in Int
        BY <2>2
      <3>3. rows'[t] = [NewRow EXCEPT !.tags = {"SCANNER"}, !.mapping = "mapped",
                          !.strength = strength, !.change = change]
        BY <2>1
      <3> HIDE DEF strength, change
      <3>4. rows'[t] = [tags |-> {"SCANNER"}, strength |-> strength, change |-> change,
                        mapping |-> "mapped", news |-> 0, earnings |-> FALSE, priority |-> 1]
        BY <3>3 DEF NewRow
      <3> QED
        BY <3>1, <3>2, <3>4 DEF Row
    <2>4. kept \in SUBSET BriefTickers /\ rows' = [t \in kept |-> rows'[t]]
      BY <2>1, BriefAssumption
    <2> QED
      BY <2>3, <2>4, RowsBuilt
  <1>2. CASE ReadMirror
    <2>1. PICK tags \in [BriefTickers -> MirrorTags] :
            LET entry(t) == IF t \in DOMAIN rows THEN rows[t] ELSE NewRow
            IN  rows' = [t \in DOMAIN rows \cup Mirror(tags) |->
                  [entry(t) EXCEPT
                     !.tags = entry(t).tags \cup tags[t],
                     !.mapping = IF t \in Mirror(tags) THEN MirrorStatus(t) ELSE entry(t).mapping]]
      BY <1>2 DEF ReadMirror
    <2> DEFINE entry(t) == IF t \in DOMAIN rows THEN rows[t] ELSE NewRow
               D == DOMAIN rows \cup Mirror(tags)
    <2>2. D \in SUBSET BriefTickers /\ DOMAIN rows' = D /\ rows' = [t \in D |-> rows'[t]]
      BY <1>0, <2>1 DEF Mirror
    <2>3. ASSUME NEW t \in D PROVE rows'[t] \in Row
      <3>1. NewRow \in Row
        BY DEF NewRow, Row
      <3>2. entry(t) \in Row
        BY <1>0, <3>1
      <3>3. tags[t] \in SUBSET {"HELD", "RECENTLY_TRADED", "WATCHED"}
        BY <2>2, BriefAssumption
      <3> DEFINE status == IF t \in Mirror(tags) THEN MirrorStatus(t) ELSE entry(t).mapping
                 old == entry(t)
                 more == tags[t]
      <3>4. rows'[t] = [old EXCEPT !.tags = old.tags \cup more, !.mapping = status]
        BY <2>1
      <3>5. status \in {"mapped", "unmapped", "unresolved"}
        BY <3>2 DEF MirrorStatus, Row
      <3> HIDE DEF old, status, more
      <3>6. old \in Row /\ more \in SUBSET {"HELD", "RECENTLY_TRADED", "WATCHED"}
        BY <3>2, <3>3 DEF old, more
      <3>7. old.tags \cup more \in SUBSET {"SCANNER", "HELD", "RECENTLY_TRADED", "WATCHED", "UNMAPPED"}
        BY <3>6 DEF Row
      <3> DEFINE both == old.tags \cup more
      <3>8. both \in SUBSET {"SCANNER", "HELD", "RECENTLY_TRADED", "WATCHED", "UNMAPPED"}
            /\ rows'[t] = [old EXCEPT !.tags = both, !.mapping = status]
        BY <3>4, <3>7
      <3> HIDE DEF both
      <3>9. rows'[t] = [tags |-> both, strength |-> old.strength, change |-> old.change,
                        mapping |-> status, news |-> old.news, earnings |-> old.earnings,
                        priority |-> old.priority]
        BY <3>6, <3>8 DEF Row
      <3> QED
        BY <3>5, <3>6, <3>8, <3>9 DEF Row
    <2> HIDE DEF D
    <2> QED
      BY <2>2, <2>3, RowsBuilt
  <1>3. \A entry \in Row : Tagged(entry) \in Row
    <2> SUFFICES ASSUME NEW entry \in Row PROVE Tagged(entry) \in Row
      OBVIOUS
    <2>1. entry.tags \cup {"UNMAPPED"} \in SUBSET {"SCANNER", "HELD", "RECENTLY_TRADED", "WATCHED", "UNMAPPED"}
      BY DEF Row
    <2> QED
      BY <2>1, RowFields DEF Tagged
  <1>4. CASE PlanMapping
    <2>1. PICK planned \in SUBSET DOMAIN rows :
            rows' = [t \in DOMAIN rows |->
              Tagged(IF t \in planned THEN [rows[t] EXCEPT !.mapping = "unmapped"] ELSE rows[t])]
      BY <1>4 DEF PlanMapping
    <2>2. \A t \in DOMAIN rows : rows'[t] \in Row
      BY <1>0, <1>3, <2>1, RowFields
    <2> QED
      BY <1>0, <2>1, <2>2, RowsBuilt
  <1>5. CASE PlanFails
    <2>1. rows' = [t \in DOMAIN rows |-> Tagged(rows[t])]
      BY <1>5 DEF PlanFails
    <2>2. \A t \in DOMAIN rows : rows'[t] \in Row
      BY <1>0, <1>3, <2>1
    <2> QED
      BY <1>0, <2>1, <2>2, RowsBuilt
  <1>6. CASE FetchNews
    <2>1. PICK news \in [FanOutTickers -> NewsCounts] :
            rows' = [t \in DOMAIN rows |->
              IF t \in DOMAIN news THEN [rows[t] EXCEPT !.news = news[t]] ELSE rows[t]]
      BY <1>6 DEF FetchNews
    <2>2. \A t \in DOMAIN news : news[t] \in Nat
      BY BriefAssumption
    <2>3. \A t \in DOMAIN rows : rows'[t] \in Row
      BY <1>0, <2>1, <2>2, RowFields
    <2> QED
      BY <1>0, <2>1, <2>3, RowsBuilt
  <1>7. CASE FetchEarnings
    <2>1. PICK near :
            rows' = [t \in DOMAIN rows |->
              LET entry == [rows[t] EXCEPT !.earnings = t \in near]
              IN  [entry EXCEPT !.priority = Priority(entry)]]
      BY <1>7 DEF FetchEarnings
    <2>2. ASSUME NEW t \in DOMAIN rows PROVE rows'[t] \in Row
      <3> DEFINE entry == [rows[t] EXCEPT !.earnings = t \in near]
      <3>1. rows[t] \in Row /\ (t \in near) \in BOOLEAN
        BY <1>0
      <3>2. entry \in Row
        BY <3>1, RowFields
      <3>3. rows'[t] = [entry EXCEPT !.priority = Priority(entry)]
        BY <2>1
      <3> HIDE DEF entry
      <3> DEFINE p == Priority(entry)
      <3>4. p \in Nat /\ rows'[t] = [entry EXCEPT !.priority = p]
        BY <3>2, <3>3, PriorityType
      <3> HIDE DEF p
      <3> QED
        BY <3>2, <3>4, RowFields
    <2> QED
      BY <1>0, <2>1, <2>2, RowsBuilt
  <1>8. CASE UNCHANGED rows
    BY <1>8 DEF BriefInv
  <1> QED
    BY <1>1, <1>2, <1>4, <1>5, <1>6, <1>7, <1>8
    DEF BriefNext, ScanFails, MirrorFails, Persist, SkipPersist, PersistFails, briefVars

-------------------------------------------------------------------------------
\* A section is the beginning of its rows in the order of their keys.
Shown(section, r) == {t \in DOMAIN r : Shows(section, r[t])}
Order(section, r) == {z \in (DOMAIN r) \X (DOMAIN r) : Ahead(section, r, z[1], z[2])}

LEMMA OrderIsAhead ==
  ASSUME NEW section, NEW r, NEW t \in DOMAIN r, NEW u \in DOMAIN r
  PROVE  <<t, u>> \in Order(section, r) <=> Ahead(section, r, t, u)
  <1>1. <<t, u>>[1] = t /\ <<t, u>>[2] = u /\ <<t, u>> \in (DOMAIN r) \X (DOMAIN r)
    OBVIOUS
  <1> QED
    BY <1>1 DEF Order

LEMMA KeyTypes ==
  ASSUME NEW section \in Sections, NEW r, BriefRows(r), NEW t \in DOMAIN r
  PROVE  /\ SortKey(section, t, r[t]) \in Int \X Int \X Int
         /\ SortKey(section, t, r[t])[3] = t
  <1>1. r[t] \in Row /\ t \in Int
    BY BriefAssumption DEF BriefRows
  <1>2. r[t].priority \in Int /\ r[t].change \in Int /\ r[t].news \in Int
    BY <1>1 DEF Row
  <1>3. Size(r[t].change) \in Int
    BY <1>2 DEF Size
  <1>4. CASE section = "price"
    BY <1>1, <1>2, <1>3, <1>4 DEF SortKey
  <1>5. CASE section = "news"
    BY <1>1, <1>2, <1>5 DEF SortKey
  <1>6. CASE section = "unmapped"
    BY <1>1, <1>6 DEF SortKey
  <1>7. CASE section \in {"earnings", "candidates"}
    BY <1>1, <1>2, <1>7 DEF SortKey
  <1> QED
    BY <1>4, <1>5, <1>6, <1>7 DEF Sections

LEMMA AheadIsStrict ==
  ASSUME NEW section \in Sections, NEW r, BriefRows(r)
  PROVE  StrictOrder(Order(section, r), DOMAIN r)
  <1> DEFINE key(t) == SortKey(section, t, r[t])
  <1>1. \A t \in DOMAIN r : key(t) \in Int \X Int \X Int /\ key(t)[3] = t
    BY KeyTypes
  <1>2. \A t, u \in DOMAIN r : <<t, u>> \in Order(section, r) <=>
          \/ key(t)[1] < key(u)[1]
          \/ key(t)[1] = key(u)[1] /\ key(t)[2] < key(u)[2]
          \/ key(t)[1] = key(u)[1] /\ key(t)[2] = key(u)[2] /\ key(t)[3] < key(u)[3]
    BY OrderIsAhead DEF Ahead
  <1> HIDE DEF key
  <1>3. \A t \in DOMAIN r : key(t)[1] \in Int /\ key(t)[2] \in Int /\ key(t)[3] \in Int
    BY <1>1
  <1>4. \A t \in DOMAIN r : <<t, t>> \notin Order(section, r)
    BY <1>2, <1>3
  <1>5. ASSUME NEW t \in DOMAIN r, NEW u \in DOMAIN r, t # u
        PROVE  <<t, u>> \in Order(section, r) \/ <<u, t>> \in Order(section, r)
    <2>1. key(t)[3] # key(u)[3]
      BY <1>1, <1>5
    <2> QED
      BY <1>2, <1>3, <2>1
  <1>6. ASSUME NEW t \in DOMAIN r, NEW u \in DOMAIN r, NEW v \in DOMAIN r,
               <<t, u>> \in Order(section, r), <<u, v>> \in Order(section, r)
        PROVE  <<t, v>> \in Order(section, r)
    BY <1>2, <1>3, <1>6
  <1> QED
    BY <1>4, <1>5, <1>6 DEF StrictOrder

LEMMA SortedSorts ==
  ASSUME NEW section \in Sections, NEW r, BriefRows(r)
  PROVE  /\ Sorts(Sorted(section, r), Shown(section, r), Order(section, r))
         /\ StrictOrder(Order(section, r), Shown(section, r))
         /\ IsFiniteSet(Shown(section, r))
  <1> DEFINE S == Shown(section, r)
             R == Order(section, r)
             q == Sorted(section, r)
  <1>1. S \in SUBSET DOMAIN r
    BY DEF Shown
  <1>2. IsFiniteSet(S)
    <2>1. S \in SUBSET BriefTickers
      BY <1>1 DEF BriefRows
    <2> QED
      BY <2>1, BriefAssumption, FS_Subset
  <1>3. StrictOrder(R, S)
    BY <1>1, AheadIsStrict DEF StrictOrder
  <1>4. \A t \in S : {u \in S : Ahead(section, r, u, t)} = Before(R, S, t)
    <2> SUFFICES ASSUME NEW t \in S, NEW u \in S
                 PROVE  Ahead(section, r, u, t) <=> <<u, t>> \in R
      BY DEF Before
    <2> QED
      BY <1>1, OrderIsAhead
  <1>5. q = [k \in 1 .. Cardinality(S) |->
               CHOOSE t \in S : Cardinality({u \in S : Ahead(section, r, u, t)}) = k - 1]
    BY DEF Sorted, InOrder, Shown
  <1> HIDE DEF S, R, q
  <1>6. ASSUME NEW k \in 1 .. Cardinality(S)
        PROVE  q[k] \in S /\ Cardinality(Before(R, S, q[k])) = k - 1
    <2> DEFINE ahead(t) == {u \in S : Ahead(section, r, u, t)}
    <2>1. \E t \in S : Cardinality(Before(R, S, t)) = k - 1
      BY <1>2, <1>3, Places
    <2>2. \A t \in S : ahead(t) = Before(R, S, t)
      BY <1>4
    <2>3. q[k] = CHOOSE t \in S : Cardinality(ahead(t)) = k - 1
      BY <1>5
    <2> HIDE DEF ahead
    <2>4. \E t \in S : Cardinality(ahead(t)) = k - 1
      BY <2>1, <2>2
    <2>5. q[k] \in S /\ Cardinality(ahead(q[k])) = k - 1
      BY <2>3, <2>4
    <2> QED
      BY <2>2, <2>5
  <1>7. q = [k \in 1 .. Cardinality(S) |-> q[k]]
    <2> DEFINE place(k) == CHOOSE t \in S : Cardinality({u \in S : Ahead(section, r, u, t)}) = k - 1
    <2>1. q = [k \in 1 .. Cardinality(S) |-> place(k)]
      BY <1>5
    <2> HIDE DEF place
    <2> QED
      BY <2>1
  <1>8. Sorts(q, S, R)
    BY <1>2, <1>3, <1>6, <1>7, PlacedSorts
  <1> QED
    BY <1>2, <1>3, <1>8 DEF S, R, q

LEMMA FirstOf ==
  ASSUME NEW T, NEW s \in Seq(T), NEW n \in Nat
  PROVE  /\ Len(First(n, s)) = Least(n, Len(s)) /\ First(n, s) \in Seq(T)
         /\ \A i \in 1 .. Least(n, Len(s)) : First(n, s)[i] = s[i]
         /\ Least(n, Len(s)) \in Nat /\ Least(n, Len(s)) <= n /\ Least(n, Len(s)) <= Len(s)
  <1>1. Len(s) \in Nat
    OBVIOUS
  <1>2. Least(n, Len(s)) \in Nat /\ Least(n, Len(s)) <= n /\ Least(n, Len(s)) <= Len(s)
    BY <1>1 DEF Least
  <1> QED
    BY <1>1, <1>2 DEF First

-------------------------------------------------------------------------------
(* What is stored of some rows: the first of them in the order of candidates.  *)

LEMMA CapType == \A section \in Sections : Cap(section) \in Nat
  BY BriefAssumption DEF Sections, Cap

LEMMA AllAreCandidates ==
  ASSUME NEW r
  PROVE  Shown("candidates", r) = DOMAIN r
  BY DEF Shown, Shows

Ranked(r) == Sorted("candidates", r)
Room(r) == Least(ScanLimit, Len(Ranked(r)))

CutAt(r, kept) ==
  /\ Room(r) \in Nat /\ Room(r) <= ScanLimit /\ Room(r) <= Len(Ranked(r))
  /\ (Len(Ranked(r)) <= ScanLimit => Room(r) = Len(Ranked(r)))
  /\ Sorts(Ranked(r), DOMAIN r, Order("candidates", r))
  /\ StrictOrder(Order("candidates", r), DOMAIN r)
  /\ DOMAIN kept = {Ranked(r)[i] : i \in 1 .. Room(r)}
  /\ Section("candidates", r) = First(ScanLimit, Ranked(r))

OfRows(kept, r) ==
  /\ DOMAIN kept \in SUBSET DOMAIN r /\ \A t \in DOMAIN kept : kept[t] = r[t]
  /\ kept = [t \in DOMAIN kept |-> r[t]] /\ BriefRows(kept)

LEMMA CandidatesKept ==
  ASSUME NEW r, BriefRows(r), NEW kept, kept = Candidates(r)
  PROVE  CutAt(r, kept) /\ OfRows(kept, r)
  <1> DEFINE q == Ranked(r)
             l == Room(r)
  <1>1. "candidates" \in Sections
    BY DEF Sections
  <1>2. Sorts(q, DOMAIN r, Order("candidates", r)) /\ StrictOrder(Order("candidates", r), DOMAIN r)
    BY <1>1, SortedSorts, AllAreCandidates DEF Ranked
  <1>3. ScanLimit \in Nat
    BY BriefAssumption
  <1>4. q \in Seq(DOMAIN r) /\ Len(q) \in Nat
    BY <1>2 DEF Sorts
  <1>5. l \in Nat /\ l <= ScanLimit /\ l <= Len(q) /\ (Len(q) <= ScanLimit => l = Len(q))
    BY <1>3, <1>4 DEF Least, Room
  <1>6. Section("candidates", r) = First(ScanLimit, q)
    BY DEF Section, Cap, Ranked
  <1> DEFINE cut == First(ScanLimit, q)
  <1>7. Len(cut) = l /\ cut \in Seq(DOMAIN r) /\ \A i \in 1 .. l : cut[i] = q[i]
    BY <1>3, <1>4, FirstOf DEF Room
  <1> HIDE DEF cut
  <1>8. Range(cut) = {q[i] : i \in 1 .. l} /\ Range(cut) \in SUBSET DOMAIN r
    <2>1. DOMAIN cut = 1 .. l
      BY <1>7
    <2>2. \A i \in 1 .. l : q[i] \in DOMAIN r
      BY <1>4, <1>5
    <2> QED
      BY <1>7, <2>1, <2>2 DEF Range
  <1>9. kept = [t \in Range(cut) |-> r[t]]
    BY <1>6 DEF Candidates, Restrict, cut
  <1>10. DOMAIN kept = Range(cut) /\ \A t \in Range(cut) : kept[t] = r[t]
    BY <1>9
  <1>11. BriefRows(kept)
    <2>1. Range(cut) \in SUBSET BriefTickers /\ \A t \in Range(cut) : kept[t] \in Row
      BY <1>8, <1>10 DEF BriefRows
    <2> QED
      BY <1>9, <1>10, <2>1, RowsBuilt
  <1>12. CutAt(r, kept)
    BY <1>2, <1>5, <1>6, <1>8, <1>10 DEF cut, CutAt
  <1> QED
    BY <1>8, <1>9, <1>10, <1>11, <1>12 DEF OfRows

\* A row that comes before a stored one is stored; the others come after.
LEMMA StoredFirst ==
  ASSUME NEW r, BriefRows(r), NEW kept, kept = Candidates(r)
  PROVE  /\ \A u \in DOMAIN kept, t \in DOMAIN r :
              <<t, u>> \in Order("candidates", r) => t \in DOMAIN kept
         /\ \A t \in DOMAIN kept, u \in (DOMAIN r) \ DOMAIN kept :
              <<t, u>> \in Order("candidates", r)
  <1> DEFINE q == Ranked(r)
             l == Room(r)
             R == Order("candidates", r)
  <1>1. /\ l \in Nat /\ l <= Len(q)
        /\ Sorts(q, DOMAIN r, R) /\ StrictOrder(R, DOMAIN r)
        /\ DOMAIN kept = {q[i] : i \in 1 .. l} /\ DOMAIN kept \in SUBSET DOMAIN r
    <2>1. CutAt(r, kept) /\ OfRows(kept, r)
      BY CandidatesKept
    <2> QED
      BY <2>1 DEF CutAt, OfRows
  <1> HIDE DEF q, l, R
  <1>2. InPlace(q, DOMAIN r, R)
    BY <1>1, SortedOnce
  <1>3. ASSUME NEW t \in DOMAIN kept, NEW u \in (DOMAIN r) \ DOMAIN kept PROVE <<t, u>> \in R
    <2>1. PICK i \in 1 .. l : q[i] = t
      BY <1>1
    <2>2. PICK j \in 1 .. Len(q) : q[j] = u
      BY <1>2 DEF InPlace
    <2>3. j \notin 1 .. l
      BY <1>1, <2>2
    <2>4. i < j /\ i \in 1 .. Len(q)
      BY <1>1, <1>2, <2>3 DEF InPlace
    <2> QED
      BY <1>2, <2>1, <2>2, <2>4 DEF InPlace
  <1>4. ASSUME NEW u \in DOMAIN kept, NEW t \in DOMAIN r, <<t, u>> \in R PROVE t \in DOMAIN kept
    <2> SUFFICES ASSUME t \notin DOMAIN kept PROVE FALSE
      OBVIOUS
    <2>1. <<u, t>> \in R
      BY <1>3
    <2>2. <<t, t>> \in R
      BY <1>1, <1>4, <2>1 DEF StrictOrder
    <2> QED
      BY <1>1, <2>2 DEF StrictOrder
  <1> QED
    BY <1>3, <1>4 DEF R

\* A section of the history sorts the stored rows of the brief's section as the brief did.
LEMMA HistorySorts ==
  ASSUME NEW section \in Sections, NEW r, BriefRows(r), NEW kept, kept = Candidates(r)
  PROVE  /\ Shown(section, kept) = Shown(section, r) \cap DOMAIN kept
         /\ Sorts(Sorted(section, kept), Shown(section, kept), Order(section, r))
  <1>1. /\ DOMAIN kept \in SUBSET DOMAIN r /\ \A t \in DOMAIN kept : kept[t] = r[t]
        /\ BriefRows(kept)
    BY CandidatesKept DEF OfRows
  <1>2. Shown(section, kept) = Shown(section, r) \cap DOMAIN kept
    BY <1>1 DEF Shown
  <1>3. Sorts(Sorted(section, kept), Shown(section, kept), Order(section, kept))
    BY <1>1, SortedSorts
  <1>4. \A t, u \in DOMAIN kept : <<t, u>> \in Order(section, kept) => <<t, u>> \in Order(section, r)
    <2> SUFFICES ASSUME NEW t \in DOMAIN kept, NEW u \in DOMAIN kept,
                        <<t, u>> \in Order(section, kept)
                 PROVE  <<t, u>> \in Order(section, r)
      OBVIOUS
    <2>1. Ahead(section, kept, t, u)
      BY OrderIsAhead
    <2>2. kept[t] = r[t] /\ kept[u] = r[u]
      BY <1>1
    <2>3. Ahead(section, r, t, u)
      BY <2>1, <2>2 DEF Ahead
    <2> QED
      BY <1>1, <2>3, OrderIsAhead
  <1>5. \A t \in Shown(section, kept) : t \in DOMAIN kept
    BY DEF Shown
  <1> DEFINE p == Sorted(section, kept)
             T == Shown(section, kept)
  <1> HIDE DEF p, T
  <1>6. Sorts(p, T, Order(section, kept)) /\ \A t \in T : t \in DOMAIN kept
    BY <1>3, <1>5 DEF p, T
  <1>7. Sorts(p, T, Order(section, r))
    <2>1. \A k \in 1 .. Len(p) : p[k] \in T
      BY <1>6 DEF Sorts
    <2>2. \A j, k \in 1 .. Len(p) : j < k => <<p[j], p[k]>> \in Order(section, r)
      BY <1>4, <1>6, <2>1 DEF Sorts
    <2> QED
      BY <1>6, <2>2 DEF Sorts
  <1> QED
    BY <1>2, <1>7 DEF p, T

LEMMA CandidatesAgree ==
  ASSUME NEW r, BriefRows(r), NEW kept, kept = Candidates(r)
  PROVE  Section("candidates", kept) = Section("candidates", r)
  <1> DEFINE q == Ranked(r)
             p == Ranked(kept)
             l == Room(r)
             R == Order("candidates", r)
             S == DOMAIN r
             T == DOMAIN kept
  <1>1. /\ l \in Nat /\ l <= ScanLimit /\ l <= Len(q)
        /\ Sorts(q, S, R) /\ StrictOrder(R, S)
        /\ T = {q[i] : i \in 1 .. l} /\ T \in SUBSET S
        /\ Section("candidates", r) = First(ScanLimit, q)
    <2>1. CutAt(r, kept) /\ OfRows(kept, r)
      BY CandidatesKept
    <2> QED
      BY <2>1 DEF CutAt, OfRows
  <1>2. "candidates" \in Sections
    BY DEF Sections
  <1>3. Sorts(p, T, R)
    BY <1>2, HistorySorts, AllAreCandidates DEF Ranked
  <1>4. Closed(T, S, R)
    BY StoredFirst DEF Closed
  <1>5. ScanLimit \in Nat
    BY BriefAssumption
  <1>6. Section("candidates", kept) = First(ScanLimit, p)
    BY DEF Section, Cap, Ranked
  <1>7. l = Least(ScanLimit, Len(q))
    BY DEF Room
  <1> HIDE DEF q, p, l, R, S, T
  <1>8. Len(p) <= Len(q) /\ \A i \in 1 .. Len(p) : p[i] = q[i]
    <2>1. Sorts(q, S, R) /\ StrictOrder(R, S) /\ T \in SUBSET S
      BY <1>1
    <2> QED
      BY <1>3, <1>4, <2>1, Beginning DEF Begins
  <1>9. InPlace(q, S, R) /\ InPlace(p, T, R)
    <2>1. S \in SUBSET S
      OBVIOUS
    <2> QED
      BY <1>1, <1>3, <2>1, SortedOnce
  <1>10. Len(p) = l
    <2>1. Len(p) \in Nat /\ Len(q) \in Nat
      BY <1>9 DEF InPlace
    <2>2. ~(Len(p) < l)
      <3> SUFFICES ASSUME Len(p) < l PROVE FALSE
        OBVIOUS
      <3>1. l \in 1 .. l /\ l \in 1 .. Len(q) /\ q[l] \in T
        BY <1>1, <2>1
      <3>2. PICK k \in 1 .. Len(p) : p[k] = q[l]
        BY <1>9, <3>1 DEF InPlace
      <3>3. q[k] = q[l] /\ k \in 1 .. Len(q)
        BY <1>8, <2>1, <3>2
      <3>4. k = l
        BY <1>9, <3>1, <3>3 DEF InPlace
      <3> QED
        BY <2>1, <3>2, <3>4
    <2>3. ~(Len(p) > l)
      <3> SUFFICES ASSUME Len(p) > l PROVE FALSE
        OBVIOUS
      <3>1. l + 1 \in 1 .. Len(p) /\ l + 1 \in 1 .. Len(q)
        BY <1>1, <1>8, <2>1
      <3>2. q[l + 1] \in T
        BY <1>8, <1>9, <3>1 DEF InPlace
      <3>3. PICK i \in 1 .. l : q[i] = q[l + 1]
        BY <1>1, <3>2
      <3>4. i \in 1 .. Len(q)
        BY <1>1, <2>1
      <3>5. i = l + 1
        BY <1>9, <3>1, <3>3, <3>4 DEF InPlace
      <3> QED
        BY <1>1, <3>3, <3>5
    <2> QED
      BY <1>1, <2>1, <2>2, <2>3
  <1>11. p \in Seq(T) /\ q \in Seq(S)
    BY <1>1, <1>3 DEF Sorts
  <1>12. Least(ScanLimit, Len(p)) = l
    BY <1>1, <1>5, <1>10 DEF Least
  <1>13. First(ScanLimit, p) = First(ScanLimit, q)
    <2> DEFINE a == First(ScanLimit, p)
               b == First(ScanLimit, q)
    <2>1. Len(a) = l /\ a \in Seq(T) /\ \A i \in 1 .. l : a[i] = p[i]
      BY <1>5, <1>11, <1>12, FirstOf
    <2>2. Len(b) = l /\ b \in Seq(S) /\ \A i \in 1 .. l : b[i] = q[i]
      BY <1>5, <1>7, <1>11, FirstOf
    <2> HIDE DEF a, b
    <2>3. \A i \in 1 .. l : a[i] = b[i]
      BY <1>8, <1>10, <2>1, <2>2
    <2>4. a = b
      BY <2>1, <2>2, <2>3
    <2> QED
      BY <2>4 DEF a, b
  <1> QED
    BY <1>1, <1>6, <1>13

LEMMA EarningsAgree ==
  ASSUME NEW r, BriefRows(r), NEW kept, kept = Candidates(r)
  PROVE  IsPrefix(Section("earnings", kept), Section("earnings", r))
  <1> DEFINE q == Sorted("earnings", r)
             p == Sorted("earnings", kept)
             R == Order("earnings", r)
             S == Shown("earnings", r)
             T == Shown("earnings", kept)
             a == Section("earnings", kept)
             b == Section("earnings", r)
  <1>1. "earnings" \in Sections
    BY DEF Sections
  <1>2. Sorts(q, S, R) /\ StrictOrder(R, S)
    BY <1>1, SortedSorts
  <1>3. T = S \cap DOMAIN kept /\ Sorts(p, T, R)
    BY <1>1, HistorySorts
  <1>4. Closed(T, S, R)
    <2> SUFFICES ASSUME NEW u \in T, NEW t \in S, <<t, u>> \in R PROVE t \in T
      BY DEF Closed
    <2>1. u \in DOMAIN kept /\ u \in DOMAIN r /\ t \in DOMAIN r
      BY <1>3 DEF Shown
    <2>2. Ahead("earnings", r, t, u)
      BY <2>1, OrderIsAhead
    <2>3. Ahead("candidates", r, t, u)
      <3>1. \A x, entry : SortKey("earnings", x, entry) = SortKey("candidates", x, entry)
        BY DEF SortKey
      <3> QED
        BY <2>2, <3>1 DEF Ahead
    <2>4. t \in DOMAIN kept
      BY <2>1, <2>3, OrderIsAhead, StoredFirst
    <2> QED
      BY <1>3, <2>4
  <1>5. a = First(SectionTop, p) /\ b = First(SectionTop, q) /\ SectionTop \in Nat
    BY BriefAssumption DEF Section, Cap
  <1> HIDE DEF q, p, R, S, T, a, b
  <1>6. Len(p) <= Len(q) /\ \A i \in 1 .. Len(p) : p[i] = q[i]
    <2>1. T \in SUBSET S
      BY <1>3
    <2> QED
      BY <1>2, <1>3, <1>4, <2>1, Beginning DEF Begins
  <1>7. p \in Seq(T) /\ q \in Seq(S)
    BY <1>2, <1>3 DEF Sorts
  <1> DEFINE m == Least(SectionTop, Len(p))
             n == Least(SectionTop, Len(q))
  <1>8. /\ Len(a) = m /\ a \in Seq(T) /\ \A i \in 1 .. m : a[i] = p[i]
        /\ m \in Nat /\ m <= Len(p)
    BY <1>5, <1>7, FirstOf
  <1>9. /\ Len(b) = n /\ b \in Seq(S) /\ \A i \in 1 .. n : b[i] = q[i]
        /\ n \in Nat
    BY <1>5, <1>7, FirstOf
  <1>10. m <= n
    BY <1>5, <1>6, <1>7 DEF Least
  <1> HIDE DEF m, n
  <1>11. \A i \in 1 .. m : a[i] = b[i]
    BY <1>6, <1>7, <1>8, <1>9, <1>10
  <1>12. SubSeq(a, 1, m) = SubSeq(b, 1, m)
    <2>1. SubSeq(a, 1, m) = [i \in 1 .. m |-> a[i]]
      BY <1>8
    <2>2. m <= Len(b) /\ m \in Nat /\ b \in Seq(S)
      BY <1>8, <1>9, <1>10
    <2>3. SubSeq(b, 1, m) = [i \in 1 .. m |-> b[i]]
      BY <2>2
    <2> QED
      BY <1>11, <2>1, <2>3
  <1> QED
    BY <1>8, <1>9, <1>10, <1>12 DEF IsPrefix, a, b

LEMMA PlacesAgree ==
  ASSUME NEW section \in Sections, NEW r, BriefRows(r), NEW kept, kept = Candidates(r),
         NEW i \in DOMAIN Section(section, r), Section(section, r)[i] \in DOMAIN kept
  PROVE  LET place == UpTo(Section(section, r), i, DOMAIN kept)
         IN  place <= Len(Section(section, kept)) /\ Section(section, kept)[place] = Section(section, r)[i]
  <1> DEFINE q == Sorted(section, r)
             p == Sorted(section, kept)
             R == Order(section, r)
             S == Shown(section, r)
             T == Shown(section, kept)
             K == DOMAIN kept
             c == Cap(section)
             a == Section(section, kept)
             b == Section(section, r)
  <1>1. Sorts(q, S, R) /\ StrictOrder(R, S)
    BY SortedSorts
  <1>2. T = S \cap K /\ Sorts(p, T, R)
    BY HistorySorts
  <1>3. a = First(c, p) /\ b = First(c, q) /\ c \in Nat
    BY CapType DEF Section
  <1>4. i \in DOMAIN b /\ b[i] \in K
    OBVIOUS
  <1> SUFFICES LET place == UpTo(b, i, K)
               IN  place <= Len(a) /\ a[place] = b[i]
    OBVIOUS
  <1> HIDE DEF q, p, R, S, T, K, a, b, c
  <1>5. p \in Seq(T) /\ q \in Seq(S) /\ Len(p) \in Nat /\ Len(q) \in Nat
    BY <1>1, <1>2 DEF Sorts
  <1> DEFINE m == Least(c, Len(p))
             n == Least(c, Len(q))
  <1>6. /\ Len(a) = m /\ \A j \in 1 .. m : a[j] = p[j]
        /\ m \in Nat
    BY <1>3, <1>5, FirstOf
  <1>7. /\ Len(b) = n /\ b \in Seq(S) /\ \A j \in 1 .. n : b[j] = q[j]
        /\ n \in Nat /\ n <= c /\ n <= Len(q)
    BY <1>3, <1>5, FirstOf
  <1>8. i \in 1 .. n /\ i \in 1 .. Len(q) /\ \A j \in 1 .. i : j \in 1 .. n
    BY <1>4, <1>5, <1>7
  <1>9. {j \in 1 .. i : b[j] \in K} = {j \in 1 .. i : q[j] \in K} /\ b[i] = q[i] /\ q[i] \in K
    BY <1>4, <1>7, <1>8
  <1> DEFINE place == UpTo(q, i, K)
  <1>10. place \in 1 .. i /\ place <= Len(p) /\ p[place] = q[i]
    <2>1. T \in SUBSET S /\ T = S \cap K
      BY <1>2
    <2>2. HasPlace(p, q[i], i, UpTo(q, i, K))
      BY <1>1, <1>2, <1>8, <1>9, <2>1, PlaceInPart
    <2> QED
      BY <2>2 DEF HasPlace
  <1>11. UpTo(b, i, K) = place
    BY <1>9 DEF UpTo
  <1> HIDE DEF place
  <1>12. place \in 1 .. m
    BY <1>3, <1>5, <1>7, <1>8, <1>10 DEF Least, m
  <1>13. place <= Len(a) /\ a[place] = b[i]
    BY <1>6, <1>9, <1>10, <1>12
  <1> QED
    BY <1>11, <1>13

LEMMA AllStored ==
  ASSUME NEW r, BriefRows(r), NEW kept, kept = Candidates(r), Cardinality(DOMAIN r) <= ScanLimit
  PROVE  kept = r
  <1> DEFINE q == Ranked(r)
             l == Room(r)
             R == Order("candidates", r)
  <1>1. /\ Len(q) <= ScanLimit => l = Len(q)
        /\ Sorts(q, DOMAIN r, R)
        /\ DOMAIN kept = {q[i] : i \in 1 .. l}
        /\ DOMAIN kept \in SUBSET DOMAIN r
        /\ kept = [t \in DOMAIN kept |-> r[t]]
    <2>1. CutAt(r, kept) /\ OfRows(kept, r)
      BY CandidatesKept
    <2> QED
      BY <2>1 DEF CutAt, OfRows
  <1> HIDE DEF q, l, R
  <1>2. l = Len(q) /\ \A t \in DOMAIN r : \E k \in 1 .. Len(q) : q[k] = t
    BY <1>1 DEF Sorts
  <1>3. DOMAIN kept = DOMAIN r
    BY <1>1, <1>2
  <1> QED
    BY <1>1, <1>3 DEF BriefRows

LEMMA BestStored ==
  ASSUME NEW r, BriefRows(r), NEW kept, kept = Candidates(r),
         NEW t \in DOMAIN kept, NEW u \in (DOMAIN r) \ DOMAIN kept
  PROVE  kept[t].priority >= r[u].priority
  <1>1. t \in DOMAIN r /\ kept[t] = r[t]
    BY CandidatesKept DEF OfRows
  <1>2. Ahead("candidates", r, t, u)
    BY <1>1, StoredFirst, OrderIsAhead
  <1>3. r[t].priority \in Nat /\ r[u].priority \in Nat
    BY <1>1 DEF BriefRows, Row
  <1>4. /\ SortKey("candidates", t, r[t]) = <<-(r[t].priority), 0, t>>
        /\ SortKey("candidates", u, r[u]) = <<-(r[u].priority), 0, u>>
    BY DEF SortKey
  <1>5. -(r[t].priority) <= -(r[u].priority)
    BY <1>2, <1>3, <1>4 DEF Ahead
  <1> QED
    BY <1>1, <1>3, <1>5

LEMMA StepHistory == BriefInv /\ [BriefNext]_briefVars => HistoryAgrees'
  <1> SUFFICES ASSUME BriefInv, [BriefNext]_briefVars, stage' = "persisted" PROVE HistoryAgrees'
    BY DEF HistoryAgrees
  <1>1. CASE Persist
    <2>1. rows' = rows /\ stored' = Candidates(rows) /\ BriefRows(rows)
      BY <1>1 DEF Persist, BriefInv
    <2>2. Section("candidates", stored') = Section("candidates", rows)
      BY <2>1, CandidatesAgree
    <2>3. IsPrefix(Section("earnings", stored'), Section("earnings", rows))
      BY <2>1, EarningsAgree
    <2>4. Cardinality(DOMAIN rows) <= ScanLimit => stored' = rows
      BY <2>1, AllStored
    <2>5. ASSUME NEW section \in Sections PROVE KeepsItsPlace(section)'
      <3>1. \A i \in DOMAIN Section(section, rows) :
              Section(section, rows)[i] \in DOMAIN stored' =>
                LET place == UpTo(Section(section, rows), i, DOMAIN stored')
                IN  /\ place <= Len(Section(section, stored'))
                    /\ Section(section, stored')[place] = Section(section, rows)[i]
        BY <2>1, PlacesAgree
      <3> QED
        BY <2>1, <3>1 DEF KeepsItsPlace, UpTo
    <2>6. \A t \in DOMAIN stored', u \in (DOMAIN rows) \ DOMAIN stored' :
            stored'[t].priority >= rows[u].priority
      BY <2>1, BestStored
    <2> QED
      BY <2>1, <2>2, <2>3, <2>4, <2>5, <2>6 DEF HistoryAgrees, Sections
  <1>2. CASE UNCHANGED briefVars
    <2>1. stage' = stage /\ rows' = rows /\ stored' = stored
      BY <1>2 DEF briefVars
    <2> QED
      BY <2>1 DEF BriefInv, HistoryAgrees, KeepsItsPlace
  <1>3. ASSUME BriefNext, ~Persist PROVE FALSE
    BY <1>3 DEF BriefNext, ScanStocks, ScanFails, ReadMirror, MirrorFails, PlanMapping, PlanFails,
                FetchNews, FetchEarnings, SkipPersist, PersistFails
  <1> QED
    BY <1>1, <1>2, <1>3

(* What the history shows of a stored brief agrees with what the brief     *)
(* showed, for any tickers, prices, mirror, news and limits: what is cut   *)
(* off is the end of the candidates, and every order is that of the brief. *)
THEOREM HistoryTellsTheBrief == BriefSpec => []HistoryAgrees
  <1>1. BriefInit => BriefInv
    BY InitBrief
  <1>2. BriefInv /\ [BriefNext]_briefVars => BriefInv'
    BY StepRows, StepHistory DEF BriefInv, BriefRows
  <1>3. BriefInv => HistoryAgrees
    BY DEF BriefInv
  <1> QED
    BY <1>1, <1>2, <1>3, PTL DEF BriefSpec

-------------------------------------------------------------------------------
(***************************************************************************)
(* Adjusted prices.                                                        *)
(***************************************************************************)

Days == 0 .. LastSession

AdjInv ==
  /\ DOMAIN raw \subseteq Days /\ raw \in [DOMAIN raw -> Closes]
  /\ splits \in Seq([ex : Days, ratio : SplitRatios])
  /\ payments \in Seq([ex : Days, cash : Dividends])

LEMMA PutTyped ==
  ASSUME NEW T, NEW s \in Seq(T), NEW action \in T
  PROVE  PutByExDate(s, action) \in Seq(T)
  <1> DEFINE earlier == {k \in DOMAIN s : s[k].ex <= action.ex}
             at == Cardinality(earlier)
  <1>1. DOMAIN s = 1 .. Len(s) /\ Len(s) \in Nat
    OBVIOUS
  <1>2. IsFiniteSet(1 .. Len(s)) /\ Cardinality(1 .. Len(s)) = Len(s)
    BY <1>1, FS_Interval
  <1>3. at \in Nat /\ at <= Len(s)
    <2>1. earlier \subseteq 1 .. Len(s)
      BY <1>1
    <2> HIDE DEF earlier
    <2> QED
      BY <1>2, <2>1, FS_Subset, FS_CardinalityType
  <1>4. PutByExDate(s, action) = SubSeq(s, 1, at) \o <<action>> \o SubSeq(s, at + 1, Len(s))
    <2>1. PutByExDate(s, action) =
            SubSeq(s, 1, (at + 1) - 1) \o <<action>> \o SubSeq(s, at + 1, Len(s))
      BY DEF PutByExDate, InsertAt
    <2>2. (at + 1) - 1 = at
      BY <1>3
    <2> QED
      BY <2>1, <2>2
  <1> HIDE DEF at
  <1>5. SubSeq(s, 1, at) \in Seq(T)
    BY <1>1, <1>3
  <1>6. SubSeq(s, at + 1, Len(s)) \in Seq(T)
    BY <1>1, <1>3
  <1>7. <<action>> \in Seq(T)
    OBVIOUS
  <1> QED
    BY <1>4, <1>5, <1>6, <1>7

LEMMA InitAdjusted == AdjustedInit => AdjInv
  BY DEF AdjustedInit, AdjInv

LEMMA StepAdjusted == AdjInv /\ [AdjustedNext]_adjVars => AdjInv'
  <1> SUFFICES ASSUME AdjInv, [AdjustedNext]_adjVars PROVE AdjInv'
    OBVIOUS
  <1>1. CASE StoreBar
    <2>1. PICK d \in Days, close0 \in Closes :
            raw' = [e \in DOMAIN raw \cup {d} |-> IF e = d THEN close0 ELSE raw[e]]
      BY <1>1 DEF StoreBar, Days
    <2>2. DOMAIN raw' = DOMAIN raw \cup {d}
      BY <2>1
    <2>3. \A e \in DOMAIN raw' : raw'[e] \in Closes
      BY <2>1 DEF AdjInv
    <2>4. raw' = [e \in DOMAIN raw' |-> raw'[e]]
      BY <2>1
    <2> QED
      BY <1>1, <2>2, <2>3, <2>4 DEF AdjInv, StoreBar
  <1>2. CASE StoreSplit
    <2> DEFINE T == [ex : Days, ratio : SplitRatios]
    <2>1. PICK d \in Days, ratio \in SplitRatios :
            splits' = PutByExDate(splits, [ex |-> d, ratio |-> ratio])
      BY <1>2 DEF StoreSplit, Days
    <2>2. splits \in Seq(T) /\ [ex |-> d, ratio |-> ratio] \in T
      BY DEF AdjInv
    <2> HIDE DEF T
    <2>3. splits' \in Seq(T)
      BY <2>1, <2>2, PutTyped
    <2> QED
      BY <1>2, <2>3 DEF AdjInv, StoreSplit, T
  <1>3. CASE StoreDividend
    <2> DEFINE T == [ex : Days, cash : Dividends]
    <2>1. PICK d \in Days, cash \in Dividends :
            payments' = PutByExDate(payments, [ex |-> d, cash |-> cash])
      BY <1>3 DEF StoreDividend, Days
    <2>2. payments \in Seq(T) /\ [ex |-> d, cash |-> cash] \in T
      BY DEF AdjInv
    <2> HIDE DEF T
    <2>3. payments' \in Seq(T)
      BY <2>1, <2>2, PutTyped
    <2> QED
      BY <1>3, <2>3 DEF AdjInv, StoreDividend, T
  <1>4. CASE UNCHANGED adjVars
    BY <1>4 DEF AdjInv, adjVars
  <1> QED
    BY <1>1, <1>2, <1>3, <1>4 DEF AdjustedNext

LEMMA ActionTypes ==
  ASSUME AdjInv
  PROVE  /\ \A k \in DOMAIN splits : splits[k].ex \in Days
         /\ \A k \in DOMAIN payments : payments[k].ex \in Days
         /\ Days \subseteq Nat
  <1> DEFINE Splits == [ex : Days, ratio : SplitRatios]
             Payments == [ex : Days, cash : Dividends]
  <1>1. splits \in Seq(Splits) /\ payments \in Seq(Payments)
    BY DEF AdjInv
  <1>2. \A t \in Splits \cup Payments : t.ex \in Days
    OBVIOUS
  <1> HIDE DEF Splits, Payments
  <1>3. /\ \A k \in DOMAIN splits : splits[k] \in Splits
        /\ \A k \in DOMAIN payments : payments[k] \in Payments
    BY <1>1
  <1> QED
    BY <1>2, <1>3, AdjustedAssumption DEF Days

\* A column that no ratio is taken on stays at 1.
LEMMA ProductOfOnes ==
  ASSUME NEW n \in Nat, NEW ratios, DOMAIN ratios = 1 .. n, \A k \in 1 .. n : ratios[k] = <<1, 1>>
  PROVE  Product(ratios) = <<1, 1>>
  <1> DEFINE S == 1 .. n
             Iter(iter) == iter = [s \in SUBSET S |->
                             IF s = {} THEN <<1, 1>> ELSE Times(iter[s \ {Max(s)}], ratios[Max(s)])]
             ones == [s \in SUBSET S |-> <<1, 1>>]
             iter == CHOOSE g : Iter(g)
  <1>1. \A s \in SUBSET S : s # {} => Max(s) \in S
    BY MaxIsLast
  <1>0. Times(<<1, 1>>, <<1, 1>>) = <<1, 1>>
    BY DEF Times
  <1>2. Iter(ones)
    <2>1. ASSUME NEW s \in SUBSET S
          PROVE  ones[s] = IF s = {} THEN <<1, 1>>
                           ELSE Times(ones[s \ {Max(s)}], ratios[Max(s)])
      <3>1. CASE s # {}
        <4>1. ratios[Max(s)] = <<1, 1>> /\ ones[s \ {Max(s)}] = <<1, 1>>
          BY <1>1, <3>1
        <4>2. ones[s] = Times(ones[s \ {Max(s)}], ratios[Max(s)])
          BY <1>0, <4>1
        <4> QED
          BY <3>1, <4>2
      <3> QED
        BY <3>1
    <2> QED
      BY <2>1
  <1>3. Iter(iter)
    BY <1>2
  <1>4. Product(ratios) = iter[S]
    BY DEF Product, FoldLeft, MapThenFoldSet
  <1>5. \A s \in SUBSET S :
          iter[s] = IF s = {} THEN <<1, 1>> ELSE Times(iter[s \ {Max(s)}], ratios[Max(s)])
    BY <1>3
  <1> HIDE DEF iter
  <1> DEFINE G == {s \in SUBSET S : iter[s] = <<1, 1>>}
  <1>6. {} \in G
    BY <1>5
  <1>7. ASSUME NEW s \in (SUBSET S) \ {{}}, \A x \in s : s \ {x} \in G PROVE s \in G
    <2>1. Max(s) \in s
      BY MaxIsLast
    <2>2. iter[s \ {Max(s)}] = <<1, 1>> /\ ratios[Max(s)] = <<1, 1>>
      BY <1>7, <2>1
    <2>3. iter[s] = Times(iter[s \ {Max(s)}], ratios[Max(s)])
      BY <1>5, <1>7
    <2> QED
      BY <1>0, <2>2, <2>3
  <1>8. S \in SUBSET S /\ IsFiniteSet(S)
    BY FS_Interval
  <1> HIDE DEF G, S
  <1>9. \A s \in SUBSET S : s \in G
    BY <1>6, <1>7, <1>8, SubsetsAll
  <1> QED
    BY <1>4, <1>8, <1>9 DEF G

\* The last close before a dividend, of the days a window has.
LastBefore(w, ex) == Max({e \in Window(w[1], w[2]) : e < ex})

LEMMA LastDay ==
  ASSUME AdjInv, NEW w \in Windows, NEW ex \in Days, NEW d \in Window(w[1], w[2]), d < ex
  PROVE  /\ LastBefore(w, ex) \in Window(w[1], w[2])
         /\ d <= LastBefore(w, ex) /\ LastBefore(w, ex) < ex
         /\ \A e \in Window(w[1], w[2]) : e < ex => e <= LastBefore(w, ex)
  <1> DEFINE s == {e \in Window(w[1], w[2]) : e < ex}
  <1>1. s \in SUBSET (0 .. LastSession) /\ s # {} /\ LastSession \in Nat
    BY AdjustedAssumption DEF AdjInv, Days, Window
  <1>2. Max(s) \in s /\ \A m \in s : m <= Max(s)
    BY <1>1, MaxOfDays
  <1> QED
    BY <1>2 DEF LastBefore

\* Two windows that reach past a dividend take it on the same close.
LEMMA SameLastDay ==
  ASSUME AdjInv, NEW v \in Windows, NEW w \in Windows, NEW ex \in Days,
         ex <= v[2], ex <= w[2], NEW d \in Window(v[1], v[2]) \cap Window(w[1], w[2]), d < ex
  PROVE  LastBefore(v, ex) = LastBefore(w, ex)
  <1> DEFINE a == LastBefore(v, ex)
             b == LastBefore(w, ex)
  <1>1. a \in Window(v[1], v[2]) /\ d <= a /\ a < ex
        /\ \A e \in Window(v[1], v[2]) : e < ex => e <= a
    BY LastDay
  <1>2. b \in Window(w[1], w[2]) /\ d <= b /\ b < ex
        /\ \A e \in Window(w[1], w[2]) : e < ex => e <= b
    BY LastDay
  <1> HIDE DEF a, b
  <1>3. a \in Nat /\ b \in Nat /\ d \in Nat /\ ex \in Nat /\ a \in DOMAIN raw /\ b \in DOMAIN raw
        /\ v[1] \in Nat /\ v[2] \in Nat /\ w[1] \in Nat /\ w[2] \in Nat
    BY <1>1, <1>2 DEF AdjInv, Days, Window, Windows
  <1>4. a \in Window(w[1], w[2])
    BY <1>1, <1>3 DEF Window
  <1>5. b \in Window(v[1], v[2])
    BY <1>2, <1>3 DEF Window
  <1>6. a <= b /\ b <= a
    BY <1>1, <1>2, <1>4, <1>5
  <1> QED
    BY <1>3, <1>6 DEF a, b

\* The ratios a window takes on a day.
Part(w, k) ==
  LET prev == SplitAdjusted(w[1], w[2])[LastBefore(w, payments[k].ex)]
  IN  <<prev[1] - payments[k].cash * prev[2], prev[1]>>

DividendRatios(w, d) == [k \in DOMAIN payments |-> IF d < payments[k].ex THEN Part(w, k) ELSE <<1, 1>>]

LEMMA TotalOfRatios ==
  ASSUME NEW w, NEW d \in Window(w[1], w[2])
  PROVE  TotalReturn(w[1], w[2])[d] = Times(SplitAdjusted(w[1], w[2])[d], Product(DividendRatios(w, d)))
  <1>1. DOMAIN SplitAdjusted(w[1], w[2]) = Window(w[1], w[2])
    BY DEF SplitAdjusted
  <1> QED
    BY <1>1 DEF TotalReturn, DividendRatios, Part, LastBefore

LEMMA SameSplitAdjusted ==
  ASSUME NEW v, NEW w, NEW d \in Window(v[1], v[2]) \cap Window(w[1], w[2])
  PROVE  SplitAdjusted(v[1], v[2])[d] = SplitAdjusted(w[1], w[2])[d]
  BY DEF SplitAdjusted

LEMMA SameRatios ==
  ASSUME AdjInv, NEW v \in Windows, NEW w \in Windows, ~Beyond(v), ~Beyond(w),
         NEW d \in Window(v[1], v[2]) \cap Window(w[1], w[2])
  PROVE  DividendRatios(v, d) = DividendRatios(w, d)
  <1>1. ASSUME NEW k \in DOMAIN payments, d < payments[k].ex PROVE Part(v, k) = Part(w, k)
    <2> DEFINE ex == payments[k].ex
    <2>2. ex \in Days /\ ex \in Int /\ v[2] \in Int /\ w[2] \in Int
      BY ActionTypes, AdjustedAssumption DEF Windows
    <2>3. ex <= v[2] /\ ex <= w[2]
      BY <2>2 DEF Beyond
    <2>4. d < ex
      BY <1>1
    <2> HIDE DEF ex
    <2>5. LastBefore(v, ex) = LastBefore(w, ex)
      BY <2>2, <2>3, <2>4, SameLastDay
    <2>6. LastBefore(v, ex) \in Window(v[1], v[2]) /\ LastBefore(w, ex) \in Window(w[1], w[2])
      BY <2>2, <2>4, LastDay
    <2>7. SplitAdjusted(v[1], v[2])[LastBefore(v, ex)] = SplitAdjusted(w[1], w[2])[LastBefore(w, ex)]
      BY <2>5, <2>6, SameSplitAdjusted
    <2> QED
      BY <2>7 DEF Part, ex
  <1> QED
    BY <1>1 DEF DividendRatios

LEMMA AdjustedRead == AdjInv => WindowsAgree
  <1> SUFFICES ASSUME AdjInv, NEW v \in Windows, NEW w \in Windows,
                      NEW d \in Window(v[1], v[2]) \cap Window(w[1], w[2])
               PROVE  /\ Same(SplitAdjusted(v[1], v[2])[d], SplitAdjusted(w[1], w[2])[d])
                      /\ ~Beyond(v) /\ ~Beyond(w) =>
                           Same(TotalReturn(v[1], v[2])[d], TotalReturn(w[1], w[2])[d])
                      /\ (\A k \in DOMAIN splits : splits[k].ex <= d)
                           /\ (\A k \in DOMAIN payments : payments[k].ex <= d) =>
                           Same(TotalReturn(v[1], v[2])[d], <<raw[d], 1>>)
    BY DEF WindowsAgree
  <1>1. SplitAdjusted(v[1], v[2])[d] = SplitAdjusted(w[1], w[2])[d]
    BY SameSplitAdjusted
  <1>2. ASSUME ~Beyond(v), ~Beyond(w)
        PROVE  TotalReturn(v[1], v[2])[d] = TotalReturn(w[1], w[2])[d]
    <2>1. DividendRatios(v, d) = DividendRatios(w, d)
      BY <1>2, SameRatios
    <2>2. TotalReturn(v[1], v[2])[d] = Times(SplitAdjusted(v[1], v[2])[d], Product(DividendRatios(v, d)))
      BY TotalOfRatios
    <2>3. TotalReturn(w[1], w[2])[d] = Times(SplitAdjusted(w[1], w[2])[d], Product(DividendRatios(w, d)))
      BY TotalOfRatios
    <2> QED
      BY <1>1, <2>1, <2>2, <2>3
  <1>3. ASSUME \A k \in DOMAIN splits : splits[k].ex <= d,
               \A k \in DOMAIN payments : payments[k].ex <= d
        PROVE  TotalReturn(v[1], v[2])[d] = <<raw[d], 1>>
    <2>1. d \in Int /\ raw[d] \in Int /\ d \in DOMAIN raw
      BY AdjustedAssumption DEF AdjInv, Days, Window
    <2>2. \A k \in DOMAIN splits : ~(d < splits[k].ex)
      BY <1>3, <2>1, ActionTypes
    <2>3. \A k \in DOMAIN payments : ~(d < payments[k].ex)
      BY <1>3, <2>1, ActionTypes
    <2>4. AdjFactor(d) = <<1, 1>>
      <3> DEFINE ratios == [k \in DOMAIN splits |->
                              IF d < splits[k].ex THEN splits[k].ratio ELSE <<1, 1>>]
                 n == Len(splits)
      <3>1. n \in Nat /\ DOMAIN ratios = 1 .. n
        BY DEF AdjInv
      <3>2. \A k \in 1 .. n : ratios[k] = <<1, 1>>
        BY <2>2, <3>1
      <3>3. AdjFactor(d) = Product(ratios)
        BY DEF AdjFactor
      <3> HIDE DEF ratios, n
      <3> QED
        BY <3>1, <3>2, <3>3, ProductOfOnes
    <2>5. Product(DividendRatios(v, d)) = <<1, 1>>
      <3> DEFINE n == Len(payments)
      <3>1. n \in Nat /\ DOMAIN DividendRatios(v, d) = 1 .. n
        BY DEF AdjInv, DividendRatios
      <3>2. \A k \in 1 .. n : DividendRatios(v, d)[k] = <<1, 1>>
        BY <2>3, <3>1 DEF DividendRatios
      <3> HIDE DEF n
      <3> QED
        BY <3>1, <3>2, ProductOfOnes
    <2>6. SplitAdjusted(v[1], v[2])[d] = <<raw[d], 1>>
      BY <2>1, <2>4 DEF SplitAdjusted, Times
    <2> QED
      BY <2>1, <2>5, <2>6, TotalOfRatios DEF Times
  <1> QED
    BY <1>1, <1>2, <1>3 DEF Same

(* A bar's adjusted close does not depend on the window it is read in: not *)
(* the split-adjusted one in any, not its total return in windows that no  *)
(* dividend lies beyond, and after the last action both are the raw close. *)
THEOREM WindowsTellOnePrice == AdjustedSpec => []WindowsAgree
  <1>1. AdjustedInit => AdjInv
    BY InitAdjusted
  <1>2. AdjInv /\ [AdjustedNext]_adjVars => AdjInv'
    BY StepAdjusted
  <1>3. AdjInv => WindowsAgree
    BY AdjustedRead
  <1> QED
    BY <1>1, <1>2, <1>3, PTL DEF AdjustedSpec
================================================================================
