-------------------------------- MODULE RuleV2 --------------------------------
(***************************************************************************)
(* The prediction rule v2 with its latest-anchor amendment v2.1.  A run    *)
(* reads the market's regime once, then makes one row per ticker from the  *)
(* ticker's fields in the brief and the day of its last stored close.      *)
(* Percentages and volume ratios are whole numbers of some unit, and the   *)
(* thresholds are parameters.  Days are numbered from a Monday.            *)
(***************************************************************************)
EXTENDS Integers, FiniteSets

CONSTANTS
  Moves, Positions, Volumes, Counts, Priorities,   \* the values of the fields
  Missing,                                         \* a field without a value
  RegimeBand, RegimeBand5, MomentumBand,           \* thresholds of either sign
  ExtensionMove, HighPosition, LowPosition,
  StrongNews, StrongVolume, StrongPriority, MediumNews, MediumVolume,
  MaxLag,        \* MAX_ANCHOR_LAG_TRADING_DAYS
  LastTarget     \* bound on the days

ASSUME RuleAssumption ==
  /\ UNION {Moves, Positions, Volumes, Counts, Priorities} \subseteq Int
  /\ Missing \notin Int
  /\ {RegimeBand, RegimeBand5, MomentumBand, ExtensionMove} \subseteq Nat \ {0}
  /\ MomentumBand <= ExtensionMove
  /\ {HighPosition, LowPosition, StrongNews, StrongVolume, StrongPriority,
       MediumNews, MediumVolume, MaxLag, LastTarget} \subseteq Nat
  /\ LowPosition < HighPosition

VARIABLES
  regime,   \* the market's, once read
  lag,      \* of the ticker at hand
  row       \* the last ticker's, till the next one's turn
ruleVars == <<regime, lag, row>>

Unread == -2
Unusable == -1       \* no close, or none before the target
Regimes == {"negative", "negative_5d", "neutral", "positive", "unknown"}
NotEligible == [eligible |-> FALSE]

RuleInit == regime = "unread" /\ lag = Unread /\ row = NotEligible

-------------------------------------------------------------------------------
(* The regime of the run, from the moves of SPY and QQQ.                   *)

BothAtMost(a, b, bound) == a # Missing /\ b # Missing /\ a <= bound /\ b <= bound
BothAtLeast(a, b, bound) == a # Missing /\ b # Missing /\ a >= bound /\ b >= bound

MarketRegime(spy1, qqq1, spy5, qqq5) ==
  CASE spy1 = Missing \/ qqq1 = Missing      -> "unknown"
    [] BothAtMost(spy1, qqq1, -RegimeBand)   -> "negative"
    [] BothAtLeast(spy1, qqq1, RegimeBand)   -> "positive"
    [] /\ spy1 # Missing /\ qqq1 # Missing
       /\ ~BothAtMost(spy1, qqq1, -RegimeBand) /\ ~BothAtLeast(spy1, qqq1, RegimeBand)
                                             ->
         IF BothAtMost(spy5, qqq5, -RegimeBand5) THEN "negative_5d" ELSE "neutral"

ReadRegime ==
  /\ regime = "unread"
  /\ \E spy1, qqq1, spy5, qqq5 \in Moves \cup {Missing} :
       regime' = MarketRegime(spy1, qqq1, spy5, qqq5)
  /\ UNCHANGED <<lag, row>>

RegimeSignal ==
  CASE regime \in {"negative", "negative_5d"} -> -1
    [] regime = "positive" -> 1
    [] OTHER -> 0

-------------------------------------------------------------------------------
(* One ticker.                                                             *)

Inputs == [move : Moves \cup {Missing}, position : Positions \cup {Missing},
           volume : Volumes, news : Counts, earnings : BOOLEAN,
           strength : {"none", "medium", "high"}, flagged : BOOLEAN,
           priority : Priorities, mapped : BOOLEAN]

WeekdaysBetween(earlier, later) == Cardinality({d \in earlier + 1 .. later : d % 7 < 5})

\* The ticker's last close, unless it has none or one that is not before the target.
FindAnchor ==
  /\ regime # "unread" /\ lag = Unread
  /\ \E target \in 0 .. LastTarget, anchor \in 0 .. LastTarget :
       lag' = IF anchor >= target THEN Unusable ELSE WeekdaysBetween(anchor, target)
  /\ row' = NotEligible /\ UNCHANGED regime

\* Before the amendment the target's previous session must have a close.
FindPreviousClose ==
  /\ regime # "unread" /\ lag = Unread
  /\ \E stored \in BOOLEAN : lag' = IF stored THEN 0 ELSE Unusable
  /\ row' = NotEligible /\ UNCHANGED regime

EligibleLatestAnchor(t) ==
  t.mapped /\ lag # Unusable /\ lag <= MaxLag /\ t.move # Missing

Quality(t) ==
  CASE t.move = Missing -> "weak"
    [] t.move # Missing /\ t.news = 0 /\ ~t.earnings /\ t.strength = "none" -> "partial"
    [] t.move # Missing /\ ~(t.news = 0 /\ ~t.earnings /\ t.strength = "none") -> "complete"

Momentum(t) ==
  IF t.move >= MomentumBand THEN 1 ELSE IF t.move <= -MomentumBand THEN -1 ELSE 0

Extension(t) ==
  CASE t.position = Missing -> 0
    [] /\ t.position # Missing /\ t.position >= HighPosition
       /\ t.move >= ExtensionMove -> -1
    [] /\ t.position # Missing /\ t.position <= LowPosition
       /\ t.move <= -ExtensionMove -> 1
    [] OTHER -> 0

NewsBug(t) ==      \* no news counts against the ticker
  IF t.news = 0 THEN -1
  ELSE IF t.news >= MediumNews /\ t.volume >= MediumVolume THEN 1 ELSE 0

News(t) ==
  IF \/ /\ t.news >= StrongNews /\ t.volume >= StrongVolume
        /\ t.priority >= StrongPriority
     \/ t.news >= MediumNews /\ t.volume >= MediumVolume
  THEN 1 ELSE 0

Negative == regime \in {"negative", "negative_5d"}

Direction(composite, extension) ==
  CASE extension = -1 -> IF Negative THEN "down" ELSE "flat-down"
    [] extension # -1 /\ composite >= 2 -> "up"
    [] extension # -1 /\ composite = 1 -> "flat-up"
    [] extension # -1 /\ composite = 0 -> IF Negative THEN "flat-down" ELSE "flat-up"
    [] extension # -1 /\ composite = -1 -> "flat-down"
    [] extension # -1 /\ composite <= -2 -> "down"

Bucket(direction, composite) ==
  CASE direction = "up" ->
         IF composite >= 3 /\ regime = "positive" THEN "above_plus_3" ELSE "plus_1_to_plus_3"
    [] direction \in {"flat-up", "flat-down"} -> "minus_1_to_plus_1"
    [] direction = "down" ->
         IF composite <= -3 /\ Negative THEN "below_minus_3" ELSE "minus_3_to_minus_1"

RegimeAligns(direction) ==
  \/ direction \in {"up", "flat-up"} /\ regime \in {"positive", "neutral"}
  \/ direction \in {"down", "flat-down"} /\ (Negative \/ regime = "neutral")

Confidence(t, composite, direction) ==
  IF Quality(t) # "complete" THEN "low"
  ELSE IF /\ composite >= 3 \/ composite <= -3
          /\ t.strength = "high" /\ ~t.flagged /\ RegimeAligns(direction)
       THEN "high"
       ELSE IF composite >= 2 \/ composite <= -2 THEN "medium" ELSE "low"

Predicted(t) ==
  LET extension == Extension(t)
      composite == Momentum(t) + extension + News(t) + RegimeSignal
      direction == Direction(composite, extension)
  IN  [eligible |-> TRUE, extension |-> extension, composite |-> composite,
       direction |-> direction, bucket |-> Bucket(direction, composite),
       confidence |-> Confidence(t, composite, direction)]

Predict ==
  /\ lag # Unread
  /\ \E t \in Inputs :
       row' = IF EligibleLatestAnchor(t) THEN Predicted(t) ELSE NotEligible
  /\ lag' = Unread /\ UNCHANGED regime

RuleNext == ReadRegime \/ FindAnchor \/ FindPreviousClose \/ Predict
RuleSpec == RuleInit /\ [][RuleNext]_ruleVars

-------------------------------------------------------------------------------
(* Properties.                                                             *)

\* High confidence is only ever given to "up" in a positive market, in the highest
\* bucket: with news never negative and a big fall answered by a bounce, no
\* composite is below -2, so "below_minus_3" and a confident "down" do not
\* occur.  A downward call is of medium confidence only with the composite at -2,
\* or at +2: an extended ticker, whose composite points the other way.
ConfidenceIsEarned ==
  row.eligible =>
    /\ row.composite >= -2 /\ row.bucket # "below_minus_3"
    /\ row.confidence = "high" =>
         row.direction = "up" /\ regime = "positive" /\ row.bucket = "above_plus_3"
    /\ row.extension = -1 => row.direction \in {"down", "flat-down"}
    /\ row.confidence = "medium" /\ row.direction \in {"down", "flat-down"} =>
         \/ row.composite = -2
         \/ row.extension = -1 /\ row.composite = 2
===============================================================================
