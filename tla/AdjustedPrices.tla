----------------------------- MODULE AdjustedPrices ----------------------------
(***************************************************************************)
(* The adjusted series of one instrument, computed for a window of days    *)
(* from the raw closes and the corporate actions stored so far             *)
(* (libs/research/adjusted_prices.py).  Values are fractions <<n, d>>;     *)
(* opens, highs and lows are scaled as the closes are.                     *)
(***************************************************************************)
EXTENDS Integers, Sequences, FiniteSets, SequencesExt

CONSTANTS
  Closes,         \* raw closes
  SplitRatios,    \* split_to / split_from, fractions
  Dividends,      \* cash_amount
  LastSession,    \* the days are 0 .. LastSession
  MaxActions      \* bound on the stored actions

ASSUME AdjustedAssumption ==
  /\ Closes \subseteq Nat \ {0} /\ Dividends \subseteq Nat \ {0}
  /\ SplitRatios \subseteq (Nat \ {0}) \X (Nat \ {0})
  /\ LastSession \in Nat /\ MaxActions \in Nat

VARIABLES
  raw,       \* day -> close, of the days that have a bar
  splits,    \* the splits, by ex_date
  payments   \* the dividends, by ex_date

adjVars == <<raw, splits, payments>>

AdjustedInit == raw = <<>> /\ splits = <<>> /\ payments = <<>>

StoreBar ==
  /\ \E d \in (0 .. LastSession) \ DOMAIN raw, close0 \in Closes :
       raw' = [e \in DOMAIN raw \cup {d} |-> IF e = d THEN close0 ELSE raw[e]]
  /\ UNCHANGED <<splits, payments>>

\* Read `ORDER BY ex_date`; of two on one day the one stored first comes first.
PutByExDate(s, action) ==
  InsertAt(s, Cardinality({k \in DOMAIN s : s[k].ex <= action.ex}) + 1, action)

StoreSplit ==
  /\ Len(splits) + Len(payments) < MaxActions
  /\ \E d \in 0 .. LastSession, ratio \in SplitRatios :
       splits' = PutByExDate(splits, [ex |-> d, ratio |-> ratio])
  /\ UNCHANGED <<raw, payments>>

StoreDividend ==
  /\ Len(splits) + Len(payments) < MaxActions
  /\ \E d \in 0 .. LastSession, cash \in Dividends :
       payments' = PutByExDate(payments, [ex |-> d, cash |-> cash])
  /\ UNCHANGED <<raw, splits>>

AdjustedNext == StoreBar \/ StoreSplit \/ StoreDividend
AdjustedSpec == AdjustedInit /\ [][AdjustedNext]_adjVars

-------------------------------------------------------------------------------
Times(a, b) == <<a[1] * b[1], a[2] * b[2]>>
Same(a, b) == a[1] * b[2] = b[1] * a[2]

Window(from, to) == {d \in DOMAIN raw : from <= d /\ d <= to}

\* A column of factors starts at 1 and takes each ratio on the rows before its ex_date.
Product(ratios) == FoldLeft(Times, <<1, 1>>, ratios)

\* Every split after the day, inside the window or not.
AdjFactor(d) ==
  Product([k \in DOMAIN splits |-> IF d < splits[k].ex THEN splits[k].ratio ELSE <<1, 1>>])

\* For the mutant: the splits are read up to the window's end, as the bars are.
SplitAdjustedBug(from, to) ==
  [d \in Window(from, to) |->
     Times(<<raw[d], 1>>,
           Product([k \in DOMAIN splits |->
             IF d < splits[k].ex /\ splits[k].ex <= to THEN splits[k].ratio ELSE <<1, 1>>]))]

SplitAdjusted(from, to) ==
  [d \in Window(from, to) |-> Times(<<raw[d], 1>>, AdjFactor(d))]

\* A dividend takes its part of the last close before it that the window has.  A
\* payment as large as that close makes the factor zero, or negative.
TotalReturn(from, to) ==
  LET price == SplitAdjusted(from, to)
      before(ex) == {d \in DOMAIN price : d < ex}
      part(pay) == LET prev == price[Max(before(pay.ex))]
                   IN  <<prev[1] - pay.cash * prev[2], prev[1]>>
  IN  [d \in DOMAIN price |->
         Times(price[d], Product([k \in DOMAIN payments |->
           IF d < payments[k].ex THEN part(payments[k]) ELSE <<1, 1>>]))]

-------------------------------------------------------------------------------
(* Properties.                                                             *)

Windows == (0 .. LastSession) \X (0 .. LastSession)
Beyond(w) == \E k \in DOMAIN payments : payments[k].ex > w[2]

\* A bar has the same split-adjusted close whatever window it is read in, although
\* the splits are not cut off at the window's end; its total return differs
\* only between windows one of which ends before a dividend: that dividend is
\* counted all the same, against the last close the window happens to have.
\* The adjustment never goes forward: the bars after the last action are raw.
WindowsAgree ==
  \A v, w \in Windows : \A d \in Window(v[1], v[2]) \cap Window(w[1], w[2]) :
    /\ Same(SplitAdjusted(v[1], v[2])[d], SplitAdjusted(w[1], w[2])[d])
    /\ ~Beyond(v) /\ ~Beyond(w) =>
         Same(TotalReturn(v[1], v[2])[d], TotalReturn(w[1], w[2])[d])
    /\ (\A k \in DOMAIN splits : splits[k].ex <= d)
         /\ (\A k \in DOMAIN payments : payments[k].ex <= d) =>
         Same(TotalReturn(v[1], v[2])[d], <<raw[d], 1>>)

\* What data_contract.md verifies on an example: over a split that the raw closes
\* follow exactly, the adjusted closes are continuous.
SplitIsContinuous ==
  \A d, e \in DOMAIN raw :
    /\ Len(splits) = 1 /\ d < splits[1].ex /\ splits[1].ex <= e
    /\ Same(<<raw[d], 1>>, Times(<<raw[e], 1>>, splits[1].ratio))
    => Same(SplitAdjusted(0, LastSession)[d], SplitAdjusted(0, LastSession)[e])
===============================================================================
