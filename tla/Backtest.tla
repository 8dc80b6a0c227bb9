------------------------------- MODULE Backtest -------------------------------
(***************************************************************************)
(* The simulation loop of run_backtest, run under two cost models side by  *)
(* side as the honesty report does: one step per date that has a bar.      *)
(* Prices are carried forward over missing bars, the portfolio is marked   *)
(* to market, and on a rebalance date it is traded towards the targets:    *)
(* first the targets, then what is no longer one, all at the day's close   *)
(* and all sized by the value taken before any of the trades.              *)
(*                                                                         *)
(* Arithmetic is exact, in a unit of money in which closes are whole.  The *)
(* rates of slippage, spread and volume impact are one rate, bps.          *)
(***************************************************************************)
EXTENDS Integers, FiniteSets, Sequences, Functions

CONSTANTS
  Listing,        \* instrument_ids, in the order of the request
  Foreign,        \* instruments in another currency than the base currency
  Quotes,         \* the closes a bar may have
  Capital,        \* initial_capital
  MaxPositions,   \* max_positions
  WeightCap,      \* max_weight_per_position, a fraction <<n, d>>
  CostModel,      \* the rates of the two cost models
  Frequency,      \* rebalance_frequency
  MonthLength,    \* days of a month
  LastBar         \* bound on the dates

Assets == {Listing[k] : k \in DOMAIN Listing}
Runs == {"legacy", "realistic"}
Unpriced == 0     \* no bar yet: NaN after the forward fill

ASSUME BacktestAssumption ==
  /\ Listing \in Seq(Assets) /\ Foreign \subseteq Assets
  /\ Quotes \subseteq Nat \ {0}
  /\ {Capital, MaxPositions, LastBar} \subseteq Nat
  /\ MonthLength \in Nat \ {0}
  /\ Frequency \in {"daily", "weekly", "monthly"}
  /\ WeightCap \in Nat \X (Nat \ {0})
  /\ CostModel \in [Runs -> [commission_per_share : Nat, commission_min : Nat,
                             bps : Nat, fx_fee_bps : Nat]]

VARIABLES
  bar,      \* date of the last bar processed, -1 before the first
  close,    \* its closes
  ledger,   \* of each run: cash, positions, value, first value, the date's trades
  verdict   \* of the report that ends the runs

btVars == <<bar, close, ledger, verdict>>

NoTrades == [i \in Assets |-> [qty |-> 0, cost |-> 0]]

BacktestInit ==
  /\ bar = -1 /\ close = [i \in Assets |-> Unpriced] /\ verdict = "none"
  /\ ledger = [m \in Runs |-> [cash |-> Capital, held |-> [i \in Assets |-> 0],
                               nav |-> Capital, first |-> 0, trades |-> NoTrades,
                               records |-> 0]]

Total(f) == FoldFunction(+, 0, f)
Magnitude(n) == IF n < 0 THEN -n ELSE n
Truncated(a, b) == IF a < 0 THEN -((-a) \div b) ELSE a \div b      \* int(a / b)

Cost(c, i, qty, price) ==
  LET q == Magnitude(qty)
      share == q * c.commission_per_share
      rate == c.bps + (IF i \in Foreign THEN c.fx_fee_bps ELSE 0)
  IN  (IF share < c.commission_min THEN c.commission_min ELSE share)
      + (q * price * rate) \div 10000

Worth(price, quantity) == Total([i \in Assets |-> quantity[i] * price[i]])

\* The first MaxPositions places of the listing that have a price.
Available(price) ==
  LET priced == {k \in DOMAIN Listing : price[Listing[k]] > 0}
  IN  {k \in priced : Cardinality({j \in priced : j <= k}) <= MaxPositions}

\* Equal weights, capped, for the first instruments that have a price.
EqualWeightBug(price) ==
  [i \in {Listing[k] : k \in Available(price)} |-> WeightCap]

EqualWeight(price) ==
  LET n == Cardinality(Available(price))
  IN  [i \in {Listing[k] : k \in Available(price)} |->
         IF WeightCap[2] < n * WeightCap[1] THEN <<1, n>> ELSE WeightCap]

\* A signal function weighs its winners equally and without the cap.
SignalWeight(winners) == [i \in winners |-> <<1, Cardinality(winners)>>]

RebalanceOn(d) ==
  \/ bar = -1
  \/ Frequency = "daily"
  \/ Frequency = "weekly" /\ d % 7 = 0
  \/ Frequency = "monthly" /\ d \div MonthLength # bar \div MonthLength

\* The quantity held after the rebalance: the target's, or nothing, or what it
\* was when there is no price to close it at.
Rebalanced(held, price, weight, value) ==
  [i \in Assets |->
     IF price[i] <= 0 THEN held[i]
     ELSE IF i \in DOMAIN weight
          THEN Truncated(value * weight[i][1], weight[i][2] * price[i])
          ELSE 0]

\* What the day's trades take from the cash.
SpentBug(trades, price) ==      \* sales are free
  Total([i \in Assets |-> trades[i].qty * price[i]
                          + (IF trades[i].qty > 0 THEN trades[i].cost ELSE 0)])
Spent(trades, price) ==
  Total([i \in Assets |-> trades[i].qty * price[i] + trades[i].cost])

Marked(l, price) ==      \* the value recorded at the end of the date
  LET nav == l.cash + Worth(price, l.held)
  IN  [l EXCEPT !.nav = nav, !.records = IF l.records = 2 THEN 2 ELSE l.records + 1,
                !.first = IF l.records = 0 THEN nav ELSE l.first]

Trade(m, price, weight) ==
  LET l == ledger[m]
      held == Rebalanced(l.held, price, weight, l.cash + Worth(price, l.held))
      trades == [i \in Assets |->
        LET delta == held[i] - l.held[i]
        IN  [qty |-> delta,
             cost |-> IF delta = 0 THEN 0 ELSE Cost(CostModel[m], i, delta, price[i])]]
  IN  Marked([l EXCEPT !.held = held, !.trades = trades,
                       !.cash = l.cash - Spent(trades, price)], price)

\* A missing quote leaves the close of the day before.
Filled(quoted) == [i \in Assets |-> IF quoted[i] = Unpriced THEN close[i] ELSE quoted[i]]

Session(d, quoted) ==
  LET price == Filled(quoted)
  IN  /\ bar' = d /\ close' = price /\ UNCHANGED verdict
      /\ IF RebalanceOn(d)
         THEN \/ ledger' = [m \in Runs |-> Trade(m, price, EqualWeight(price))]
              \/ \E winners \in SUBSET {i \in Assets : price[i] > 0} :
                   ledger' = [m \in Runs |-> Trade(m, price, SignalWeight(winners))]
         ELSE ledger' = [m \in Runs |->
                Marked([ledger[m] EXCEPT !.trades = NoTrades], price)]

SomeSession ==
  \E d \in bar + 1 .. LastBar :
    \E quoted \in [Assets -> Quotes \cup {Unpriced}] :
      (\E i \in Assets : quoted[i] # Unpriced) /\ Session(d, quoted)

\* total_return is nav / first - 1, the first value being positive and taken after
\* the trades of the first date.
Gain(m) == ledger[m].nav - ledger[m].first

Retains(percent) ==
  100 * Gain("realistic") * ledger["legacy"].first
    >= percent * Gain("legacy") * ledger["realistic"].first

\* The verdict from the two bands of the retention, in per cent.
Verdict(better, worse) ==
  IF Gain("realistic") <= 0 THEN "illusion"
  ELSE IF Gain("legacy") <= 0 \/ Retains(better) THEN "honest"
  ELSE IF Retains(worse) THEN "degraded" ELSE "illusion"

Report ==
  /\ \A m \in Runs : ledger[m].records = 2 /\ ledger[m].first > 0
  /\ verdict' = Verdict(85, 50)
  /\ UNCHANGED <<bar, close, ledger>>

BacktestNext == verdict = "none" /\ (SomeSession \/ Report)

BacktestSpec == BacktestInit /\ [][BacktestNext]_btVars

-------------------------------------------------------------------------------
(* Properties.                                                             *)

DayCosts(m) == Total([i \in Assets |-> ledger'[m].trades[i].cost])

\* From one recorded value to the next the portfolio gains what the closes of its
\* positions gained and loses the costs of the day's trades, nothing else: sells
\* of dropped positions, missing bars and truncated quantities included.
NavIsEarned ==
  [][bar' # bar => \A m \in Runs :
       ledger'[m].nav = ledger[m].nav - DayCosts(m)
         + Total([i \in Assets |-> ledger[m].held[i] * (close'[i] - close[i])])]_btVars

\* While the portfolio is worth something, a rebalance never goes short, and never
\* overdraws the cash by more than the costs it has just paid, although the buys
\* come first and the costs are in no target.
OverdraftIsCosts ==
  [][\A m \in Runs :
       /\ bar' # bar /\ ledger'[m].trades # NoTrades
       /\ ledger[m].cash + Worth(close', ledger[m].held) >= 0
       => /\ ledger'[m].cash + DayCosts(m) >= 0
          /\ \A i \in Assets : ledger'[m].held[i] >= 0]_btVars

\* The verdict "honest" is that the strategy "retains most of its textbook return
\* after realistic execution costs": of two runs that began with the same capital,
\* the one under realistic costs has then not lost some of it while the textbook
\* run has gained.
HonestAfterCosts ==
  verdict = "honest" /\ ledger["legacy"].nav > Capital => ledger["realistic"].nav > Capital
===============================================================================
