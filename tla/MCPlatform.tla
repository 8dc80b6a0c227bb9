------------------------------- MODULE MCPlatform ------------------------------
(***************************************************************************)
(* The order workflow and the research side of the platform, machines that *)
(* share no state, side by side.  A behaviour follows one of them; the     *)
(* state space is the sum of theirs.                                       *)
(***************************************************************************)
EXTENDS OrderExecution, Backtest, TimeSplits, RuleV2, NewsFeed, EventPages, Brief,
        WriteGuards, IngestionJobs, AdjustedPrices, TLC

CONSTANTS x, y, t, u, n1, n2, n3

VARIABLE chosen

Machines ==
  {"orders", "backtest", "splits", "rule", "news", "pages", "brief", "guards", "jobs", "prices"}

PlatformInit ==
  /\ chosen \in Machines
  /\ Init /\ BacktestInit /\ SplitsInit /\ RuleInit /\ NewsInit /\ PagesInit /\ BriefInit
  /\ GuardInit /\ JobsInit /\ AdjustedInit
  /\ days # WideSpan => chosen = "pages"      \* one span of days will do for the others

Rest(m) ==
  /\ m # "orders" => UNCHANGED vars
  /\ m # "backtest" => UNCHANGED btVars
  /\ m # "splits" => UNCHANGED tsVars
  /\ m # "rule" => UNCHANGED ruleVars
  /\ m # "news" => UNCHANGED newsVars
  /\ m # "pages" => UNCHANGED pageVars
  /\ m # "brief" => UNCHANGED briefVars
  /\ m # "guards" => UNCHANGED guardVars
  /\ m # "jobs" => UNCHANGED jobVars
  /\ m # "prices" => UNCHANGED adjVars
  /\ UNCHANGED chosen

PlatformNext ==
  \/ chosen = "orders" /\ Next /\ Rest("orders")
  \/ chosen = "backtest" /\ BacktestNext /\ Rest("backtest")
  \/ chosen = "splits" /\ SplitsNext /\ Rest("splits")
  \/ chosen = "rule" /\ RuleNext /\ Rest("rule")
  \/ chosen = "news" /\ NewsNext /\ Rest("news")
  \/ chosen = "pages" /\ PagesNext /\ Rest("pages")
  \/ chosen = "brief" /\ BriefNext /\ Rest("brief")
  \/ chosen = "guards" /\ GuardNext /\ Rest("guards")
  \/ chosen = "jobs" /\ JobsNext /\ Rest("jobs")
  \/ chosen = "prices" /\ AdjustedNext /\ Rest("prices")

platformVars ==
  <<chosen, vars, btVars, tsVars, ruleVars, newsVars, pageVars, briefVars, guardVars, jobVars, adjVars>>
PlatformSpec == PlatformInit /\ [][PlatformNext]_platformVars

-------------------------------------------------------------------------------
(* Values of the constants.                                                *)
\* A clean limit order, and a limit order the client sent without a price,
\* whose quantity comes from the intent.
TwoShapes ==
  {[order_type |-> "limit", qty |-> 1, limit_price |-> 2, stop_price |-> Null],
   [order_type |-> "limit", qty |-> 0, limit_price |-> Null, stop_price |-> Null]}
Symmetry == Permutations(Drafts) \cup Permutations(Workers)
RuleMoves == {-8, -2, 0, 2, 8}
TradeOrder == <<x, y>>
TwoThirds == <<2, 3>>
Costs ==
  [m \in {"legacy", "realistic"} |->
     IF m = "legacy"
     THEN [commission_per_share |-> 0, commission_min |-> 0, bps |-> 500, fx_fee_bps |-> 0]
     ELSE [commission_per_share |-> 0, commission_min |-> 1, bps |-> 500, fx_fee_bps |-> 500]]
TwoSites == n1 :> 1 @@ n2 :> 1 @@ n3 :> 2
ProviderNews ==
  [p \in {"fmp", "polygon"} |->
     t :> (IF p = "fmp" THEN {n1, n2} ELSE {n2}) @@ u :> {n2}]
FourSnapshots ==
  {[change_1d |-> 0, change_5d |-> 0, change_1m |-> 0, week52 |-> 50, fresh |-> FALSE],
   [change_1d |-> 0, change_5d |-> 10, change_1m |-> 0, week52 |-> 50, fresh |-> TRUE],
   [change_1d |-> 5, change_5d |-> 0, change_1m |-> 0, week52 |-> 50, fresh |-> FALSE],
   [change_1d |-> -10, change_5d |-> 0, change_1m |-> 0, week52 |-> 50, fresh |-> TRUE]}
TwoForOne == {<<2, 1>>}
===============================================================================
