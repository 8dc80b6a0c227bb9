------------------------------- MODULE MCBacktest ------------------------------
(* Backtest alone, with the rates the honesty endpoint has by default: 5 bps   *)
(* of slippage in both models, and 10 of spread and 15 of currency fee in the *)
(* realistic one.                                                             *)
EXTENDS Backtest

CONSTANT x

OneListed == <<x>>
Quarter == <<1, 4>>
DefaultCosts ==
  [m \in Runs |->
     [commission_per_share |-> 0, commission_min |-> 0,
      bps |-> IF m = "legacy" THEN 5 ELSE 15,
      fx_fee_bps |-> IF m = "legacy" THEN 0 ELSE 15]]
===============================================================================
