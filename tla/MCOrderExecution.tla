--------------------------- MODULE MCOrderExecution ---------------------------
(***************************************************************************)
(* OrderExecution alone, for the runs of one draft.                        *)
(***************************************************************************)
EXTENDS OrderExecution

\* One clean limit order.
MCOneShape ==
  {[order_type |-> "limit", qty |-> 1, limit_price |-> 2, stop_price |-> Null]}
===============================================================================
