--------------------------- MODULE MCAdjustedPrices ---------------------------
(* AdjustedPrices alone, for the run about the direction of the adjustment. *)
EXTENDS AdjustedPrices

TwoForOne == {<<2, 1>>}
===============================================================================
