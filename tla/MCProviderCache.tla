--------------------------- MODULE MCProviderCache ---------------------------
(***************************************************************************)
(* A small instance of ProviderCache for TLC: a page with two tickers and  *)
(* a detail request for one of them.                                       *)
(***************************************************************************)
EXTENDS ProviderCache

CONSTANTS a1, a2, detail, A, mu, nok

MCPageOf == [c \in Calls |-> IF c = detail THEN NoPage ELSE A]
MCSymbolOf == [c \in Calls |-> IF c = a2 THEN nok ELSE mu]
===============================================================================
