--------------------------- MODULE MCBrokerSnapshots ---------------------------
(***************************************************************************)
(* BrokerSnapshots alone, for the run of an emptied account.               *)
(***************************************************************************)
EXTENDS BrokerSnapshots, TLC

Symmetry == Permutations(Sessions) \cup Permutations(BrokerTickers)
===============================================================================
