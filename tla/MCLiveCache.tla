----------------------------- MODULE MCLiveCache -----------------------------
(***************************************************************************)
(* Small instances of LiveCache for TLC.                                   *)
(***************************************************************************)
EXTENDS LiveCache, TLC

\* A TTL configured below its floor.
MCConfigured == [k \in Keys |-> 1]
MCFloor == [k \in Keys |-> 2]

Symmetry == Permutations(Clients) \cup Permutations(Tasks)
===============================================================================
