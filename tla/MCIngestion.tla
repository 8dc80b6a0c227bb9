------------------------------ MODULE MCIngestion ------------------------------
(***************************************************************************)
(* The two mirrors of the outside world in the database, the broker's      *)
(* account and the daily prices, side by side: they share no table.  A     *)
(* behaviour follows one of them.                                          *)
(***************************************************************************)
EXTENDS BrokerSnapshots, PriceIngestion, TLC

CONSTANTS j1, j2

VARIABLE followed

\* The broker begins with one position, so that a change of the book opens, closes
\* or swaps one, and every ticker or none has a row from before the migration.
\* The machine that is not followed begins in one state.
IngestionInit ==
  /\ followed \in {"broker", "prices"} /\ SnapshotsInit /\ Init
  /\ Cardinality(book[1]) = 1
  /\ {p.ticker : p \in positions} \in {{}, BrokerTickers}
  /\ followed = "prices" => positions = {}

IngestionNext ==
  \/ followed = "broker" /\ SnapshotsNext /\ UNCHANGED <<followed, vars>>
  \/ followed = "prices" /\ Next /\ UNCHANGED <<followed, snapshotVars>>

IngestionSpec == IngestionInit /\ [][IngestionNext]_<<followed, snapshotVars, vars>>

Symmetry == Permutations(Sessions) \cup Permutations(BrokerTickers)

KindsOfRuns == j1 :> {"sync", "mirror", "master"} @@ j2 :> {"sync", "bootstrap"}
TwoTickers == <<"AAPL", "TSLA">>
OneProtected == {"AAPL"}
===============================================================================
