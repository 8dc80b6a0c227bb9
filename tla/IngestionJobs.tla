----------------------------- MODULE IngestionJobs -----------------------------
(***************************************************************************)
(* The command-line ingestion jobs, as runs that overlap, fail, die and    *)
(* are run again: a source_run row, the provider's rows, a commit of both, *)
(* and a second commit of the row's success.  All runs of a behaviour are  *)
(* of one job, and a key is what makes a row the same row for that job.    *)
(* What tells the jobs apart is written down once for each of them.        *)
(***************************************************************************)
EXTENDS Integers, FiniteSets

CONSTANTS Keys,
          RunIds      \* source_run ids

ASSUME JobsAssumption == IsFiniteSet(Keys) /\ IsFiniteSet(RunIds)

VARIABLES
  job,       \* the job, once there is one
  process,   \* per run its process and open transaction
  runRow,    \* per run its committed source_run row
  copies     \* per key the committed rows

jobVars == <<job, process, runRow, copies>>

-------------------------------------------------------------------------------
(* The jobs.  keys: what becomes of a row that exists; swallows: a row that *)
(* the database refuses is counted and passed over; skips: a row that      *)
(* cannot be read is passed over; catches: a failure is recorded; recorded: *)
(* there is a source_run row; counts: the rows sent or the rows that were  *)
(* new; midway: a failure outside the database may come between the rows;  *)
(* returns: an empty answer is a success in one commit.                    *)

sync_eod_prices_fmp ==
  [keys |-> "on_conflict_nothing", swallows |-> TRUE, skips |-> TRUE, catches |-> TRUE,
   recorded |-> TRUE, counts |-> "sent", midway |-> FALSE, returns |-> FALSE]
sync_eod_prices == sync_eod_prices_fmp
load_eod_prices ==
  [sync_eod_prices_fmp EXCEPT !.counts = "new", !.returns = TRUE]
populate_exchange_calendar ==
  [sync_eod_prices_fmp EXCEPT !.swallows = FALSE, !.skips = FALSE, !.catches = FALSE]
sync_filings ==
  [sync_eod_prices_fmp EXCEPT !.keys = "unique", !.swallows = FALSE]
sync_earnings ==
  [sync_eod_prices_fmp EXCEPT !.keys = "fresh_ids", !.swallows = FALSE]
sync_fundamentals == sync_earnings
sync_fundamentals_sec == sync_earnings
sync_corporate_actions == [sync_earnings EXCEPT !.midway = TRUE]
sync_fundamentals_fmp ==
  [sync_corporate_actions EXCEPT !.keys = "looked_up", !.counts = "new"]
load_earnings_events == [sync_earnings EXCEPT !.recorded = FALSE]
load_corporate_actions == [load_earnings_events EXCEPT !.midway = TRUE]

Jobs == {sync_eod_prices_fmp, sync_eod_prices, load_eod_prices, populate_exchange_calendar,
         sync_filings, sync_earnings, sync_fundamentals, sync_fundamentals_sec,
         sync_corporate_actions, sync_fundamentals_fmp, load_earnings_events,
         load_corporate_actions}
NoJob == [keys |-> "none"]

-------------------------------------------------------------------------------
(* A run.                                                                  *)

\* left: keys still to process; wrote: keys of the transaction, then of the commit;
\* after: the runs whose rows were committed when this one began.
NotBegun == [phase |-> "none", left |-> {}, read |-> {}, wrote |-> {}, counted |-> 0,
             refused |-> FALSE, after |-> {}]

NoRow == [status |-> "none", counted |-> 0]

JobsInit ==
  /\ job = NoJob
  /\ process = [r \in RunIds |-> NotBegun]
  /\ runRow = [r \in RunIds |-> NoRow]
  /\ copies = [k \in Keys |-> 0]

Phase(r) == process[r].phase
Committed == {r \in RunIds : Phase(r) \in {"stored", "ended"} /\ process[r].wrote # {}}

Go(r, phase) == process' = [process EXCEPT ![r].phase = phase]

\* The commits of a run that has gone wrong.
Lose(r) == process' = [process EXCEPT ![r].phase = "raised", ![r].wrote = {}]

StartBug(r, j) ==      \* the run's row is committed before the work
  /\ Phase(r) = "none" /\ job \in {NoJob, j} /\ job' = j
  /\ process' = [process EXCEPT ![r].phase = "fetching", ![r].after = Committed]
  /\ runRow' = [runRow EXCEPT ![r].status = "running"]
  /\ UNCHANGED copies

\* The run's row is flushed, not committed.
Start(r, j) ==
  /\ Phase(r) = "none" /\ job \in {NoJob, j} /\ job' = j
  /\ process' = [process EXCEPT ![r].phase = "fetching", ![r].after = Committed]
  /\ UNCHANGED <<runRow, copies>>

FetchFails(r) ==
  /\ Phase(r) = "fetching" /\ job.catches
  /\ Lose(r)
  /\ runRow' = IF job.recorded THEN [runRow EXCEPT ![r].status = "failed"] ELSE runRow
  /\ UNCHANGED <<job, copies>>

Fetch(r) ==
  /\ Phase(r) = "fetching"
  /\ \E keys \in SUBSET Keys :
       /\ job.returns => keys # {}
       /\ process' = [process EXCEPT ![r].phase = "storing", ![r].left = keys, ![r].read = keys]
  /\ UNCHANGED <<job, runRow, copies>>

FetchNothing(r) ==      \* a success in one commit
  /\ Phase(r) = "fetching" /\ job.returns
  /\ Go(r, "ended")
  /\ runRow' = [runRow EXCEPT ![r].status = "success"]
  /\ UNCHANGED <<job, copies>>

-------------------------------------------------------------------------------
(* The rows, in one transaction.                                           *)

AtRow(r, k) == Phase(r) = "storing" /\ k \in process[r].left

\* An insert that may conflict waits for the transaction that has the key.
Waits(r, k) ==
  /\ job.keys = "on_conflict_nothing"
  /\ \E other \in RunIds \ {r} : Phase(other) = "storing" /\ k \in process[other].wrote

AddsBug(r, k) == TRUE      \* an insert without its conflict clause

Adds(r, k) == job.keys \in {"on_conflict_nothing", "looked_up"} => copies[k] = 0

\* What the job counts is the rows it sent, or the rows that were new.
StoreRow(r, k) ==
  /\ AtRow(r, k) /\ ~process[r].refused /\ ~Waits(r, k)
  /\ LET wrote == IF Adds(r, k) THEN {k} ELSE {}
         counted == IF job.counts = "new" /\ wrote = {} THEN 0 ELSE 1
     IN  process' = [process EXCEPT ![r].left = process[r].left \ {k},
                                    ![r].wrote = process[r].wrote \cup wrote,
                                    ![r].counted = process[r].counted + counted]
  /\ UNCHANGED <<job, runRow, copies>>

\* The row cannot be read, or the transaction is aborted and the failure swallowed.
SkipRow(r, k) ==
  /\ AtRow(r, k) /\ job.skips
  /\ process' = [process EXCEPT ![r].left = process[r].left \ {k},
                                ![r].read = process[r].read \ {k}]
  /\ UNCHANGED <<job, runRow, copies>>

\* The database refuses the row, a deadlock's victim included: PostgreSQL aborts
\* the transaction.  A job that does not swallow it cannot even record it.
RefuseRow(r, k) ==
  /\ AtRow(r, k)
  /\ IF job.swallows
     THEN process' = [process EXCEPT ![r].left = process[r].left \ {k},
                                     ![r].refused = TRUE]
     ELSE Lose(r)
  /\ UNCHANGED <<job, runRow, copies>>

-------------------------------------------------------------------------------
(* The two commits.                                                        *)

Copies(keys) == [k \in Keys |-> IF k \in keys THEN copies[k] + 1 ELSE copies[k]]

Duplicates(r) == job.keys = "unique" /\ \E k \in process[r].wrote : copies[k] > 0

CommitRows(r) ==
  /\ Phase(r) = "storing" /\ process[r].left = {}
  /\ ~process[r].refused /\ ~Duplicates(r)
  /\ copies' = Copies(process[r].wrote)
  /\ Go(r, IF job.recorded THEN "stored" ELSE "ended")
  /\ runRow' = IF job.recorded THEN [runRow EXCEPT ![r].status = "running"] ELSE runRow
  /\ UNCHANGED job

\* A failure outside the database after some of the rows: dividends that cannot be
\* fetched after the splits, a statement that cannot be read.  The handler
\* commits its verdict, and the rows with it.
FailMidway(r) ==
  /\ Phase(r) = "storing" /\ job.midway
  /\ IF job.recorded
     THEN /\ copies' = Copies(process[r].wrote)
          /\ runRow' = [runRow EXCEPT ![r].status = "failed"]
          /\ Go(r, "ended")
     ELSE Lose(r) /\ UNCHANGED <<runRow, copies>>
  /\ UNCHANGED job

\* A COMMIT of an aborted transaction rolls it back without a word, run row and all,
\* and the update of that row then matches nothing; a refused flush at the
\* commit ends the same way, for the handler commits on a session it has not
\* rolled back.
CommitLost(r) ==
  /\ Phase(r) = "storing" /\ process[r].left = {}
  /\ process[r].refused \/ Duplicates(r)
  /\ Lose(r)
  /\ UNCHANGED <<job, runRow, copies>>

CommitRun(r) ==
  /\ Phase(r) = "stored"
  /\ Go(r, "ended")
  /\ runRow' = [runRow EXCEPT ![r] = [status |-> "success", counted |-> process[r].counted]]
  /\ UNCHANGED <<job, copies>>

JobDies(r) ==
  /\ Phase(r) \in {"fetching", "storing", "stored"}
  /\ IF Phase(r) = "stored" THEN Go(r, "ended") ELSE Lose(r)
  /\ UNCHANGED <<job, runRow, copies>>

JobsNext ==
  \E r \in RunIds :
    \/ \E j \in Jobs : Start(r, j)
    \/ FetchFails(r) \/ Fetch(r) \/ CommitRows(r) \/ CommitLost(r) \/ CommitRun(r) \/ JobDies(r)
    \/ FetchNothing(r) \/ FailMidway(r)
    \/ \E k \in Keys : StoreRow(r, k) \/ SkipRow(r, k) \/ RefuseRow(r, k)
JobsSpec == JobsInit /\ [][JobsNext]_jobVars

-------------------------------------------------------------------------------
(* Properties.                                                             *)

\* A source_run row speaks of its rows: "running" and "success" both say that every
\* row that could be read is stored, "running" forever when the run died in
\* between.  "failed" says that nothing was stored, except where a provider or a
\* statement fails midway: then the handler commits the rows before it as well.
\* A run that still works has no row to be seen, and one that the database has
\* refused leaves none, for good.  A count is never below what was written, and
\* is the very number only where the job asks the database.
RunRowTells ==
  \A r \in RunIds :
    /\ runRow[r].status \in {"running", "success"} =>
         Phase(r) \in {"stored", "ended"} /\ \A k \in process[r].read : copies[k] > 0
    /\ runRow[r].status = "failed" /\ ~job.midway =>
         process[r].wrote = {}
    /\ Phase(r) \in {"fetching", "storing"} => runRow[r].status = "none"
    /\ process[r].refused /\ Phase(r) # "storing" => runRow[r].status = "none"
    /\ runRow[r].status = "success" =>
         /\ runRow[r].counted >= Cardinality(process[r].wrote)
         /\ job.counts = "new" \/ job.keys \in {"unique", "fresh_ids"} =>
              runRow[r].counted = Cardinality(process[r].wrote)

\* What a second run may not make of the same rows.  Upserted and unique rows stay
\* single, whatever overlaps; a looked-up period is stored once by each of two runs
\* only when neither of them began after the other's commit.
RerunIsSafe ==
  \A k \in Keys :
    LET writers == {r \in Committed : k \in process[r].wrote}
    IN  /\ job.keys \in {"on_conflict_nothing", "unique"} => copies[k] <= 1
        /\ job.keys = "looked_up" =>
             /\ \A r, other \in writers : r # other => r \notin process[other].after
             /\ copies[k] = Cardinality(writers)

\* The data contract's rule for every job: a run that began after another had
\* stored a row does not store that row again.
RerunAddsNothing ==
  \A r, other \in Committed :
    r # other /\ r \in process[other].after =>
      process[r].wrote \cap process[other].wrote = {}
===============================================================================
