------------------------------- MODULE JobsProofs ------------------------------
(***************************************************************************)
(* The jobs that write the database beside the price sync.  First the      *)
(* guards of the command line: ProductionIsDeclared for any set of         *)
(* tickers, with an invariant that follows a guarded command down its      *)
(* checks: what the flags were when the mode was chosen, what the database *)
(* was classified as when the plan was built, and that nothing is touched  *)
(* before the plan is executed.  Then the other ingestion jobs:            *)
(* RunRowTells and RerunIsSafe for any finite sets of keys and runs.       *)
(* RunInv follows one run through its phases; CopyInv relates the rows in  *)
(* the table to the runs that committed them: a key has as many rows as    *)
(* runs that wrote it, whatever the job makes of a row that exists.        *)
(***************************************************************************)
EXTENDS IngestionJobs, WriteGuards, FiniteSetTheorems, TLAPS

(***************************************************************************)
(* The guarded commands.                                                   *)
(***************************************************************************)

\* The mode says what the flags asked for.
ModeFits ==
  mode # "DRY_RUN" =>
    /\ ~command.dry_run /\ command.write
    /\ mode \in {"WRITE_PRODUCTION", "WRITE_LOCAL"}
    /\ mode = "WRITE_PRODUCTION" => command.db_target = "production" /\ command.confirm
    /\ mode = "WRITE_LOCAL" => command.db_target = "local"

\* The plan is of that mode, for a database that was classified as the mode needs it.
PlanFits ==
  /\ plan.mode = mode /\ ~Unclassifiable
  /\ plan.db_target = Classify(command) /\ Matches(mode, plan.db_target)
  /\ command.name # "sync" => plan.tickers \cap Protected = {}

Untouched == touched = {}

GuardInv ==
  /\ progress \in {"idle", "mode", "planned", "done", "exit_1"}
  /\ progress # "idle" => command \in Commands
  /\ progress \in {"idle", "mode", "planned"} => Untouched
  /\ progress \in {"mode", "planned"} => command.name \in Guarded /\ ModeFits
  /\ progress = "planned" => PlanFits
  /\ ProductionIsDeclared

LEMMA NothingTouched == ASSUME Untouched PROVE ProductionIsDeclared
  BY DEF Untouched, ProductionIsDeclared

LEMMA InitGuards == GuardInit => GuardInv
  BY DEF GuardInit, GuardInv, Untouched, ProductionIsDeclared

\* The two steps that take a command: what the flags leave the mode.
LEMMA FlagsKeep ==
  ASSUME GuardInv, RefuseFlags \/ ChooseMode PROVE GuardInv'
  <1>1. Untouched' /\ command' \in Commands
    BY DEF GuardInv, RefuseFlags, ChooseMode, Exit, Untouched
  <1>2. ProductionIsDeclared'
    BY <1>1 DEF Untouched, ProductionIsDeclared
  <1>3. CASE RefuseFlags
    BY <1>1, <1>2, <1>3 DEF RefuseFlags, Exit, GuardInv
  <1>4. CASE ChooseMode
    <2>1. PICK c \in Commands :
            /\ c.name \in Guarded /\ command' = c
            /\ \/ c.dry_run \/ ~c.write
               \/ c.db_target = "production" /\ c.confirm
               \/ c.db_target = "local"
            /\ mode' = IF c.dry_run \/ ~c.write THEN "DRY_RUN" ELSE WriteMode(c)
      BY <1>4 DEF ChooseMode
    <2>2. c.dry_run \in BOOLEAN /\ c.write \in BOOLEAN /\ c.confirm \in BOOLEAN
      BY DEF Commands
    <2>3. ModeFits'
      BY <2>1, <2>2 DEF ModeFits, WriteMode
    <2> QED
      BY <1>1, <1>2, <2>1, <2>3, <1>4 DEF ChooseMode, GuardInv
  <1> QED
    BY <1>3, <1>4

LEMMA PlanKeeps == ASSUME GuardInv, BuildPlan PROVE GuardInv'
  <1>1. /\ progress = "mode" /\ progress' = "planned"
        /\ UNCHANGED <<command, mode, touched>>
        /\ ~Unclassifiable /\ Matches(mode, Classify(command))
    BY DEF BuildPlan, ToPlan
  <1>2. PICK requested \in SUBSET GuardTickers :
          plan' = [mode |-> mode, db_target |-> Classify(command),
                   tickers |-> IF command.name = "sync" THEN requested
                               ELSE Eligible(requested) \ Protected]
    BY DEF BuildPlan
  <1> DEFINE target == Classify(command)
  <1>3. Classify(command)' = target
    BY <1>1 DEF Classify
  <1> HIDE DEF target
  <1>4. PlanFits'
    BY <1>1, <1>2, <1>3 DEF PlanFits, Unclassifiable, Matches, target
  <1> QED
    BY <1>1, <1>4 DEF GuardInv, ModeFits, Untouched, ProductionIsDeclared

\* The write itself: what the database was classified as says how it was declared.
LEMMA ExecuteKeeps == ASSUME GuardInv, Execute PROVE GuardInv'
  <1>1. /\ progress = "planned" /\ progress' = "done" /\ plan.mode # "DRY_RUN"
        /\ UNCHANGED <<command, mode, plan>> /\ touched' \subseteq plan.tickers
    BY DEF Execute
  <1>2. command \in Commands /\ command.name \in Guarded /\ ModeFits /\ PlanFits
    BY <1>1 DEF GuardInv
  <1>3. /\ command.override \in {"", "local", "production"}
        /\ command.url \in Urls
    BY <1>2 DEF PlanFits, Unclassifiable, Commands
  <1>4. CASE mode = "WRITE_PRODUCTION"
    <2>1. Classify(command) = "production"
      BY <1>2, <1>4 DEF PlanFits, Matches
    <2>2. command.url = "localhost" => command.override = "production"
      BY <2>1, <1>3 DEF Classify
    <2> QED
      BY <1>1, <1>2, <1>3, <1>4, <2>2 DEF GuardInv, ModeFits, PlanFits, ProductionIsDeclared
  <1>5. CASE mode = "WRITE_LOCAL"
    <2>1. Classify(command) = "local"
      BY <1>2, <1>5 DEF PlanFits, Matches
    <2>2. command.override = "local" \/ command.url \in {"localhost", "proxy"}
      BY <2>1, <1>3 DEF Classify, Urls
    <2> QED
      BY <1>1, <1>2, <1>3, <1>5, <2>2 DEF GuardInv, ModeFits, PlanFits, ProductionIsDeclared
  <1> QED
    BY <1>1, <1>2, <1>4, <1>5 DEF ModeFits, PlanFits

LEMMA StepGuards == ASSUME GuardInv, [GuardNext]_guardVars PROVE GuardInv'
  <1>1. CASE RunUngated
    <2>1. command' \in Commands /\ command'.name \in Ungated /\ progress' = "done"
      BY <1>1 DEF RunUngated
    <2>2. ProductionIsDeclared'
      BY <2>1 DEF ProductionIsDeclared, Guarded, Ungated
    <2> QED
      BY <2>1, <2>2 DEF GuardInv
  <1>2. CASE NothingEligible \/ ReportMirror \/ ReportPlan
    BY <1>2 DEF NothingEligible, ReportMirror, ReportPlan, GuardInv, Untouched,
                ProductionIsDeclared
  <1>3. CASE RefusePlan
    BY <1>3 DEF RefusePlan, ToPlan, Exit, GuardInv, Untouched, ProductionIsDeclared
  <1>4. CASE UNCHANGED guardVars
    BY <1>4 DEF guardVars, GuardInv, Untouched, ModeFits, PlanFits, Unclassifiable, Classify,
                Matches, ProductionIsDeclared
  <1> QED
    BY <1>1, <1>2, <1>3, <1>4, FlagsKeep, PlanKeeps, ExecuteKeeps DEF GuardNext

(* However the flags, the override and the URL are combined, a guarded     *)
(* command of the command line (sync_eod_prices_universe, the bootstrap    *)
(* and the mirror bootstrap) writes to production only when it was         *)
(* declared, or through the proxy.                                         *)
THEOREM ProductionWritesDeclared == GuardSpec => []ProductionIsDeclared
  <1>1. GuardInv => ProductionIsDeclared
    BY DEF GuardInv
  <1> QED
    BY InitGuards, StepGuards, <1>1, PTL DEF GuardSpec
(***************************************************************************)
(* The ingestion jobs.                                                     *)
(***************************************************************************)

Phases == {"none", "fetching", "storing", "raised", "stored", "ended"}
ProcType ==
  [phase : Phases, left : SUBSET Keys, read : SUBSET Keys, wrote : SUBSET Keys,
   counted : Nat, refused : BOOLEAN, after : SUBSET RunIds]
RowType == [status : {"none", "running", "success", "failed"}, counted : Nat]

TypeInv ==
  /\ process \in [RunIds -> ProcType]
  /\ runRow \in [RunIds -> RowType]
  /\ copies \in [Keys -> Nat]
  /\ job \in Jobs \cup {NoJob}
  /\ \A r \in RunIds : Phase(r) # "none" => job \in Jobs

Exact == job.counts = "new" \/ job.keys \in {"unique", "fresh_ids"}
CountFits(n, wrote) == n >= Cardinality(wrote) /\ (Exact => n = Cardinality(wrote))

RunInv(r) ==
  /\ Phase(r) \in {"none", "fetching"} =>
       /\ process[r].left = {} /\ process[r].read = {} /\ process[r].wrote = {}
       /\ process[r].counted = 0 /\ ~process[r].refused
  /\ Phase(r) \in {"none", "fetching", "storing"} => runRow[r].status = "none"
  /\ Phase(r) = "storing" =>
       /\ process[r].left \cap process[r].wrote = {}
       /\ ~process[r].refused =>
            \A k \in process[r].read :
              k \in process[r].left \/ k \in process[r].wrote \/ copies[k] > 0
  /\ Phase(r) \in {"storing", "stored"} => CountFits(process[r].counted, process[r].wrote)
  /\ Phase(r) = "raised" => process[r].wrote = {} /\ runRow[r].status \in {"none", "failed"}
  /\ Phase(r) = "stored" => runRow[r].status = "running"
  /\ runRow[r].status \in {"running", "success"} => \A k \in process[r].read : copies[k] > 0
  /\ process[r].refused =>
       /\ job.swallows /\ Phase(r) \in {"storing", "raised"}
       /\ runRow[r].status = "none"
  /\ runRow[r].status = "failed" /\ ~job.midway => process[r].wrote = {}
  /\ runRow[r].status = "success" => CountFits(runRow[r].counted, process[r].wrote)
  /\ runRow[r].status # "success" => runRow[r].counted = 0

JobsInv == TypeInv /\ \A r \in RunIds : RunInv(r)

\* Of the jobs' descriptions: those that can fail midway swallow nothing, and none
\* of them relies on a key of the table.
JobType ==
  [keys : {"on_conflict_nothing", "unique", "fresh_ids", "looked_up"}, swallows : BOOLEAN,
   skips : BOOLEAN, catches : BOOLEAN, recorded : BOOLEAN, counts : {"sent", "new"},
   midway : BOOLEAN, returns : BOOLEAN]

LEMMA JobFacts ==
  ASSUME NEW j \in Jobs
  PROVE  /\ j \in JobType
         /\ j.midway => ~j.swallows /\ j.keys \in {"fresh_ids", "looked_up"}
  <1>1. /\ sync_eod_prices_fmp \in JobType /\ ~sync_eod_prices_fmp.midway
        /\ sync_eod_prices_fmp.keys = "on_conflict_nothing"
    BY DEF sync_eod_prices_fmp, JobType
  <1>2. /\ load_eod_prices \in JobType /\ ~load_eod_prices.midway
    BY <1>1 DEF load_eod_prices, JobType
  <1>3. /\ populate_exchange_calendar \in JobType /\ ~populate_exchange_calendar.midway
    BY <1>1 DEF populate_exchange_calendar, JobType
  <1>4. /\ sync_filings \in JobType /\ ~sync_filings.midway
    BY <1>1 DEF sync_filings, JobType
  <1>5. /\ sync_earnings \in JobType /\ ~sync_earnings.midway /\ ~sync_earnings.swallows
        /\ sync_earnings.keys = "fresh_ids"
    BY <1>1 DEF sync_earnings, JobType
  <1>6. /\ sync_corporate_actions \in JobType /\ ~sync_corporate_actions.swallows
        /\ sync_corporate_actions.keys = "fresh_ids"
    BY <1>5 DEF sync_corporate_actions, JobType
  <1>7. /\ sync_fundamentals_fmp \in JobType /\ ~sync_fundamentals_fmp.swallows
        /\ sync_fundamentals_fmp.keys = "looked_up"
    BY <1>6 DEF sync_fundamentals_fmp, JobType
  <1>8. /\ load_earnings_events \in JobType /\ ~load_earnings_events.midway
        /\ ~load_earnings_events.swallows /\ load_earnings_events.keys = "fresh_ids"
    BY <1>5 DEF load_earnings_events, JobType
  <1>9. /\ load_corporate_actions \in JobType /\ ~load_corporate_actions.swallows
        /\ load_corporate_actions.keys = "fresh_ids"
    BY <1>8 DEF load_corporate_actions, JobType
  <1> QED
    BY <1>1, <1>2, <1>3, <1>4, <1>5, <1>6, <1>7, <1>8, <1>9
    DEF Jobs, sync_eod_prices, sync_fundamentals, sync_fundamentals_sec

LEMMA NoJobIsNone == NoJob.keys = "none" /\ NoJob \notin Jobs
  BY JobFacts DEF NoJob, JobType

LEMMA FiniteKeys == ASSUME NEW S \in SUBSET Keys PROVE IsFiniteSet(S) /\ Cardinality(S) \in Nat
  BY JobsAssumption, FS_Subset, FS_CardinalityType

LEMMA FiniteRuns == ASSUME NEW S \in SUBSET RunIds PROVE IsFiniteSet(S) /\ Cardinality(S) \in Nat
  BY JobsAssumption, FS_Subset, FS_CardinalityType

\* A run is in the table, and nowhere else when it goes from one phase to the next.
LEMMA GoMoves ==
  ASSUME TypeInv, NEW r \in RunIds, NEW phase \in Phases, Go(r, phase)
  PROVE  /\ process' \in [RunIds -> ProcType]
         /\ \A o \in RunIds \ {r} : process'[o] = process[o]
         /\ process'[r].phase = phase
         /\ process'[r].left = process[r].left /\ process'[r].read = process[r].read
         /\ process'[r].wrote = process[r].wrote /\ process'[r].counted = process[r].counted
         /\ process'[r].refused = process[r].refused /\ process'[r].after = process[r].after
  <1>1. process[r] \in ProcType
    BY DEF TypeInv
  <1>2. process' = [process EXCEPT ![r] = [process[r] EXCEPT !.phase = phase]]
    BY DEF Go
  <1> QED
    BY <1>1, <1>2 DEF TypeInv, ProcType

LEMMA LoseMoves ==
  ASSUME TypeInv, NEW r \in RunIds, Lose(r)
  PROVE  /\ process' \in [RunIds -> ProcType]
         /\ \A o \in RunIds \ {r} : process'[o] = process[o]
         /\ process'[r].phase = "raised" /\ process'[r].wrote = {}
         /\ process'[r].left = process[r].left /\ process'[r].read = process[r].read
         /\ process'[r].counted = process[r].counted
         /\ process'[r].refused = process[r].refused /\ process'[r].after = process[r].after
  <1>1. process[r] \in ProcType
    BY DEF TypeInv
  <1>2. process' = [process EXCEPT ![r] = [process[r] EXCEPT !.phase = "raised", !.wrote = {}]]
    BY DEF Lose
  <1> QED
    BY <1>1, <1>2 DEF TypeInv, ProcType, Phases

\* The status of a run's row is set and nothing else changes in the table of runs.
LEMMA StatusSet ==
  ASSUME TypeInv, NEW r \in RunIds, NEW s \in {"running", "success", "failed"},
         runRow' = [runRow EXCEPT ![r].status = s]
  PROVE  /\ runRow' \in [RunIds -> RowType]
         /\ \A o \in RunIds \ {r} : runRow'[o] = runRow[o]
         /\ runRow'[r].status = s /\ runRow'[r].counted = runRow[r].counted
  <1>1. runRow[r] \in RowType
    BY DEF TypeInv
  <1>2. runRow' = [runRow EXCEPT ![r] = [runRow[r] EXCEPT !.status = s]]
    OBVIOUS
  <1> QED
    BY <1>1, <1>2 DEF TypeInv, RowType

\* Rows only ever come to the table.
Grows == copies' \in [Keys -> Nat] /\ \A k \in Keys : copies'[k] >= copies[k]

LEMMA CopiesGrow ==
  ASSUME TypeInv, NEW S \in SUBSET Keys, copies' = Copies(S)
  PROVE  /\ Grows
         /\ \A k \in S : copies'[k] = copies[k] + 1
         /\ \A k \in Keys \ S : copies'[k] = copies[k]
  BY DEF TypeInv, Copies, Grows

LEMMA OthersKeep ==
  ASSUME TypeInv, NEW o \in RunIds, RunInv(o), job' = job, Grows,
         process'[o] = process[o], runRow'[o] = runRow[o]
  PROVE  RunInv(o)'
  <1>1. process[o].read \subseteq Keys
    BY DEF TypeInv, ProcType
  <1>2. \A k \in process[o].read : copies[k] > 0 => copies'[k] > 0
    BY <1>1 DEF Grows, TypeInv
  <1> QED
    BY <1>2 DEF RunInv, Phase, CountFits, Exact

\* A step of one run leaves the others where they were.
LEMMA OneMoves ==
  ASSUME JobsInv, NEW r \in RunIds, job' = job, Grows, Phase(r) # "none",
         process' \in [RunIds -> ProcType], runRow' \in [RunIds -> RowType],
         \A o \in RunIds \ {r} : process'[o] = process[o] /\ runRow'[o] = runRow[o],
         RunInv(r)'
  PROVE  JobsInv'
  <1>1. TypeInv'
    BY DEF JobsInv, TypeInv, Grows, Phase
  <1>2. \A o \in RunIds \ {r} : RunInv(o)'
    BY OthersKeep DEF JobsInv
  <1> QED
    BY <1>1, <1>2 DEF JobsInv

LEMMA Unmoved == TypeInv /\ copies' = copies => Grows
  BY DEF TypeInv, Grows

LEMMA InitJobs == JobsInit => JobsInv
  <1> SUFFICES ASSUME JobsInit PROVE JobsInv
    OBVIOUS
  <1>1. TypeInv
    BY DEF JobsInit, TypeInv, NotBegun, NoRow, ProcType, RowType, Phases, Phase
  <1>2. ASSUME NEW r \in RunIds PROVE RunInv(r)
    BY DEF JobsInit, RunInv, NotBegun, NoRow, Phase
  <1> QED
    BY <1>1, <1>2 DEF JobsInv

LEMMA StartKeeps ==
  ASSUME JobsInv, NEW r \in RunIds, NEW j \in Jobs, Start(r, j)
  PROVE  JobsInv'
  <1>1. /\ TypeInv /\ process[r] \in ProcType /\ Phase(r) = "none" /\ job' = j
        /\ UNCHANGED <<runRow, copies>> /\ job \in {NoJob, j} /\ RunInv(r)
    BY DEF Start, JobsInv, TypeInv
  <1>2. Committed \subseteq RunIds
    BY DEF Committed
  <1>3. process' = [process EXCEPT ![r] = [process[r] EXCEPT !.phase = "fetching",
                                                             !.after = Committed]]
    BY DEF Start
  <1>4. /\ process' \in [RunIds -> ProcType]
        /\ \A o \in RunIds \ {r} : process'[o] = process[o]
        /\ process'[r].phase = "fetching" /\ process'[r].left = process[r].left
        /\ process'[r].read = process[r].read /\ process'[r].wrote = process[r].wrote
        /\ process'[r].counted = process[r].counted
        /\ process'[r].refused = process[r].refused
    BY <1>1, <1>2, <1>3 DEF TypeInv, ProcType, Phases
  <1>5. TypeInv'
    BY <1>1, <1>4 DEF TypeInv
  <1>6. RunInv(r)'
    BY <1>1, <1>4 DEF RunInv, Phase
  <1>7. ASSUME NEW o \in RunIds \ {r} PROVE RunInv(o)'
    <2>1. CASE job = j
      BY <2>1, <1>1, <1>4, OthersKeep, Unmoved DEF JobsInv
    <2>2. CASE job = NoJob
      <3>1. Phase(o) = "none" /\ RunInv(o)
        BY <2>2, NoJobIsNone DEF JobsInv, TypeInv
      <3> QED
        BY <3>1, <1>1, <1>4 DEF RunInv, Phase
    <2> QED
      BY <1>1, <2>1, <2>2
  <1> QED
    BY <1>5, <1>6, <1>7 DEF JobsInv

\* A run that is thrown away: its transaction is rolled back, and its row, if the
\* handler could write it, says "failed".
LEMMA LossKeeps ==
  ASSUME JobsInv, NEW r \in RunIds, Phase(r) \in {"fetching", "storing"}, Lose(r),
         UNCHANGED <<job, copies>>,
         \/ runRow' = runRow
         \/ Phase(r) = "fetching" /\ runRow' = [runRow EXCEPT ![r].status = "failed"]
  PROVE  JobsInv'
  <1>1. TypeInv /\ RunInv(r) /\ Grows
    BY Unmoved DEF JobsInv
  <1>2. /\ process' \in [RunIds -> ProcType]
        /\ \A o \in RunIds \ {r} : process'[o] = process[o]
        /\ process'[r].phase = "raised" /\ process'[r].wrote = {}
        /\ process'[r].refused = process[r].refused
    BY <1>1, LoseMoves
  <1>3. /\ runRow' \in [RunIds -> RowType]
        /\ \A o \in RunIds \ {r} : runRow'[o] = runRow[o]
        /\ runRow'[r].counted = 0
        /\ \/ runRow'[r].status = "none"
           \/ runRow'[r].status = "failed" /\ Phase(r) = "fetching"
    BY <1>1, StatusSet DEF TypeInv, RunInv
  <1>4. RunInv(r)'
    BY <1>1, <1>2, <1>3 DEF RunInv, Phase
  <1> QED
    BY <1>1, <1>2, <1>3, <1>4, OneMoves

LEMMA FetchMoves ==
  ASSUME NEW r \in RunIds, Fetch(r)
  PROVE  \E keys \in SUBSET Keys :
           process' = [process EXCEPT ![r] = [process[r] EXCEPT !.phase = "storing",
                                                !.left = keys, !.read = keys]]
  <1>1. PICK keys \in SUBSET Keys :
          process' = [process EXCEPT ![r].phase = "storing", ![r].left = keys, ![r].read = keys]
    BY Zenon DEF Fetch
  <1>2. process' = [process EXCEPT ![r] = [process[r] EXCEPT !.phase = "storing",
                                             !.left = keys, !.read = keys]]
    BY <1>1
  <1> QED
    BY <1>2

LEMMA FetchKeeps == ASSUME JobsInv, NEW r \in RunIds, Fetch(r) PROVE JobsInv'
  <1>1. TypeInv /\ RunInv(r) /\ Grows /\ process[r] \in ProcType
    BY Unmoved DEF JobsInv, Fetch, TypeInv
  <1>2. PICK keys \in SUBSET Keys :
          process' = [process EXCEPT ![r] = [process[r] EXCEPT !.phase = "storing",
                                               !.left = keys, !.read = keys]]
    BY FetchMoves
  <1>3. /\ process' \in [RunIds -> ProcType]
        /\ \A o \in RunIds \ {r} : process'[o] = process[o]
        /\ process'[r].phase = "storing" /\ process'[r].left = keys
        /\ process'[r].read = keys /\ process'[r].wrote = process[r].wrote
        /\ process'[r].counted = process[r].counted
        /\ process'[r].refused = process[r].refused
    BY <1>1, <1>2 DEF TypeInv, ProcType, Phases
  <1>4. /\ Phase(r) = "fetching" /\ UNCHANGED <<job, runRow, copies>>
        /\ process[r].wrote = {} /\ process[r].counted = 0 /\ ~process[r].refused
        /\ runRow[r].status = "none"
    BY <1>1 DEF Fetch, RunInv
  <1>5. CountFits(process[r].counted, process[r].wrote)'
    BY <1>3, <1>4, FS_EmptySet DEF CountFits
  <1>6. RunInv(r)'
    BY <1>1, <1>3, <1>4, <1>5 DEF RunInv, Phase
  <1> QED
    BY <1>1, <1>3, <1>4, <1>6, OneMoves DEF TypeInv

LEMMA NothingKeeps == ASSUME JobsInv, NEW r \in RunIds, FetchNothing(r) PROVE JobsInv'
  <1>1. /\ TypeInv /\ RunInv(r) /\ Grows /\ Phase(r) = "fetching"
        /\ UNCHANGED <<job, copies>> /\ Go(r, "ended")
        /\ runRow' = [runRow EXCEPT ![r].status = "success"]
    BY Unmoved DEF JobsInv, FetchNothing
  <1>2. /\ process' \in [RunIds -> ProcType]
        /\ \A o \in RunIds \ {r} : process'[o] = process[o]
        /\ process'[r].phase = "ended" /\ process'[r].read = {} /\ process'[r].wrote = {}
        /\ process'[r].counted = 0 /\ ~process'[r].refused
    BY <1>1, GoMoves DEF RunInv, Phases
  <1>3. /\ runRow' \in [RunIds -> RowType]
        /\ \A o \in RunIds \ {r} : runRow'[o] = runRow[o]
        /\ runRow'[r].status = "success"
    BY <1>1, StatusSet
  <1>4. process[r].wrote = {} /\ runRow'[r].counted = 0
    BY <1>1, <1>3, StatusSet DEF RunInv
  <1>5. CountFits(runRow[r].counted, process[r].wrote)'
    BY <1>2, <1>4, FS_EmptySet DEF CountFits
  <1>6. RunInv(r)'
    BY <1>2, <1>3, <1>5 DEF RunInv, Phase
  <1> QED
    BY <1>1, <1>2, <1>3, <1>6, OneMoves

\* The rows of the transaction: a key is counted as the job counts it.
LEMMA StoreKeeps ==
  ASSUME JobsInv, NEW r \in RunIds, NEW k \in Keys, StoreRow(r, k) PROVE JobsInv'
  <1> DEFINE new == IF Adds(r, k) THEN {k} ELSE {}
             one == IF job.counts = "new" /\ new = {} THEN 0 ELSE 1
  <1>1. /\ TypeInv /\ RunInv(r) /\ Grows /\ process[r] \in ProcType
        /\ Phase(r) = "storing" /\ k \in process[r].left
        /\ UNCHANGED <<job, runRow, copies>>
    BY Unmoved DEF JobsInv, StoreRow, AtRow, TypeInv
  <1>2. process' = [process EXCEPT ![r] =
          [process[r] EXCEPT !.left = process[r].left \ {k},
                             !.wrote = process[r].wrote \cup new,
                             !.counted = process[r].counted + one]]
    BY DEF StoreRow
  <1>3. new \in SUBSET Keys /\ one \in {0, 1}
    OBVIOUS
  <1>4. Adds(r, k) \/ copies[k] > 0
    BY <1>1 DEF Adds, TypeInv
  <1>5. /\ new = {k} => one = 1
        /\ new # {k} => new = {} /\ ~Adds(r, k) /\ (Exact => one = 0)
    BY DEF Adds, Exact
  <1>6. new = {} => copies[k] > 0
    BY <1>4
  <1> HIDE DEF new, one
  <1>a. /\ process[r].left \ {k} \in SUBSET Keys
        /\ process[r].wrote \cup new \in SUBSET Keys
        /\ process[r].counted + one \in Nat
    BY <1>1, <1>3 DEF ProcType
  <1>7. /\ process' \in [RunIds -> ProcType]
        /\ \A o \in RunIds \ {r} : process'[o] = process[o]
        /\ process'[r].phase = "storing" /\ process'[r].left = process[r].left \ {k}
        /\ process'[r].read = process[r].read
        /\ process'[r].wrote = process[r].wrote \cup new
        /\ process'[r].counted = process[r].counted + one
        /\ process'[r].refused = process[r].refused
    BY <1>1, <1>2, <1>a DEF TypeInv, ProcType, Phase
  <1>8. CountFits(process[r].counted, process[r].wrote)'
    <2>1. /\ CountFits(process[r].counted, process[r].wrote) /\ k \notin process[r].wrote
          /\ process[r].counted \in Nat /\ process[r].wrote \in SUBSET Keys
      BY <1>1 DEF RunInv, ProcType
    <2>2. IsFiniteSet(process[r].wrote) /\ Cardinality(process[r].wrote) \in Nat
      BY <2>1, FiniteKeys
    <2>5. Exact' <=> Exact
      BY <1>1 DEF Exact
    <2>6. process'[r].counted = process[r].counted + one
      BY <1>7
    <2>3. CASE new = {k}
      <3>1. Cardinality(process[r].wrote \cup {k}) = Cardinality(process[r].wrote) + 1
        BY <2>1, <2>2, FS_AddElement
      <3> QED
        BY <1>5, <1>7, <2>1, <2>2, <2>3, <2>5, <2>6, <3>1 DEF CountFits
    <2>4. CASE new # {k}
      <3>1. process'[r].wrote = process[r].wrote
        BY <1>5, <1>7, <2>4
      <3>2. one \in {0, 1} /\ (Exact => one = 0)
        BY <1>3, <1>5, <2>4
      <3> QED
        BY <2>1, <2>2, <2>5, <2>6, <3>1, <3>2 DEF CountFits
    <2> QED
      BY <2>3, <2>4
  <1>9. /\ process'[r].left \cap process'[r].wrote = {}
        /\ ~process'[r].refused =>
             \A m \in process'[r].read :
               m \in process'[r].left \/ m \in process'[r].wrote \/ copies'[m] > 0
    BY <1>1, <1>5, <1>6, <1>7 DEF RunInv
  <1>10. RunInv(r)'
    BY <1>1, <1>7, <1>8, <1>9 DEF RunInv, Phase
  <1> QED
    BY <1>1, <1>7, <1>10, OneMoves DEF TypeInv

\* A row passed over: not readable, or refused by the database and swallowed.
LEMMA SkipKeeps ==
  ASSUME JobsInv, NEW r \in RunIds, NEW k \in Keys, SkipRow(r, k) PROVE JobsInv'
  <1>1. /\ TypeInv /\ RunInv(r) /\ Grows /\ process[r] \in ProcType
        /\ Phase(r) = "storing" /\ UNCHANGED <<job, runRow, copies>>
    BY Unmoved DEF JobsInv, SkipRow, AtRow, TypeInv
  <1>2. process' = [process EXCEPT ![r] =
          [process[r] EXCEPT !.left = process[r].left \ {k}, !.read = process[r].read \ {k}]]
    BY DEF SkipRow
  <1>3. /\ process' \in [RunIds -> ProcType]
        /\ \A o \in RunIds \ {r} : process'[o] = process[o]
        /\ process'[r].phase = "storing" /\ process'[r].left = process[r].left \ {k}
        /\ process'[r].read = process[r].read \ {k}
        /\ process'[r].wrote = process[r].wrote
        /\ process'[r].counted = process[r].counted
        /\ process'[r].refused = process[r].refused
    BY <1>1, <1>2 DEF TypeInv, ProcType, Phase
  <1>4. RunInv(r)'
    BY <1>1, <1>3 DEF RunInv, Phase, CountFits, Exact
  <1> QED
    BY <1>1, <1>3, <1>4, OneMoves DEF TypeInv

LEMMA RefuseKeeps ==
  ASSUME JobsInv, NEW r \in RunIds, NEW k \in Keys, RefuseRow(r, k) PROVE JobsInv'
  <1>1. /\ TypeInv /\ RunInv(r) /\ Grows /\ process[r] \in ProcType
        /\ Phase(r) = "storing" /\ UNCHANGED <<job, runRow, copies>>
    BY Unmoved DEF JobsInv, RefuseRow, AtRow, TypeInv
  <1>2. CASE job.swallows
    <2>1. process' = [process EXCEPT ![r] =
            [process[r] EXCEPT !.left = process[r].left \ {k}, !.refused = TRUE]]
      BY <1>2 DEF RefuseRow
    <2>2. /\ process' \in [RunIds -> ProcType]
          /\ \A o \in RunIds \ {r} : process'[o] = process[o]
          /\ process'[r].phase = "storing" /\ process'[r].left = process[r].left \ {k}
          /\ process'[r].read = process[r].read
          /\ process'[r].wrote = process[r].wrote
          /\ process'[r].counted = process[r].counted
          /\ process'[r].refused
      BY <1>1, <2>1 DEF TypeInv, ProcType, Phase
    <2>3. RunInv(r)'
      BY <1>1, <1>2, <2>2 DEF RunInv, Phase, CountFits, Exact
    <2> QED
      BY <1>1, <2>2, <2>3, OneMoves DEF TypeInv
  <1>3. CASE ~job.swallows
    BY <1>1, <1>3, LossKeeps DEF RefuseRow
  <1> QED
    BY <1>2, <1>3

LEMMA RowsKeep == ASSUME JobsInv, NEW r \in RunIds, CommitRows(r) PROVE JobsInv'
  <1>1. /\ TypeInv /\ RunInv(r) /\ process[r] \in ProcType
        /\ Phase(r) = "storing" /\ process[r].left = {} /\ ~process[r].refused
        /\ job' = job /\ copies' = Copies(process[r].wrote)
    BY DEF JobsInv, CommitRows, TypeInv
  <1>2. process[r].wrote \in SUBSET Keys /\ process[r].read \in SUBSET Keys
    BY <1>1 DEF ProcType
  <1>3. Grows /\ \A k \in process[r].wrote : copies'[k] > 0
    BY <1>1, <1>2, CopiesGrow DEF TypeInv
  <1>4. \A k \in process[r].read : copies'[k] > 0
    BY <1>1, <1>2, <1>3 DEF RunInv, Grows, TypeInv
  <1>5. CASE job.recorded
    <2>1. Go(r, "stored") /\ runRow' = [runRow EXCEPT ![r].status = "running"]
      BY <1>5 DEF CommitRows
    <2>2. /\ process' \in [RunIds -> ProcType]
          /\ \A o \in RunIds \ {r} : process'[o] = process[o]
          /\ process'[r].phase = "stored" /\ process'[r].read = process[r].read
          /\ process'[r].wrote = process[r].wrote
          /\ process'[r].counted = process[r].counted /\ ~process'[r].refused
      BY <1>1, <2>1, GoMoves DEF Phases
    <2>3. /\ runRow' \in [RunIds -> RowType]
          /\ \A o \in RunIds \ {r} : runRow'[o] = runRow[o]
          /\ runRow'[r].status = "running" /\ runRow'[r].counted = 0
      BY <1>1, <2>1, StatusSet DEF RunInv
    <2>4. CountFits(process[r].counted, process[r].wrote)'
      BY <1>1, <2>2 DEF RunInv, CountFits, Exact
    <2>5. RunInv(r)'
      BY <1>4, <2>2, <2>3, <2>4 DEF RunInv, Phase
    <2> QED
      BY <1>1, <1>3, <2>2, <2>3, <2>5, OneMoves
  <1>6. CASE ~job.recorded
    <2>1. Go(r, "ended") /\ runRow' = runRow
      BY <1>6 DEF CommitRows
    <2>2. /\ process' \in [RunIds -> ProcType]
          /\ \A o \in RunIds \ {r} : process'[o] = process[o]
          /\ process'[r].phase = "ended" /\ ~process'[r].refused
      BY <1>1, <2>1, GoMoves DEF Phases
    <2>3. runRow[r].status = "none"
      BY <1>1 DEF RunInv
    <2>4. RunInv(r)'
      BY <1>1, <2>1, <2>2, <2>3 DEF RunInv, Phase
    <2> QED
      BY <1>1, <1>3, <2>1, <2>2, <2>4, OneMoves DEF TypeInv
  <1> QED
    BY <1>5, <1>6

LEMMA MidwayKeeps == ASSUME JobsInv, NEW r \in RunIds, FailMidway(r) PROVE JobsInv'
  <1>1. /\ TypeInv /\ RunInv(r) /\ process[r] \in ProcType
        /\ Phase(r) = "storing" /\ job.midway /\ job' = job /\ job \in Jobs
    BY DEF JobsInv, FailMidway, TypeInv
  <1>2. ~process[r].refused /\ process[r].wrote \in SUBSET Keys
    BY <1>1, JobFacts DEF RunInv, ProcType
  <1>3. CASE job.recorded
    <2>1. /\ Go(r, "ended") /\ runRow' = [runRow EXCEPT ![r].status = "failed"]
          /\ copies' = Copies(process[r].wrote)
      BY <1>3 DEF FailMidway
    <2>2. Grows
      BY <1>1, <1>2, <2>1, CopiesGrow
    <2>3. /\ process' \in [RunIds -> ProcType]
          /\ \A o \in RunIds \ {r} : process'[o] = process[o]
          /\ process'[r].phase = "ended" /\ ~process'[r].refused
      BY <1>1, <1>2, <2>1, GoMoves DEF Phases
    <2>4. /\ runRow' \in [RunIds -> RowType]
          /\ \A o \in RunIds \ {r} : runRow'[o] = runRow[o]
          /\ runRow'[r].status = "failed" /\ runRow'[r].counted = 0
      BY <1>1, <2>1, StatusSet DEF RunInv
    <2>5. RunInv(r)'
      BY <1>1, <2>3, <2>4 DEF RunInv, Phase
    <2> QED
      BY <1>1, <2>2, <2>3, <2>4, <2>5, OneMoves
  <1>4. CASE ~job.recorded
    BY <1>1, <1>4, LossKeeps DEF FailMidway
  <1> QED
    BY <1>3, <1>4

\* The second commit gives the run's row its verdict and its count.
LEMMA RunKeeps == ASSUME JobsInv, NEW r \in RunIds, CommitRun(r) PROVE JobsInv'
  <1>1. /\ TypeInv /\ RunInv(r) /\ Grows /\ process[r] \in ProcType
        /\ Phase(r) = "stored" /\ UNCHANGED <<job, copies>> /\ Go(r, "ended")
        /\ runRow' = [runRow EXCEPT ![r] = [status |-> "success",
                                            counted |-> process[r].counted]]
    BY Unmoved DEF JobsInv, CommitRun, TypeInv
  <1>2. /\ process' \in [RunIds -> ProcType]
        /\ \A o \in RunIds \ {r} : process'[o] = process[o]
        /\ process'[r].phase = "ended" /\ process'[r].read = process[r].read
        /\ process'[r].wrote = process[r].wrote
        /\ process'[r].refused = process[r].refused
    BY <1>1, GoMoves DEF Phases
  <1>3. [status |-> "success", counted |-> process[r].counted] \in RowType
    BY <1>1 DEF ProcType, RowType
  <1>4. /\ runRow' \in [RunIds -> RowType]
        /\ \A o \in RunIds \ {r} : runRow'[o] = runRow[o]
        /\ runRow'[r].status = "success" /\ runRow'[r].counted = process[r].counted
    BY <1>1, <1>3 DEF TypeInv
  <1>5. /\ CountFits(process[r].counted, process[r].wrote) /\ ~process[r].refused
        /\ \A k \in process[r].read : copies[k] > 0
    BY <1>1 DEF RunInv
  <1>6. CountFits(runRow[r].counted, process[r].wrote)'
    BY <1>1, <1>2, <1>4, <1>5 DEF CountFits, Exact
  <1>7. RunInv(r)'
    BY <1>1, <1>2, <1>4, <1>5, <1>6 DEF RunInv, Phase
  <1> QED
    BY <1>1, <1>2, <1>4, <1>7, OneMoves

LEMMA DeathKeeps == ASSUME JobsInv, NEW r \in RunIds, JobDies(r) PROVE JobsInv'
  <1>1. TypeInv /\ RunInv(r) /\ Grows /\ UNCHANGED <<job, runRow, copies>>
    BY Unmoved DEF JobsInv, JobDies
  <1>2. CASE Phase(r) = "stored"
    <2>1. /\ process' \in [RunIds -> ProcType]
          /\ \A o \in RunIds \ {r} : process'[o] = process[o]
          /\ process'[r].phase = "ended" /\ process'[r].read = process[r].read
          /\ process'[r].wrote = process[r].wrote
          /\ process'[r].refused = process[r].refused
      BY <1>1, <1>2, GoMoves DEF JobDies, Phases
    <2>2. RunInv(r)'
      BY <1>1, <1>2, <2>1 DEF RunInv, Phase
    <2> QED
      BY <1>1, <1>2, <2>1, <2>2, OneMoves DEF TypeInv
  <1>3. CASE Phase(r) # "stored"
    BY <1>1, <1>3, LossKeeps DEF JobDies
  <1> QED
    BY <1>2, <1>3

LEMMA JobsStep == JobsInv /\ [JobsNext]_jobVars => JobsInv'
  <1> SUFFICES ASSUME JobsInv, [JobsNext]_jobVars PROVE JobsInv'
    OBVIOUS
  <1>1. CASE UNCHANGED jobVars
    BY <1>1 DEF jobVars, JobsInv, TypeInv, RunInv, Phase, CountFits, Exact
  <1>2. CASE JobsNext
    <2>1. PICK r \in RunIds :
            \/ \E j \in Jobs : Start(r, j)
            \/ FetchFails(r) \/ Fetch(r) \/ CommitRows(r) \/ CommitLost(r) \/ CommitRun(r)
            \/ JobDies(r) \/ FetchNothing(r) \/ FailMidway(r)
            \/ \E k \in Keys : StoreRow(r, k) \/ SkipRow(r, k) \/ RefuseRow(r, k)
      BY <1>2 DEF JobsNext
    <2>2. CASE \E j \in Jobs : Start(r, j)
      BY <2>2, StartKeeps
    <2>3. CASE FetchFails(r)
      BY <2>3, LossKeeps DEF FetchFails
    <2>4. CASE CommitLost(r)
      BY <2>4, LossKeeps DEF CommitLost
    <2>5. CASE \E k \in Keys : StoreRow(r, k) \/ SkipRow(r, k) \/ RefuseRow(r, k)
      BY <2>5, StoreKeeps, SkipKeeps, RefuseKeeps
    <2> QED
      BY <2>1, <2>2, <2>3, <2>4, <2>5, FetchKeeps, RowsKeep, RunKeeps, DeathKeeps,
         NothingKeeps, MidwayKeeps
  <1> QED
    BY <1>1, <1>2

LEMMA JobsAlways == JobsSpec => []JobsInv
  BY InitJobs, JobsStep, PTL DEF JobsSpec

LEMMA InvTells == JobsInv => RunRowTells
  <1> SUFFICES ASSUME JobsInv, NEW r \in RunIds
      PROVE
        /\ runRow[r].status \in {"running", "success"} =>
             Phase(r) \in {"stored", "ended"} /\ \A k \in process[r].read : copies[k] > 0
        /\ runRow[r].status = "failed" /\ ~job.midway => process[r].wrote = {}
        /\ Phase(r) \in {"fetching", "storing"} => runRow[r].status = "none"
        /\ process[r].refused /\ Phase(r) # "storing" => runRow[r].status = "none"
        /\ runRow[r].status = "success" =>
             /\ runRow[r].counted >= Cardinality(process[r].wrote)
             /\ job.counts = "new" \/ job.keys \in {"unique", "fresh_ids"} =>
                  runRow[r].counted = Cardinality(process[r].wrote)
    BY DEF RunRowTells
  <1>1. RunInv(r) /\ Phase(r) \in Phases
    BY DEF JobsInv, TypeInv, ProcType, Phase
  <1> QED
    BY <1>1 DEF RunInv, Phases, CountFits, Exact

(***************************************************************************)
(* What a source_run row says of the rows, and of a run that left none, is *)
(* true for any number of runs and keys: each run keeps its own RunInv, and *)
(* nothing that another run does takes a row away.                         *)
(***************************************************************************)
THEOREM RunRowsTell == JobsSpec => []RunRowTells
  BY JobsAlways, InvTells, PTL

-------------------------------------------------------------------------------
(* The rows in the table and the runs that committed them.                 *)

Writers(k) == {r \in Committed : k \in process[r].wrote}

\* Under "on_conflict_nothing" an open transaction has its new keys to itself; a period
\* looked up and not found is one that no run before this one has stored.
CopyInv ==
  /\ \A k \in Keys : copies[k] = Cardinality(Writers(k))
  /\ \A r \in RunIds : process[r].after \subseteq Committed
  /\ job.keys = "on_conflict_nothing" =>
       \A r \in RunIds : Phase(r) = "storing" =>
         \A k \in process[r].wrote :
           /\ copies[k] = 0
           /\ \A o \in RunIds \ {r} : Phase(o) = "storing" => k \notin process[o].wrote
  /\ job.keys \in {"on_conflict_nothing", "unique"} => \A k \in Keys : copies[k] <= 1
  /\ job.keys = "looked_up" =>
       \A o \in RunIds : \A r \in process[o].after :
         process[o].wrote \cap process[r].wrote = {}

TableInv == JobsInv /\ CopyInv

LEMMA WritersFinite ==
  ASSUME NEW k
  PROVE  Writers(k) \subseteq RunIds /\ IsFiniteSet(Writers(k)) /\ Cardinality(Writers(k)) \in Nat
  BY FiniteRuns DEF Writers, Committed

LEMMA NoWriters ==
  ASSUME TableInv, NEW k \in Keys, copies[k] = 0
  PROVE  \A r \in Committed : k \notin process[r].wrote
  <1>1. Cardinality(Writers(k)) = 0 /\ IsFiniteSet(Writers(k))
    BY WritersFinite DEF TableInv, CopyInv
  <1>2. Writers(k) = {}
    BY <1>1, FS_EmptySet
  <1> QED
    BY <1>2 DEF Writers

LEMMA InitTable == JobsInit => TableInv
  <1> SUFFICES ASSUME JobsInit PROVE TableInv
    OBVIOUS
  <1>1. Committed = {}
    BY DEF JobsInit, Committed, Phase, NotBegun
  <1>2. \A k \in Keys : copies[k] = 0 /\ Cardinality(Writers(k)) = 0
    BY <1>1, FS_EmptySet DEF JobsInit, Writers
  <1>3. \A r \in RunIds : process[r].after = {} /\ process[r].wrote = {}
    BY DEF JobsInit, NotBegun
  <1>4. CopyInv
    BY <1>2, <1>3 DEF CopyInv
  <1> QED
    BY <1>4, InitJobs DEF TableInv

\* A step after which the same runs have committed the same rows.
LEMMA QuietKeeps ==
  ASSUME TableInv, UNCHANGED <<job, copies>>, Committed' = Committed,
         \A o \in RunIds :
           /\ process'[o].after = process[o].after
           /\ process'[o].wrote \subseteq process[o].wrote
           /\ o \in Committed => process'[o].wrote = process[o].wrote
           /\ process'[o].phase = "storing" =>
                process'[o].wrote = {} \/ process[o].phase = "storing"
  PROVE  CopyInv'
  <1>1. Committed \subseteq RunIds
    BY DEF Committed
  <1>2. \A k \in Keys : Writers(k)' = Writers(k)
    BY <1>1 DEF Writers
  <1>3. \A k \in Keys : copies'[k] = Cardinality(Writers(k)')
    BY <1>2 DEF TableInv, CopyInv
  <1>4. \A r \in RunIds : process'[r].after \subseteq Committed'
    BY DEF TableInv, CopyInv
  <1>5. job'.keys = "on_conflict_nothing" =>
          \A r \in RunIds : Phase(r)' = "storing" =>
            \A k \in process'[r].wrote :
              /\ copies'[k] = 0
              /\ \A o \in RunIds \ {r} : Phase(o)' = "storing" => k \notin process'[o].wrote
    BY DEF TableInv, CopyInv, Phase
  <1>6. job'.keys = "looked_up" =>
          \A o \in RunIds : \A r \in process'[o].after :
            process'[o].wrote \cap process'[r].wrote = {}
    BY <1>1 DEF TableInv, CopyInv
  <1>7. job'.keys \in {"on_conflict_nothing", "unique"} => \A k \in Keys : copies'[k] <= 1
    BY DEF TableInv, CopyInv
  <1> QED
    BY <1>3, <1>4, <1>5, <1>6, <1>7 DEF CopyInv

\* One run moves and neither had nor has committed rows, or had and has the same.
LEMMA QuietRun ==
  ASSUME TableInv, NEW r \in RunIds, UNCHANGED <<job, copies>>,
         \A o \in RunIds \ {r} : process'[o] = process[o],
         process'[r].after = process[r].after,
         \/ process'[r].wrote = {} /\ r \notin Committed
         \/ /\ process'[r].wrote = process[r].wrote
            /\ \/ process'[r].phase = "storing" /\ process[r].phase = "storing"
               \/ process'[r].phase = "ended" /\ process[r].phase = "stored"
  PROVE  CopyInv'
  <1>1. r \in Committed' <=> r \in Committed
    BY DEF Committed, Phase
  <1>2. \A o \in RunIds \ {r} : o \in Committed' <=> o \in Committed
    BY DEF Committed, Phase
  <1>3. Committed' = Committed
    BY <1>1, <1>2 DEF Committed
  <1> QED
    BY <1>3, QuietKeeps

LEMMA StartTable ==
  ASSUME TableInv, NEW r \in RunIds, NEW j \in Jobs, Start(r, j) PROVE CopyInv'
  <1>1. /\ JobsInv /\ TypeInv /\ process[r] \in ProcType /\ RunInv(r) /\ Phase(r) = "none"
        /\ job' = j /\ UNCHANGED <<runRow, copies>> /\ job \in {NoJob, j}
    BY DEF Start, TableInv, JobsInv, TypeInv
  <1>2. Committed \subseteq RunIds
    BY DEF Committed
  <1>3. process' = [process EXCEPT ![r] = [process[r] EXCEPT !.phase = "fetching",
                                                             !.after = Committed]]
    BY DEF Start
  <1>4. /\ \A o \in RunIds \ {r} : process'[o] = process[o]
        /\ process'[r].phase = "fetching" /\ process'[r].wrote = process[r].wrote
        /\ process'[r].after = Committed /\ process[r].wrote = {}
    BY <1>1, <1>2, <1>3 DEF TypeInv, ProcType, RunInv
  <1>5. Committed' = Committed
    BY <1>1, <1>4 DEF Committed, Phase
  <1>6. \A o \in RunIds : process'[o].wrote = process[o].wrote
    BY <1>4
  <1>7. \A k \in Keys : copies'[k] = Cardinality(Writers(k)')
    <2>1. \A k \in Keys : Writers(k)' = Writers(k)
      BY <1>2, <1>5, <1>6 DEF Writers
    <2> QED
      BY <1>1, <2>1 DEF TableInv, CopyInv
  <1>8. \A o \in RunIds : process'[o].after \subseteq Committed'
    BY <1>4, <1>5 DEF TableInv, CopyInv
  <1>9. CASE job = j
    <2>1. \A o \in RunIds : Phase(o)' = "storing" => Phase(o) = "storing"
      BY <1>4 DEF Phase
    <2>2. j.keys = "on_conflict_nothing" =>
            \A s \in RunIds : Phase(s)' = "storing" =>
              \A k \in process'[s].wrote :
                /\ copies'[k] = 0
                /\ \A o \in RunIds \ {s} : Phase(o)' = "storing" => k \notin process'[o].wrote
      BY <1>1, <1>6, <1>9, <2>1 DEF TableInv, CopyInv
    <2>3. j.keys = "looked_up" =>
            \A o \in RunIds : \A s \in process'[o].after :
              process'[o].wrote \cap process'[s].wrote = {}
      BY <1>2, <1>4, <1>6, <1>9 DEF TableInv, CopyInv
    <2>4. j.keys \in {"on_conflict_nothing", "unique"} => \A k \in Keys : copies'[k] <= 1
      BY <1>1, <1>9 DEF TableInv, CopyInv
    <2> QED
      BY <1>1, <1>7, <1>8, <2>2, <2>3, <2>4 DEF CopyInv
  <1>10. CASE job = NoJob
    <2>1. \A o \in RunIds : Phase(o) = "none" /\ process[o].wrote = {}
      BY <1>1, <1>10, NoJobIsNone DEF JobsInv, TypeInv, RunInv
    <2>2. Committed = {}
      BY <2>1 DEF Committed
    <2>3. \A k \in Keys : copies'[k] = 0
      BY <1>1, <2>2, FS_EmptySet DEF TableInv, CopyInv, Writers
    <2> QED
      BY <1>1, <1>6, <1>7, <1>8, <2>1, <2>3 DEF CopyInv
  <1> QED
    BY <1>1, <1>9, <1>10

LEMMA StoreTable ==
  ASSUME TableInv, NEW r \in RunIds, NEW k \in Keys, StoreRow(r, k) PROVE CopyInv'
  <1> DEFINE new == IF Adds(r, k) THEN {k} ELSE {}
  <1>1. /\ JobsInv /\ TypeInv /\ process[r] \in ProcType /\ Phase(r) = "storing"
        /\ UNCHANGED <<job, runRow, copies>> /\ ~Waits(r, k)
    BY DEF TableInv, JobsInv, StoreRow, AtRow, TypeInv
  <1>2. /\ new = {} \/ (new = {k} /\ Adds(r, k))
        /\ process' = [process EXCEPT ![r] =
             [process[r] EXCEPT !.left = process[r].left \ {k},
                !.wrote = process[r].wrote \cup new,
                !.counted = process[r].counted + (IF job.counts = "new" /\ new = {}
                                                  THEN 0 ELSE 1)]]
    BY DEF StoreRow
  <1> HIDE DEF new
  <1>3. /\ \A o \in RunIds \ {r} : process'[o] = process[o]
        /\ process'[r].phase = "storing" /\ process'[r].after = process[r].after
        /\ process'[r].wrote = process[r].wrote \cup new
    BY <1>1, <1>2 DEF TypeInv, ProcType, Phase
  <1>4. /\ \A o \in RunIds : Phase(o)' = Phase(o) /\ process'[o].after = process[o].after
        /\ r \notin Committed
    BY <1>1, <1>3 DEF Phase, Committed
  <1>5. Committed' = Committed
    BY <1>1, <1>3, <1>4 DEF Committed
  <1>6. \A m \in Keys : copies'[m] = Cardinality(Writers(m)')
    <2>1. \A m \in Keys : Writers(m)' = Writers(m)
      BY <1>3, <1>4, <1>5 DEF Writers, Committed
    <2> QED
      BY <1>1, <2>1 DEF TableInv, CopyInv
  <1>7. job.keys = "on_conflict_nothing" =>
          \A s \in RunIds : Phase(s)' = "storing" =>
            \A m \in process'[s].wrote :
              /\ copies'[m] = 0
              /\ \A o \in RunIds \ {s} : Phase(o)' = "storing" => m \notin process'[o].wrote
    <2> SUFFICES ASSUME job.keys = "on_conflict_nothing"
        PROVE  \A s \in RunIds : Phase(s)' = "storing" =>
                 \A m \in process'[s].wrote :
                   /\ copies'[m] = 0
                   /\ \A o \in RunIds \ {s} : Phase(o)' = "storing" => m \notin process'[o].wrote
      OBVIOUS
    <2>1. \A s \in RunIds : Phase(s) = "storing" =>
            \A m \in process[s].wrote :
              /\ copies[m] = 0
              /\ \A o \in RunIds \ {s} : Phase(o) = "storing" => m \notin process[o].wrote
      BY DEF TableInv, CopyInv
    <2>2. new = {k} => copies[k] = 0
      BY <1>2 DEF Adds
    <2>3. \A o \in RunIds \ {r} : Phase(o) = "storing" => k \notin process[o].wrote
      BY <1>1 DEF Waits
    <2> QED
      BY <1>1, <1>2, <1>3, <1>4, <2>1, <2>2, <2>3
  <1>8. job.keys = "looked_up" =>
          \A o \in RunIds : \A s \in process[o].after :
            process'[o].wrote \cap process'[s].wrote = {}
    <2> SUFFICES ASSUME job.keys = "looked_up", NEW o \in RunIds, NEW s \in process[o].after
        PROVE  process'[o].wrote \cap process'[s].wrote = {}
      OBVIOUS
    <2>1. /\ s \in Committed /\ s \in RunIds \ {r}
          /\ process[o].wrote \cap process[s].wrote = {}
      BY <1>4 DEF TableInv, CopyInv, Committed
    <2>2. new = {k} => k \notin process[s].wrote
      BY <1>2, <2>1, NoWriters DEF Adds
    <2> QED
      BY <1>2, <1>3, <2>1, <2>2
  <1> QED
    BY <1>1, <1>4, <1>5, <1>6, <1>7, <1>8 DEF TableInv, CopyInv

\* The rows of a transaction come to the table together.
LEMMA CommitTable ==
  ASSUME TableInv, NEW r \in RunIds, Phase(r) = "storing", job' = job,
         copies' = Copies(process[r].wrote), NEW phase \in {"stored", "ended"}, Go(r, phase),
         job.keys = "unique" => \A k \in process[r].wrote : copies[k] = 0
  PROVE  CopyInv'
  <1>1. /\ JobsInv /\ TypeInv /\ process[r].wrote \in SUBSET Keys /\ r \notin Committed
        /\ copies \in [Keys -> Nat]
    BY DEF TableInv, JobsInv, TypeInv, ProcType, Committed
  <1>2. /\ \A o \in RunIds \ {r} : process'[o] = process[o]
        /\ process'[r].phase = phase /\ process'[r].wrote = process[r].wrote
        /\ process'[r].after = process[r].after
    BY <1>1, GoMoves DEF Phases
  <1>3. /\ \A k \in process[r].wrote : copies'[k] = copies[k] + 1
        /\ \A k \in Keys \ process[r].wrote : copies'[k] = copies[k]
    BY <1>1, CopiesGrow
  <1>4. /\ Committed \subseteq Committed'
        /\ \A o \in Committed' : o \in Committed \/ o = r
        /\ process[r].wrote # {} => r \in Committed'
    BY <1>1, <1>2 DEF Committed, Phase
  <1>5. \A o \in RunIds : /\ process'[o].wrote = process[o].wrote
                          /\ process'[o].after = process[o].after
    BY <1>2
  <1>6. ASSUME NEW k \in Keys PROVE copies'[k] = Cardinality(Writers(k)')
    <2>1. /\ copies[k] = Cardinality(Writers(k)) /\ IsFiniteSet(Writers(k))
          /\ r \notin Writers(k)
      BY <1>1, WritersFinite DEF TableInv, CopyInv, Writers
    <2>2. CASE k \in process[r].wrote
      <3>1. Writers(k)' = Writers(k) \cup {r}
        BY <1>4, <1>5, <2>2 DEF Writers, Committed
      <3>2. Cardinality(Writers(k) \cup {r}) = Cardinality(Writers(k)) + 1
        BY <2>1, FS_AddElement
      <3> QED
        BY <1>3, <2>1, <2>2, <3>1, <3>2
    <2>3. CASE k \notin process[r].wrote
      <3>1. Writers(k)' = Writers(k)
        BY <1>4, <1>5, <2>3 DEF Writers, Committed
      <3> QED
        BY <1>3, <2>1, <2>3, <3>1
    <2> QED
      BY <2>2, <2>3
  <1>7. \A o \in RunIds : process'[o].after \subseteq Committed'
    BY <1>4, <1>5 DEF TableInv, CopyInv
  <1>8. job.keys = "on_conflict_nothing" =>
          /\ \A k \in process[r].wrote : copies[k] = 0
          /\ \A s \in RunIds : Phase(s)' = "storing" =>
               \A k \in process'[s].wrote :
                 /\ copies'[k] = 0
                 /\ \A o \in RunIds \ {s} : Phase(o)' = "storing" => k \notin process'[o].wrote
    <2> SUFFICES ASSUME job.keys = "on_conflict_nothing"
        PROVE  /\ \A k \in process[r].wrote : copies[k] = 0
               /\ \A s \in RunIds : Phase(s)' = "storing" =>
                    \A k \in process'[s].wrote :
                      /\ copies'[k] = 0
                      /\ \A o \in RunIds \ {s} : Phase(o)' = "storing" =>
                           k \notin process'[o].wrote
      OBVIOUS
    <2>1. \A s \in RunIds : Phase(s) = "storing" =>
            \A k \in process[s].wrote :
              /\ copies[k] = 0
              /\ \A o \in RunIds \ {s} : Phase(o) = "storing" => k \notin process[o].wrote
      BY DEF TableInv, CopyInv
    <2>2. \A s \in RunIds : Phase(s)' = "storing" => Phase(s) = "storing" /\ s # r
      BY <1>2 DEF Phase
    <2>3. \A s \in RunIds : process[s].wrote \subseteq Keys
      BY <1>1 DEF TypeInv, ProcType
    <2> QED
      BY <1>3, <1>5, <2>1, <2>2, <2>3
  <1>9. job.keys \in {"on_conflict_nothing", "unique"} => \A k \in Keys : copies'[k] <= 1
    BY <1>1, <1>3, <1>8 DEF TableInv, CopyInv
  <1>10. job.keys = "looked_up" =>
           \A o \in RunIds : \A s \in process'[o].after :
             process'[o].wrote \cap process'[s].wrote = {}
    BY <1>5 DEF TableInv, CopyInv, Committed
  <1> QED
    BY <1>6, <1>7, <1>8, <1>9, <1>10 DEF CopyInv

LEMMA TableStep == TableInv /\ [JobsNext]_jobVars => TableInv'
  <1> SUFFICES ASSUME TableInv, [JobsNext]_jobVars PROVE TableInv'
    OBVIOUS
  <1>1. /\ JobsInv' /\ JobsInv /\ TypeInv /\ \A r \in RunIds : process[r] \in ProcType
    BY JobsStep DEF TableInv, JobsInv, TypeInv
  <1> SUFFICES CopyInv'
    BY <1>1 DEF TableInv
  <1>2. CASE UNCHANGED jobVars
    BY <1>1, <1>2, QuietKeeps DEF jobVars, TableInv, Committed, Phase
  <1>3. CASE JobsNext
    <2>1. PICK r \in RunIds :
            \/ \E j \in Jobs : Start(r, j)
            \/ FetchFails(r) \/ Fetch(r) \/ CommitRows(r) \/ CommitLost(r) \/ CommitRun(r)
            \/ JobDies(r) \/ FetchNothing(r) \/ FailMidway(r)
            \/ \E k \in Keys : StoreRow(r, k) \/ SkipRow(r, k) \/ RefuseRow(r, k)
      BY <1>3 DEF JobsNext
    <2>2. RunInv(r)
      BY <1>1 DEF JobsInv
    <2>3. ASSUME Phase(r) \in {"fetching", "storing"}, Lose(r), UNCHANGED <<job, copies>>
          PROVE  CopyInv'
      <3>1. r \notin Committed
        BY <2>3 DEF Committed
      <3> QED
        BY <1>1, <2>3, <3>1, LoseMoves, QuietRun
    <2>4. CASE FetchFails(r) \/ CommitLost(r)
      BY <2>3, <2>4 DEF FetchFails, CommitLost
    <2>5. CASE JobDies(r)
      <3>1. CASE Phase(r) = "stored"
        <4>1. Go(r, "ended") /\ UNCHANGED <<job, copies>>
          BY <2>5, <3>1 DEF JobDies
        <4> QED
          BY <1>1, <3>1, <4>1, GoMoves, QuietRun DEF Phases, Phase
      <3>2. CASE Phase(r) # "stored"
        BY <2>3, <2>5, <3>2 DEF JobDies
      <3> QED
        BY <3>1, <3>2
    <2>6. CASE CommitRun(r)
      <3>1. Phase(r) = "stored" /\ Go(r, "ended") /\ UNCHANGED <<job, copies>>
        BY <2>6 DEF CommitRun
      <3> QED
        BY <1>1, <3>1, GoMoves, QuietRun DEF Phases, Phase
    <2>7. CASE FetchNothing(r)
      <3>1. /\ Phase(r) = "fetching" /\ Go(r, "ended") /\ UNCHANGED <<job, copies>>
            /\ process[r].wrote = {} /\ r \notin Committed
        BY <2>2, <2>7 DEF FetchNothing, RunInv, Committed
      <3> QED
        BY <1>1, <3>1, GoMoves, QuietRun DEF Phases
    <2>8. CASE Fetch(r)
      <3>1. PICK keys \in SUBSET Keys :
              process' = [process EXCEPT ![r] = [process[r] EXCEPT !.phase = "storing",
                                                   !.left = keys, !.read = keys]]
        BY <2>8, FetchMoves
      <3>2. /\ \A o \in RunIds \ {r} : process'[o] = process[o]
            /\ process'[r].wrote = process[r].wrote /\ process'[r].after = process[r].after
        BY <1>1, <3>1 DEF TypeInv, ProcType
      <3>3. process[r].wrote = {} /\ r \notin Committed /\ UNCHANGED <<job, copies>>
        BY <2>2, <2>8 DEF Fetch, RunInv, Committed
      <3> QED
        BY <3>2, <3>3, QuietRun
    <2>9. CASE \E k \in Keys : StoreRow(r, k)
      BY <2>9, StoreTable
    <2>10. CASE \E k \in Keys : SkipRow(r, k)
      <3>1. PICK k \in Keys : process' = [process EXCEPT ![r] =
              [process[r] EXCEPT !.left = process[r].left \ {k}, !.read = process[r].read \ {k}]]
        BY <2>10 DEF SkipRow
      <3>2. /\ \A o \in RunIds \ {r} : process'[o] = process[o]
            /\ process'[r].wrote = process[r].wrote /\ process'[r].after = process[r].after
            /\ process'[r].phase = process[r].phase
        BY <1>1, <3>1 DEF TypeInv, ProcType
      <3>3. Phase(r) = "storing" /\ UNCHANGED <<job, copies>>
        BY <2>10 DEF SkipRow, AtRow
      <3> QED
        BY <3>2, <3>3, QuietRun DEF Phase
    <2>11. CASE \E k \in Keys : RefuseRow(r, k)
      <3>1. PICK k \in Keys : RefuseRow(r, k)
        BY <2>11
      <3>2. Phase(r) = "storing" /\ UNCHANGED <<job, copies>>
        BY <3>1 DEF RefuseRow, AtRow
      <3>3. CASE job.swallows
        <4>1. process' = [process EXCEPT ![r] =
                [process[r] EXCEPT !.left = process[r].left \ {k}, !.refused = TRUE]]
          BY <3>1, <3>3 DEF RefuseRow
        <4>2. /\ \A o \in RunIds \ {r} : process'[o] = process[o]
              /\ process'[r].wrote = process[r].wrote /\ process'[r].after = process[r].after
              /\ process'[r].phase = process[r].phase
          BY <1>1, <4>1 DEF TypeInv, ProcType
        <4> QED
          BY <3>2, <4>2, QuietRun DEF Phase
      <3>4. CASE ~job.swallows
        BY <2>3, <3>1, <3>2, <3>4 DEF RefuseRow
      <3> QED
        BY <3>3, <3>4
    <2>12. CASE CommitRows(r)
      <3>1. /\ Phase(r) = "storing" /\ job' = job /\ copies' = Copies(process[r].wrote)
            /\ Go(r, "stored") \/ Go(r, "ended")
            /\ ~Duplicates(r) /\ process[r].wrote \subseteq Keys /\ copies \in [Keys -> Nat]
        BY <1>1, <2>12 DEF CommitRows, ProcType, TypeInv
      <3>2. job.keys = "unique" => \A k \in process[r].wrote : copies[k] = 0
        BY <3>1 DEF Duplicates
      <3> QED
        BY <3>1, <3>2, CommitTable
    <2>13. CASE FailMidway(r)
      <3>1. /\ Phase(r) = "storing" /\ job' = job /\ job \in Jobs /\ job.midway
        BY <1>1, <2>13 DEF FailMidway, TypeInv
      <3>2. job.keys # "unique"
        BY <3>1, JobFacts
      <3>3. CASE job.recorded
        BY <2>13, <3>1, <3>2, <3>3, CommitTable DEF FailMidway
      <3>4. CASE ~job.recorded
        BY <2>3, <2>13, <3>1, <3>4 DEF FailMidway
      <3> QED
        BY <3>3, <3>4
    <2>14. CASE \E j \in Jobs : Start(r, j)
      BY <2>14, StartTable
    <2> QED
      BY <2>1, <2>4, <2>5, <2>6, <2>7, <2>8, <2>9, <2>10, <2>11, <2>12, <2>13, <2>14
  <1> QED
    BY <1>2, <1>3

LEMMA TableAlways == JobsSpec => []TableInv
  BY InitTable, TableStep, PTL DEF JobsSpec

LEMMA TableIsSafe == TableInv => RerunIsSafe
  <1> SUFFICES ASSUME TableInv, NEW k \in Keys
      PROVE  /\ job.keys \in {"on_conflict_nothing", "unique"} => copies[k] <= 1
             /\ job.keys = "looked_up" =>
                  /\ \A r, other \in Writers(k) : r # other => r \notin process[other].after
                  /\ copies[k] = Cardinality(Writers(k))
    BY DEF RerunIsSafe, Writers
  <1>1. ASSUME job.keys = "looked_up", NEW r \in Writers(k), NEW other \in Writers(k),
               r \in process[other].after
        PROVE  FALSE
    BY <1>1 DEF TableInv, CopyInv, Writers, Committed
  <1> QED
    BY <1>1 DEF TableInv, CopyInv

(***************************************************************************)
(* A rerun is as safe as its kind of key makes it, however many runs       *)
(* overlap, die or are refused: two transactions never hold the same new   *)
(* key, so upserted and unique rows stay single, and a looked-up row is    *)
(* stored twice only by runs that neither saw the other's commit.          *)
(***************************************************************************)
THEOREM RerunsAreSafe == JobsSpec => []RerunIsSafe
  BY TableAlways, TableIsSafe, PTL
================================================================================
