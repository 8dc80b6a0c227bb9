------------------------------ MODULE WriteGuards ------------------------------
(***************************************************************************)
(* The guards between a command line and a write: the flags of the three   *)
(* guarded commands (universe sync, universe bootstrap, mirror bootstrap), *)
(* the classification of the database by override or URL, the planner's    *)
(* checks, the executor's, and the tickers the two bootstraps leave out.   *)
(* The other commands write to whatever database is configured.            *)
(***************************************************************************)
EXTENDS FiniteSets

CONSTANTS GuardTickers,
          Protected      \* PROTECTED_TICKERS

ASSUME GuardAssumption == Protected \subseteq GuardTickers

VARIABLES
  command,   \* the command and its flags
  mode,      \* write_mode
  plan,      \* the plan: its mode, database and tickers
  progress,  \* how far the command is, or how it ended
  touched    \* the tickers written for

guardVars == <<command, mode, plan, progress, touched>>

Guarded == {"sync", "bootstrap", "mirror"}
Ungated == {"sync_eod_fmp", "sync_fundamentals_fmp", "sync_eod_prices", "sync_filings"}

\* A database is the configured URL's; what the URL shows of it may mislead: a proxy
\* on this host leads to production, and so does a public address.
Urls == {"localhost", "cloudsql", "proxy", "address", "unreadable"}
Commands ==
  [name : Guarded \cup Ungated, dry_run : BOOLEAN, write : BOOLEAN,
   db_target : {"local", "production", "other"}, confirm : BOOLEAN,
   override : {"", "local", "production", "typo"}, url : Urls]

NoCommand == [name |-> "none"]
NoPlan == [mode |-> "DRY_RUN", db_target |-> "unknown", tickers |-> {}]

GuardInit ==
  /\ command = NoCommand /\ mode = "DRY_RUN" /\ plan = NoPlan
  /\ progress = "idle" /\ touched = {}

RunUngated ==
  /\ progress = "idle"
  /\ \E c \in Commands, t \in GuardTickers :
       c.name \in Ungated /\ command' = c /\ touched' = {t}
  /\ progress' = "done" /\ UNCHANGED <<mode, plan>>

-------------------------------------------------------------------------------
(* The command.                                                            *)

Exit == progress' = "exit_1" /\ UNCHANGED <<mode, plan, touched>>

WriteMode(c) == IF c.db_target = "production" THEN "WRITE_PRODUCTION" ELSE "WRITE_LOCAL"

RefuseFlags ==
  /\ progress = "idle"
  /\ \E c \in Commands :
       /\ c.name \in Guarded /\ command' = c
       /\ ~c.dry_run /\ c.write
       /\ c.db_target = "other" \/ (c.db_target = "production" /\ ~c.confirm)
  /\ Exit

ChooseMode ==
  /\ progress = "idle"
  /\ \E c \in Commands :
       /\ c.name \in Guarded /\ command' = c
       /\ \/ c.dry_run \/ ~c.write
          \/ c.db_target = "production" /\ c.confirm
          \/ c.db_target = "local"
       /\ mode' = IF c.dry_run \/ ~c.write THEN "DRY_RUN" ELSE WriteMode(c)
  /\ progress' = "mode" /\ UNCHANGED <<plan, touched>>

-------------------------------------------------------------------------------
(* The plan.                                                               *)

Classify(c) ==
  CASE c.override \in {"local", "production"} -> c.override
    [] c.override = "" /\ c.url \in {"localhost", "proxy"} -> "local"
    [] c.override = "" /\ c.url = "cloudsql" -> "production"
    [] c.override = "" /\ c.url \in {"address", "unreadable"} -> "unknown"

MatchesBug(m, target) ==      \* a local write is refused on production only
  /\ m = "WRITE_PRODUCTION" => target = "production"
  /\ m = "WRITE_LOCAL" => target # "production"

Matches(m, target) ==
  /\ m = "WRITE_PRODUCTION" => target = "production"
  /\ m = "WRITE_LOCAL" => target = "local"

\* A typing error in the override is raised out of the classification, and again
\* out of its handler.
Unclassifiable == command.override = "typo"
Unconfirmed == mode = "WRITE_PRODUCTION" /\ ~command.confirm      \* checked again

\* Only tickers the provider has described, and only new ones, come from the mirror.
Eligible(described) == IF command.name = "mirror" THEN described \ Protected ELSE described

\* Nothing is eligible, for the mirror's writer.
NothingEligible ==
  /\ progress = "mode" /\ command.name = "mirror" /\ mode # "DRY_RUN"
  /\ progress' = "done" /\ UNCHANGED <<command, mode, plan, touched>>

\* A dry run of the mirror ends with its own plan, which looks at no target.
ReportMirror ==
  /\ progress = "mode" /\ command.name = "mirror" /\ mode = "DRY_RUN"
  /\ progress' = "done" /\ UNCHANGED <<command, mode, plan, touched>>

ToPlan == progress = "mode" /\ ~(command.name = "mirror" /\ mode = "DRY_RUN")

RefusePlan ==
  /\ ToPlan
  /\ \/ Unclassifiable \/ Unconfirmed
     \/ ~Unclassifiable /\ ~Matches(mode, Classify(command))
  /\ Exit /\ UNCHANGED command

BuildPlan ==
  /\ ToPlan /\ ~Unclassifiable /\ ~Unconfirmed /\ Matches(mode, Classify(command))
  /\ \E requested \in SUBSET GuardTickers :
       /\ requested # {}
       /\ plan' = [mode |-> mode, db_target |-> Classify(command),
                   tickers |-> IF command.name = "sync" THEN requested
                               ELSE Eligible(requested) \ Protected]
  /\ progress' = "planned" /\ UNCHANGED <<command, mode, touched>>

-------------------------------------------------------------------------------
(* The execution.                                                          *)

ReportPlan ==
  /\ progress = "planned" /\ plan.mode = "DRY_RUN"
  /\ progress' = "done" /\ UNCHANGED <<command, mode, plan, touched>>

\* Some of the planned tickers are written for: others exist, fail or are unknown.
Execute ==
  /\ progress = "planned" /\ plan.mode # "DRY_RUN" /\ Matches(plan.mode, plan.db_target)
  /\ \E some \in SUBSET plan.tickers : touched' = some
  /\ progress' = "done" /\ UNCHANGED <<command, mode, plan>>

GuardNext ==
  \/ RunUngated \/ RefuseFlags \/ ChooseMode \/ NothingEligible \/ ReportMirror
  \/ RefusePlan \/ BuildPlan \/ ReportPlan \/ Execute
GuardSpec == GuardInit /\ [][GuardNext]_guardVars

-------------------------------------------------------------------------------
(* Properties.                                                             *)

\* A guarded command writes to production only when it was told to, by target and
\* confirmation together, or when someone declared the database local, or
\* when the database looks local: the proxy's address passes for this host, without
\* any declaration.  It writes to the local database only as a local write, or
\* when the override calls it production.  A typing error in the override
\* never writes, and no bootstrap touches a protected ticker.
ProductionIsDeclared ==
  touched # {} /\ command.name \in Guarded =>
    /\ ~command.dry_run /\ command.write /\ command.override # "typo"
    /\ command.url # "localhost" =>
         \/ command.db_target = "production" /\ command.confirm
         \/ command.override = "local" \/ command.url = "proxy"
    /\ command.url = "localhost" =>
         command.db_target = "local" \/ command.override = "production"
    /\ command.name # "sync" => touched \cap Protected = {}
===============================================================================
