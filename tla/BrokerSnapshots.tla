---------------------------- MODULE BrokerSnapshots ----------------------------
(***************************************************************************)
(* The read-only mirror of the broker account in the database:             *)
(* sync_trading212_readonly writes it, the dashboard, the research page,   *)
(* the watchlist overlay and the mirror watchlist read it.                 *)
(*                                                                         *)
(* A sync is a job of its own (Cloud Run or the CLI); nothing keeps two of *)
(* them apart.  It fetches over several seconds, then writes everything in *)
(* one transaction, then marks its source_run row in another.  The rows    *)
(* get their snapshot_at when the session flushes them, which is before    *)
(* anybody else can see them.  Readers take a session id in one query and  *)
(* that session's rows in the next, each query seeing what is committed.   *)
(*                                                                         *)
(* A position is represented by its ticker and the moment of the broker's  *)
(* book it describes.  An operator whose name ends in Bug is used only by  *)
(* the mutation checks.                                                    *)
(***************************************************************************)
EXTENDS Integers, Sequences, FiniteSets

CONSTANTS
  BrokerTickers,
  Sessions,      \* sync_session_id values new_id() may return, one per sync
  NoSession,     \* NULL in that column: rows from before the migration
  Requests,      \* requests that read positions
  MaxTrades      \* bound on changes of the broker's book

ASSUME SnapshotsAssumption ==
  /\ NoSession \notin Sessions
  /\ MaxTrades \in Nat

VARIABLES
  book,        \* the broker's holdings, from the first moment to the present
  sync,        \* per session: the job and what it has fetched
  accounts,    \* sessions whose account snapshot row is committed
  positions,   \* committed broker_position_snapshot rows with quantity > 0
  run,         \* per session: the committed status of its source_run row
  clock,       \* utc_now(), advancing whenever a sync takes the time
  reader       \* per request: what it has read so far, and its result

snapshotVars == <<book, sync, accounts, positions, run, clock, reader>>

Unused == [pc |-> "unused", account |-> FALSE, moment |-> 0, kept |-> {},
           began |-> 0, snapshot_at |-> 0, stored_at |-> 0]
Arriving == [pc |-> "new", asked |-> 0, from |-> NoSession, shown |-> {}]
PositionRows ==
  [session : Sessions \cup {NoSession}, ticker : BrokerTickers, moment : Nat, snapshot_at : Nat]

SnapshotsInit ==
  /\ \E held \in SUBSET BrokerTickers : book = <<held>>
  /\ sync = [s \in Sessions |-> Unused]
  /\ accounts = {}
  /\ \E legacy \in SUBSET BrokerTickers :
       positions = [session : {NoSession}, ticker : legacy, moment : {0},
                    snapshot_at : {0}]
  /\ run = [s \in Sessions |-> "none"]
  /\ clock = 0
  /\ reader = [r \in Requests |-> Arriving]

-------------------------------------------------------------------------------
(* The broker (external): a position is opened or closed.                  *)

Trade ==
  /\ Len(book) <= MaxTrades
  /\ \E held \in SUBSET BrokerTickers \ {book[Len(book)]} : book' = Append(book, held)
  /\ UNCHANGED <<sync, accounts, positions, run, clock, reader>>

-------------------------------------------------------------------------------
(* One sync.                                                               *)

\* The id is drawn, the source_run row is added but not committed, and the
\* account is fetched: should that fail, there is no account row and the sync
\* goes on.
Start(s) ==
  /\ sync[s].pc = "unused"
  /\ clock' = clock + 1
  /\ \E ok \in BOOLEAN :
       sync' = [sync EXCEPT ![s] = [Unused EXCEPT !.pc = "started",
                                      !.account = ok, !.began = clock + 1]]
  /\ UNCHANGED <<book, accounts, positions, run, reader>>

FetchPositionsBug(s) ==     \* a failed call leaves -1 for the moment
  /\ sync[s].pc = "started"
  /\ sync' = [sync EXCEPT ![s].pc = "fetched", ![s].moment = -1]
  /\ UNCHANGED <<book, accounts, positions, run, clock, reader>>

\* The positions are fetched and turned into rows one by one; an entry that
\* cannot be normalised ends the loop, and the rows before it stay.  A failed
\* call leaves none.  The orders, fetched next, touch nothing here.
FetchPositions(s) ==
  /\ sync[s].pc = "started"
  /\ \E kept \in SUBSET book[Len(book)] :
       sync' = [sync EXCEPT ![s].pc = "fetched", ![s].moment = Len(book),
                            ![s].kept = kept]
  /\ UNCHANGED <<book, accounts, positions, run, clock, reader>>

\* commit() flushes first: the column default stamps the rows.
Flush(s) ==
  /\ sync[s].pc = "fetched"
  /\ clock' = clock + 1
  /\ sync' = [sync EXCEPT ![s].pc = "flushed", ![s].snapshot_at = clock + 1]
  /\ UNCHANGED <<book, accounts, positions, run, reader>>

Committed(s) == sync[s].stored_at # 0

RowsOf(s) == [session : {s}, ticker : sync[s].kept, moment : {sync[s].moment},
              snapshot_at : {sync[s].snapshot_at}]

StoreBug(s) ==              \* every row is committed on its own
  /\ sync[s].pc = "flushed"
  /\ clock' = clock + 1
  /\ \E p \in RowsOf(s) \ positions :
       /\ positions' = positions \cup {p}
       /\ sync' = IF RowsOf(s) \subseteq positions'
                  THEN [sync EXCEPT ![s].pc = "stored", ![s].stored_at = clock + 1]
                  ELSE sync
  /\ UNCHANGED <<book, accounts, run, reader>>

\* The first commit: every row of the sync, and its source_run as "running".
Store(s) ==
  /\ sync[s].pc = "flushed"
  /\ clock' = clock + 1
  /\ sync' = [sync EXCEPT ![s].pc = "stored", ![s].stored_at = clock + 1]
  /\ accounts' = IF sync[s].account THEN accounts \cup {s} ELSE accounts
  /\ positions' = positions \cup RowsOf(s)
  /\ run' = [run EXCEPT ![s] = "running"]
  /\ UNCHANGED <<book, reader>>

FinishBug(s) ==             \* the status goes out with an earlier commit
  /\ sync[s].pc \in {"flushed", "stored"}
  /\ sync' = [sync EXCEPT ![s].pc = "done"]
  /\ run' = [run EXCEPT ![s] = "success"]
  /\ UNCHANGED <<book, accounts, positions, clock, reader>>

\* The second commit, whatever the errors counted on the way.
Finish(s) ==
  /\ sync[s].pc = "stored"
  /\ sync' = [sync EXCEPT ![s].pc = "done"]
  /\ run' = [run EXCEPT ![s] = "success"]
  /\ UNCHANGED <<book, accounts, positions, clock, reader>>

\* The job is killed, or a commit fails: what is not committed is rolled back.
\* The except branch commits on a session that needs a rollback first, raises
\* again, and so never records "failed".
DieSync(s) ==
  /\ sync[s].pc \notin {"unused", "done", "dead"}
  /\ sync' = [sync EXCEPT ![s] = IF Committed(s) THEN [sync[s] EXCEPT !.pc = "dead"]
                                 ELSE [Unused EXCEPT !.pc = "dead"]]
  /\ UNCHANGED <<book, accounts, positions, run, clock, reader>>

-------------------------------------------------------------------------------
(* The readers.                                                            *)

Sessioned == {p \in positions : p.session # NoSession}

LatestBug == IF Sessioned = {} THEN {NoSession}     \* ORDER BY without DESC
             ELSE {p.session : p \in {q \in Sessioned : \A o \in Sessioned :
                                        q.snapshot_at <= o.snapshot_at}}

\* ORDER BY snapshot_at DESC LIMIT 1 over the rows that have a session.
Latest == IF Sessioned = {} THEN {NoSession}
          ELSE {p.session : p \in {q \in Sessioned : \A o \in Sessioned :
                                     q.snapshot_at >= o.snapshot_at}}

TakeSession(r) ==
  /\ reader[r].pc = "new"
  /\ \E s \in Latest :
       reader' = [reader EXCEPT ![r] = [Arriving EXCEPT !.pc = "reading",
                                          !.asked = clock, !.from = s]]
  /\ UNCHANGED <<book, sync, accounts, positions, run, clock>>

HoldingsBug(s) == positions    \* the legacy query for everybody

\* With a session, its rows; without one, the latest row of every ticker ever
\* held, which for the set of tickers is every ticker that has a row.
Holdings(s) == {p \in positions : s \in {NoSession, p.session}}

TakeRows(r) ==
  /\ reader[r].pc = "reading"
  /\ reader' = [reader EXCEPT ![r].pc = "answered",
                              ![r].shown = Holdings(reader[r].from)]
  /\ UNCHANGED <<book, sync, accounts, positions, run, clock>>

SnapshotsNext ==
  \/ Trade
  \/ \E s \in Sessions : Start(s) \/ FetchPositions(s) \/ Flush(s) \/ Store(s)
                         \/ Finish(s) \/ DieSync(s)
  \/ \E r \in Requests : TakeSession(r) \/ TakeRows(r)

SnapshotsSpec == SnapshotsInit /\ [][SnapshotsNext]_snapshotVars

-------------------------------------------------------------------------------
SnapshotsTypeOK ==
  /\ book \in Seq(SUBSET BrokerTickers)
  /\ sync \in [Sessions ->
       [pc : {"unused", "started", "fetched", "flushed", "stored", "done", "dead"},
        account : BOOLEAN, moment : Nat, kept : SUBSET BrokerTickers, began : Nat,
        snapshot_at : Nat, stored_at : Nat]]
  /\ accounts \subseteq Sessions
  /\ positions \subseteq PositionRows
  /\ run \in [Sessions -> {"none", "running", "success"}]
  /\ clock \in Nat
  /\ reader \in [Requests ->
       [pc : {"new", "reading", "answered"}, asked : Nat,
        from : Sessions \cup {NoSession}, shown : SUBSET PositionRows]]

(* What a reader gets through a session id was held together: every row is *)
(* of one fetch, and the broker's book of that moment holds all of them    *)
(* (get_portfolio_summary: "only positions from the most recent            *)
(* sync_session_id").                                                      *)
HeldTogether ==
  \A r \in Requests : reader[r].from # NoSession =>
    \A p \in reader[r].shown :
      /\ p.moment = sync[reader[r].from].moment
      /\ p.moment \in DOMAIN book /\ p.ticker \in book[p.moment]

(* No reader sees part of a sync: whatever commits between its two         *)
(* queries, it gets all the rows the session's sync kept.                  *)
WholeSync ==
  \A r \in Requests : reader[r].from # NoSession /\ reader[r].pc = "answered" =>
    {p.ticker : p \in reader[r].shown} = sync[reader[r].from].kept

\* u began after s was stored, and was stored before reader r asked.
Newer(u, s, r) ==
  /\ Committed(u) /\ sync[u].stored_at <= reader[r].asked
  /\ s # NoSession => sync[s].stored_at < sync[u].began

(* A sync that kept at least one position supersedes, for everybody who    *)
(* asks afterwards, each sync that was over when it began.                 *)
Supersedes ==
  \A r \in Requests, u \in Sessions :
    Newer(u, reader[r].from, r) => sync[u].kept = {}

(* A run recorded as a success has its rows in the tables, wherever the    *)
(* process died: the rows are committed before the status is.              *)
SuccessIsStored ==
  \A s \in Sessions : run[s] = "success" =>
    /\ RowsOf(s) \subseteq positions
    /\ sync[s].account => s \in accounts

(* docs/t212-near-real-time-broker-truth-plan.md: a closed-out ticker      *)
(* "drops out of the dashboard view as soon as the next sync runs".  A     *)
(* sync that got every position the broker held, and was over before the   *)
(* request came, leaves no other ticker to be shown.                       *)
ClosedDropOut ==
  \A r \in Requests, u \in Sessions :
    /\ reader[r].from # NoSession
    /\ Newer(u, reader[r].from, r)
    /\ run[u] = "success" /\ sync[u].kept = book[sync[u].moment]
    => {p.ticker : p \in reader[r].shown} \subseteq sync[u].kept
===============================================================================
