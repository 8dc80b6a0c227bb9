------------------------ MODULE BrokerSnapshotsProofs ------------------------
(***************************************************************************)
(* What BrokerSnapshots guarantees for every set of tickers, syncs and     *)
(* readers, however they overlap.                                          *)
(***************************************************************************)
EXTENDS BrokerSnapshots, TLAPS

USE DEF Committed

SyncRecords ==
  [pc : {"unused", "started", "fetched", "flushed", "stored", "done", "dead"},
   account : BOOLEAN, moment : Nat, kept : SUBSET BrokerTickers, began : Nat,
   snapshot_at : Nat, stored_at : Nat]

\* The book is never empty, so that it has a last moment.
Typed == SnapshotsTypeOK /\ Len(book) >= 1

\* How far a sync has come, and the order of its three timestamps.
Course(s) ==
  /\ Committed(s) => sync[s].pc \in {"stored", "done", "dead"}
  /\ sync[s].pc \in {"stored", "done"} => Committed(s)
  /\ sync[s].began <= clock
  /\ sync[s].pc \in {"fetched", "flushed"} \/ Committed(s) =>
       /\ sync[s].moment \in 1 .. Len(book)
       /\ sync[s].kept \subseteq book[sync[s].moment]
  /\ sync[s].pc = "flushed" \/ Committed(s) =>
       sync[s].began < sync[s].snapshot_at /\ sync[s].snapshot_at <= clock
  /\ Committed(s) =>
       sync[s].snapshot_at < sync[s].stored_at /\ sync[s].stored_at <= clock

\* What is in the tables is what the committed syncs wrote.
Tables ==
  /\ \A s \in Sessions : Committed(s) =>
       RowsOf(s) \subseteq positions /\ (sync[s].account => s \in accounts)
  /\ \A p \in positions : p.session # NoSession =>
       Committed(p.session) /\ p \in RowsOf(p.session)
  /\ \A s \in Sessions : run[s] = "success" => Committed(s)

\* What a request has read: its session was committed, is not outranked by
\* another one committed when it asked, and its rows are the session's.
Reading(r) ==
  /\ reader[r].asked <= clock
  /\ reader[r].pc = "new" => reader[r].asked = 0 /\ reader[r].from = NoSession
  /\ reader[r].from # NoSession =>
       /\ Committed(reader[r].from)
       /\ reader[r].shown \subseteq RowsOf(reader[r].from)
       /\ reader[r].pc = "answered" =>
            reader[r].shown = RowsOf(reader[r].from)
  /\ \A u \in Sessions :
       Committed(u) /\ sync[u].stored_at <= reader[r].asked
         /\ sync[u].kept # {}
       => /\ reader[r].from # NoSession
          /\ sync[u].snapshot_at <= sync[reader[r].from].snapshot_at

Inv == /\ Typed /\ Tables
       /\ \A s \in Sessions : Course(s)
       /\ \A r \in Requests : Reading(r)

-----------------------------------------------------------------------------
(* Types.                                                                  *)

LEMMA UnusedType == Unused \in SyncRecords
  BY DEF Unused, SyncRecords

ReadRecords == [pc : {"new", "reading", "answered"}, asked : Nat,
                from : Sessions \cup {NoSession}, shown : SUBSET PositionRows]

\* The records the actions build.
LEMMA SyncUpdates ==
  ASSUME NEW x \in SyncRecords, NEW n \in Nat, NEW K \in SUBSET BrokerTickers
  PROVE  /\ [x EXCEPT !.pc = "fetched", !.moment = n, !.kept = K] \in SyncRecords
         /\ [x EXCEPT !.pc = "flushed", !.snapshot_at = n] \in SyncRecords
         /\ [x EXCEPT !.pc = "stored", !.stored_at = n] \in SyncRecords
         /\ [x EXCEPT !.pc = "done"] \in SyncRecords
         /\ [x EXCEPT !.pc = "dead"] \in SyncRecords
  BY DEF SyncRecords

LEMMA ReadUpdates ==
  ASSUME NEW x \in ReadRecords, NEW n \in Nat,
         NEW s \in Sessions \cup {NoSession}, NEW S \in SUBSET PositionRows
  PROVE  /\ [x EXCEPT !.pc = "reading", !.asked = n, !.from = s] \in ReadRecords
         /\ [x EXCEPT !.pc = "answered", !.shown = S] \in ReadRecords
         /\ Arriving \in ReadRecords
  BY DEF ReadRecords, Arriving

LEMMA RowsType ==
  ASSUME Typed, NEW s \in Sessions
  PROVE  RowsOf(s) \subseteq PositionRows
  BY DEF Typed, SnapshotsTypeOK, RowsOf, PositionRows

LEMMA LatestType == Typed => Latest \subseteq Sessions \cup {NoSession}
  BY DEF Typed, SnapshotsTypeOK, Latest, Sessioned, PositionRows

LEMMA InitTyped == SnapshotsInit => Typed
  <1> SUFFICES ASSUME SnapshotsInit PROVE Typed
    OBVIOUS
  <1>1. PICK held \in SUBSET BrokerTickers : book = <<held>>
    BY DEF SnapshotsInit
  <1>2. book \in Seq(SUBSET BrokerTickers) /\ Len(book) = 1
    BY <1>1
  <1>3. PICK legacy \in SUBSET BrokerTickers :
          positions = [session : {NoSession}, ticker : legacy, moment : {0},
                       snapshot_at : {0}]
    BY DEF SnapshotsInit
  <1>4. positions \subseteq PositionRows
    BY <1>3 DEF PositionRows
  <1>5. sync \in [Sessions -> SyncRecords]
    BY UnusedType DEF SnapshotsInit
  <1>6. reader \in [Requests ->
          [pc : {"new", "reading", "answered"}, asked : Nat,
           from : Sessions \cup {NoSession}, shown : SUBSET PositionRows]]
    BY DEF SnapshotsInit, Arriving
  <1> QED
    BY <1>2, <1>4, <1>5, <1>6 DEF SnapshotsInit, Typed, SnapshotsTypeOK, SyncRecords

LEMMA StepTyped == Typed /\ [SnapshotsNext]_snapshotVars => Typed'
  <1> SUFFICES ASSUME Typed, [SnapshotsNext]_snapshotVars PROVE Typed'
    OBVIOUS
  <1>0. sync \in [Sessions -> SyncRecords]
    BY DEF Typed, SnapshotsTypeOK, SyncRecords
  <1>00. reader \in [Requests -> ReadRecords]
    BY DEF Typed, SnapshotsTypeOK, ReadRecords
  <1>1. CASE Trade
    <2>1. PICK held \in SUBSET BrokerTickers : book' = Append(book, held)
      BY <1>1 DEF Trade
    <2>2. book' \in Seq(SUBSET BrokerTickers) /\ Len(book') >= 1
      BY <2>1 DEF Typed, SnapshotsTypeOK
    <2> QED
      BY <1>1, <2>2 DEF Trade, Typed, SnapshotsTypeOK
  <1>2. ASSUME NEW s \in Sessions, Start(s) PROVE Typed'
    <2>1. PICK ok \in BOOLEAN :
            sync' = [sync EXCEPT ![s] = [Unused EXCEPT !.pc = "started",
                                           !.account = ok, !.began = clock + 1]]
      BY <1>2 DEF Start
    <2>2. [Unused EXCEPT !.pc = "started", !.account = ok, !.began = clock + 1]
            \in SyncRecords
      <3>1. clock + 1 \in Nat
        BY DEF Typed, SnapshotsTypeOK
      <3> QED
        BY <3>1 DEF Unused, SyncRecords
    <2>3. sync' \in [Sessions -> SyncRecords]
      BY <1>0, <2>1, <2>2
    <2> QED
      BY <1>2, <2>3 DEF Start, Typed, SnapshotsTypeOK, SyncRecords
  <1>3. ASSUME NEW s \in Sessions, FetchPositions(s) PROVE Typed'
    <2>1. PICK kept \in SUBSET book[Len(book)] :
            sync' = [sync EXCEPT ![s].pc = "fetched", ![s].moment = Len(book),
                                 ![s].kept = kept]
      BY <1>3 DEF FetchPositions
    <2>2. kept \in SUBSET BrokerTickers /\ Len(book) \in Nat
      BY DEF Typed, SnapshotsTypeOK
    <2>3. sync' = [sync EXCEPT ![s] = [sync[s] EXCEPT
                     !.pc = "fetched", !.moment = Len(book), !.kept = kept]]
      BY <1>0, <2>1 DEF SyncRecords
    <2>4. sync' \in [Sessions -> SyncRecords]
      BY <1>0, <2>2, <2>3, SyncUpdates
    <2> QED
      BY <1>3, <2>4 DEF FetchPositions, Typed, SnapshotsTypeOK, SyncRecords
  <1>4. ASSUME NEW s \in Sessions, Flush(s) PROVE Typed'
    <2>0. clock + 1 \in Nat
      BY DEF Typed, SnapshotsTypeOK
    <2>1. sync' \in [Sessions -> SyncRecords]
      <3>1. sync' = [sync EXCEPT ![s] = [sync[s] EXCEPT
                       !.pc = "flushed", !.snapshot_at = clock + 1]]
        BY <1>0, <1>4 DEF Flush, SyncRecords
      <3> QED
        BY <1>0, <2>0, <3>1, SyncUpdates
    <2> QED
      BY <1>4, <2>0, <2>1 DEF Flush, Typed, SnapshotsTypeOK, SyncRecords
  <1>5. ASSUME NEW s \in Sessions, Store(s) PROVE Typed'
    <2>0. clock + 1 \in Nat
      BY DEF Typed, SnapshotsTypeOK
    <2>1. sync' \in [Sessions -> SyncRecords]
      <3>1. sync' = [sync EXCEPT ![s] = [sync[s] EXCEPT
                       !.pc = "stored", !.stored_at = clock + 1]]
        BY <1>0, <1>5 DEF Store, SyncRecords
      <3> QED
        BY <1>0, <2>0, <3>1, SyncUpdates
    <2>2. positions' \subseteq PositionRows
      BY <1>5, RowsType DEF Store, Typed, SnapshotsTypeOK
    <2> QED
      BY <1>5, <2>0, <2>1, <2>2 DEF Store, Typed, SnapshotsTypeOK, SyncRecords
  <1>6. ASSUME NEW s \in Sessions, Finish(s) PROVE Typed'
    <2>1. sync' \in [Sessions -> SyncRecords]
      BY <1>0, <1>6, SyncUpdates DEF Finish
    <2> QED
      BY <1>6, <2>1 DEF Finish, Typed, SnapshotsTypeOK, SyncRecords
  <1>7. ASSUME NEW s \in Sessions, DieSync(s) PROVE Typed'
    <2>1. sync' \in [Sessions -> SyncRecords]
      BY <1>0, <1>7, UnusedType, SyncUpdates DEF DieSync
    <2> QED
      BY <1>7, <2>1 DEF DieSync, Typed, SnapshotsTypeOK, SyncRecords
  <1>8. ASSUME NEW r \in Requests, TakeSession(r) PROVE Typed'
    <2>1. PICK s \in Latest :
            reader' = [reader EXCEPT ![r] = [Arriving EXCEPT !.pc = "reading",
                                               !.asked = clock, !.from = s]]
      BY <1>8 DEF TakeSession
    <2>2. s \in Sessions \cup {NoSession} /\ clock \in Nat
      BY LatestType DEF Typed, SnapshotsTypeOK
    <2>3. [Arriving EXCEPT !.pc = "reading", !.asked = clock, !.from = s]
            \in ReadRecords
      BY <2>2, ReadUpdates DEF ReadRecords, Arriving
    <2>4. reader' \in [Requests -> ReadRecords]
      BY <1>00, <2>1, <2>3
    <2> QED
      BY <1>8, <2>4 DEF TakeSession, Typed, SnapshotsTypeOK, ReadRecords
  <1>9. ASSUME NEW r \in Requests, TakeRows(r) PROVE Typed'
    <2>1. Holdings(reader[r].from) \in SUBSET PositionRows
      BY DEF Holdings, Typed, SnapshotsTypeOK
    <2> QED
      <3>1. reader' = [reader EXCEPT ![r] = [reader[r] EXCEPT
                         !.pc = "answered", !.shown = Holdings(reader[r].from)]]
        BY <1>00, <1>9 DEF TakeRows, ReadRecords
      <3>2. reader' \in [Requests -> ReadRecords]
        BY <1>00, <2>1, <3>1, ReadUpdates
      <3> QED
        BY <1>9, <3>2 DEF TakeRows, Typed, SnapshotsTypeOK, ReadRecords
  <1>10. CASE UNCHANGED snapshotVars
    BY <1>10 DEF snapshotVars, Typed, SnapshotsTypeOK
  <1> QED
    BY <1>1, <1>2, <1>3, <1>4, <1>5, <1>6, <1>7, <1>8, <1>9, <1>10 DEF SnapshotsNext

-----------------------------------------------------------------------------
(* The invariant holds at first.                                           *)

LEMMA InitInv == SnapshotsInit => Inv
  <1> SUFFICES ASSUME SnapshotsInit PROVE Inv
    OBVIOUS
  <1>1. \A s \in Sessions : sync[s] = Unused /\ run[s] = "none"
    BY DEF SnapshotsInit
  <1>2. \A s \in Sessions : Course(s)
    BY <1>1 DEF Course, Unused, SnapshotsInit
  <1>3. Tables
    BY <1>1 DEF Tables, Unused, SnapshotsInit
  <1>4. \A r \in Requests : Reading(r)
    BY <1>1 DEF Reading, Unused, Arriving, SnapshotsInit
  <1> QED
    BY <1>2, <1>3, <1>4, InitTyped DEF Inv

-----------------------------------------------------------------------------
(* What one step may do to a sync that is committed: nothing that shows.   *)

LEMMA CommittedStays ==
  ASSUME Inv, SnapshotsNext, NEW s \in Sessions, Committed(s)
  PROVE  /\ Committed(s)'
         /\ sync'[s].account = sync[s].account
         /\ sync'[s].moment = sync[s].moment
         /\ sync'[s].kept = sync[s].kept
         /\ sync'[s].began = sync[s].began
         /\ sync'[s].snapshot_at = sync[s].snapshot_at
         /\ sync'[s].stored_at = sync[s].stored_at
  <1>1. sync[s].pc \in {"stored", "done", "dead"} /\ sync[s] \in SyncRecords
    BY DEF Inv, Course, Typed, SnapshotsTypeOK, SyncRecords
  <1>2. ASSUME NEW x \in Sessions, Start(x) \/ FetchPositions(x) \/ Flush(x)
                                   \/ Store(x)
        PROVE  sync'[s] = sync[s]
    BY <1>1, <1>2 DEF Start, FetchPositions, Flush, Store, Inv, Typed, SnapshotsTypeOK
  <1>3. ASSUME NEW x \in Sessions, Finish(x)
        PROVE  \/ sync'[s] = sync[s]
               \/ sync'[s] = [sync[s] EXCEPT !.pc = "done"]
    BY <1>1, <1>3 DEF Finish, Inv, Typed, SnapshotsTypeOK
  <1>4. ASSUME NEW x \in Sessions, DieSync(x)
        PROVE  \/ sync'[s] = sync[s]
               \/ sync'[s] = [sync[s] EXCEPT !.pc = "dead"]
    BY <1>1, <1>4 DEF DieSync, Inv, Typed, SnapshotsTypeOK
  <1>5. CASE UNCHANGED sync
    BY <1>5
  <1>6. \/ sync'[s] = sync[s]
        \/ sync'[s] = [sync[s] EXCEPT !.pc = "done"]
        \/ sync'[s] = [sync[s] EXCEPT !.pc = "dead"]
    BY <1>2, <1>3, <1>4, <1>5 DEF SnapshotsNext, Trade, TakeSession, TakeRows
  <1> QED
    BY <1>1, <1>6 DEF SyncRecords

LEMMA CommittedRows ==
  ASSUME Inv, SnapshotsNext, NEW s \in Sessions, Committed(s)
  PROVE  RowsOf(s)' = RowsOf(s)
  BY CommittedStays DEF RowsOf

\* A sync that is committed by a step was committed before, or is the one
\* the step stores.
LEMMA NewlyCommitted ==
  ASSUME Inv, SnapshotsNext, NEW s \in Sessions, Committed(s)'
  PROVE  Committed(s) \/ Store(s)
  <1>1. sync[s] \in SyncRecords /\ sync \in [Sessions -> SyncRecords]
    BY DEF Inv, Typed, SnapshotsTypeOK, SyncRecords
  <1>2. ASSUME NEW x \in Sessions, Start(x) PROVE Committed(s)
    BY <1>1, <1>2 DEF Start, Unused
  <1>3. ASSUME NEW x \in Sessions, FetchPositions(x) \/ Flush(x) \/ Finish(x)
        PROVE  Committed(s)
    <2>1. sync'[s].stored_at = sync[s].stored_at
      <3>1. CASE x = s
        <4>1. CASE FetchPositions(s)
          BY <1>1, <4>1 DEF FetchPositions, SyncRecords
        <4>2. CASE Flush(s)
          BY <1>1, <4>2 DEF Flush, SyncRecords
        <4>3. CASE Finish(s)
          BY <1>1, <4>3 DEF Finish, SyncRecords
        <4> QED
          BY <1>3, <3>1, <4>1, <4>2, <4>3
      <3>2. CASE x # s
        BY <1>1, <1>3, <3>2 DEF FetchPositions, Flush, Finish
      <3> QED
        BY <3>1, <3>2
    <2> QED
      BY <2>1
  <1>4. ASSUME NEW x \in Sessions, Store(x) PROVE Committed(s) \/ Store(s)
    BY <1>1, <1>4 DEF Store
  <1>5. ASSUME NEW x \in Sessions, DieSync(x) PROVE Committed(s)
    BY <1>1, <1>5 DEF DieSync, Unused, SyncRecords
  <1>6. CASE UNCHANGED sync
    BY <1>6
  <1> QED
    BY <1>2, <1>3, <1>4, <1>5, <1>6 DEF SnapshotsNext, Trade, TakeSession, TakeRows

-----------------------------------------------------------------------------
(* The course of a sync.                                                   *)

LEMMA CourseStep ==
  ASSUME Inv, SnapshotsNext, Typed', NEW s \in Sessions
  PROVE  Course(s)'
  <1>0. /\ sync \in [Sessions -> SyncRecords] /\ sync[s] \in SyncRecords
        /\ sync'[s] \in SyncRecords /\ Course(s)
        /\ clock \in Nat /\ clock' \in Nat /\ Len(book) \in Nat
        /\ book \in Seq(SUBSET BrokerTickers) /\ Len(book) >= 1
    BY DEF Inv, Typed, SnapshotsTypeOK, SyncRecords
  <1>1. CASE Trade
    <2>1. PICK held \in SUBSET BrokerTickers : book' = Append(book, held)
      BY <1>1 DEF Trade
    <2>2. /\ Len(book') = Len(book) + 1
          /\ \A i \in 1 .. Len(book) : book'[i] = book[i]
      BY <1>0, <2>1
    <2> QED
      BY <1>0, <1>1, <2>2 DEF Trade, Course, SyncRecords
  <1>2. ASSUME NEW x \in Sessions, x # s,
               Start(x) \/ FetchPositions(x) \/ Flush(x) \/ Store(x)
                 \/ Finish(x) \/ DieSync(x)
        PROVE  Course(s)'
    <2>1. sync'[s] = sync[s]
      BY <1>0, <1>2 DEF Start, FetchPositions, Flush, Store, Finish, DieSync
    <2>2. book' = book /\ clock' \in {clock, clock + 1}
      BY <1>2 DEF Start, FetchPositions, Flush, Store, Finish, DieSync
    <2>3. clock' >= clock
      BY <1>0, <2>2
    <2> QED
      BY <1>0, <2>1, <2>2, <2>3 DEF Course, SyncRecords
  <1>3. CASE Start(s)
    <2>1. PICK ok \in BOOLEAN :
            sync'[s] = [Unused EXCEPT !.pc = "started", !.account = ok,
                                      !.began = clock + 1]
      BY <1>0, <1>3 DEF Start
    <2>2. /\ sync'[s].pc = "started" /\ sync'[s].began = clock + 1
          /\ sync'[s].stored_at = 0
      BY <2>1 DEF Unused
    <2>3. clock' = clock + 1
      BY <1>3 DEF Start
    <2>4. ~Committed(s)'
      BY <2>2
    <2> QED
      BY <1>0, <2>2, <2>3, <2>4 DEF Course
  <1>4. CASE FetchPositions(s)
    <2>1. PICK kept \in SUBSET book[Len(book)] :
            sync' = [sync EXCEPT ![s].pc = "fetched", ![s].moment = Len(book),
                                 ![s].kept = kept]
      BY <1>4 DEF FetchPositions
    <2>2. /\ sync'[s].pc = "fetched" /\ sync'[s].began = sync[s].began
          /\ sync'[s].moment = Len(book) /\ sync'[s].kept = kept
          /\ sync'[s].stored_at = sync[s].stored_at
      BY <1>0, <2>1 DEF SyncRecords
    <2>3. ~Committed(s)
      BY <1>0, <1>4 DEF FetchPositions, Course
    <2> QED
      BY <1>0, <1>4, <2>2, <2>3 DEF FetchPositions, Course
  <1>5. CASE Flush(s)
    <2>1. /\ sync'[s].pc = "flushed" /\ sync'[s].began = sync[s].began
          /\ sync'[s].moment = sync[s].moment /\ sync'[s].kept = sync[s].kept
          /\ sync'[s].snapshot_at = clock + 1
          /\ sync'[s].stored_at = sync[s].stored_at
      BY <1>0, <1>5 DEF Flush, SyncRecords
    <2>2. ~Committed(s)
      BY <1>0, <1>5 DEF Flush, Course
    <2> QED
      BY <1>0, <1>5, <2>1, <2>2 DEF Flush, Course, SyncRecords
  <1>6. CASE Store(s)
    <2>1. /\ sync'[s].pc = "stored" /\ sync'[s].began = sync[s].began
          /\ sync'[s].moment = sync[s].moment /\ sync'[s].kept = sync[s].kept
          /\ sync'[s].snapshot_at = sync[s].snapshot_at
          /\ sync'[s].stored_at = clock + 1
      BY <1>0, <1>6 DEF Store, SyncRecords
    <2> QED
      BY <1>0, <1>6, <2>1 DEF Store, Course, SyncRecords
  <1>7. CASE Finish(s)
    <2>1. /\ sync'[s].pc = "done" /\ sync'[s].began = sync[s].began
          /\ sync'[s].moment = sync[s].moment /\ sync'[s].kept = sync[s].kept
          /\ sync'[s].snapshot_at = sync[s].snapshot_at
          /\ sync'[s].stored_at = sync[s].stored_at
      BY <1>0, <1>7 DEF Finish, SyncRecords
    <2> QED
      BY <1>0, <1>7, <2>1 DEF Finish, Course
  <1>8. CASE DieSync(s)
    <2>1. CASE Committed(s)
      <3>1. /\ sync'[s].pc = "dead" /\ sync'[s].began = sync[s].began
            /\ sync'[s].moment = sync[s].moment /\ sync'[s].kept = sync[s].kept
            /\ sync'[s].snapshot_at = sync[s].snapshot_at
            /\ sync'[s].stored_at = sync[s].stored_at
        BY <1>0, <1>8, <2>1 DEF DieSync, SyncRecords
      <3> QED
        BY <1>0, <1>8, <3>1 DEF DieSync, Course
    <2>2. CASE ~Committed(s)
      <3>1. /\ sync'[s].pc = "dead" /\ sync'[s].began = 0
            /\ sync'[s].stored_at = 0
        BY <1>0, <1>8, <2>2 DEF DieSync, Unused
      <3> QED
        BY <1>0, <1>8, <3>1 DEF DieSync, Course
    <2> QED
      BY <2>1, <2>2
  <1>9. ASSUME NEW r \in Requests, TakeSession(r) \/ TakeRows(r)
        PROVE  Course(s)'
    BY <1>0, <1>9 DEF TakeSession, TakeRows, Course
  <1> QED
    BY <1>1, <1>2, <1>3, <1>4, <1>5, <1>6, <1>7, <1>8, <1>9 DEF SnapshotsNext

-----------------------------------------------------------------------------
(* The tables.                                                             *)

LEMMA TablesGrow ==
  ASSUME SnapshotsNext
  PROVE  /\ positions \subseteq positions' /\ accounts \subseteq accounts'
         /\ \A p \in positions' \ positions :
              \E x \in Sessions : Store(x) /\ p \in RowsOf(x)
  BY DEF SnapshotsNext, Trade, Start, FetchPositions, Flush, Store, Finish, DieSync,
         TakeSession, TakeRows

LEMMA StoredRows ==
  ASSUME Inv, NEW s \in Sessions, Store(s)
  PROVE  /\ Committed(s)' /\ RowsOf(s)' = RowsOf(s)
         /\ sync'[s].account = sync[s].account
         /\ sync'[s].stored_at = clock + 1
  <1>1. sync \in [Sessions -> SyncRecords] /\ clock \in Nat
    BY DEF Inv, Typed, SnapshotsTypeOK, SyncRecords
  <1>2. /\ sync'[s].moment = sync[s].moment /\ sync'[s].kept = sync[s].kept
        /\ sync'[s].snapshot_at = sync[s].snapshot_at
        /\ sync'[s].account = sync[s].account
        /\ sync'[s].stored_at = clock + 1
    BY <1>1 DEF Store, SyncRecords
  <1> QED
    BY <1>1, <1>2 DEF RowsOf

LEMMA TablesStep == Inv /\ SnapshotsNext => Tables'
  <1> SUFFICES ASSUME Inv, SnapshotsNext PROVE Tables'
    OBVIOUS
  <1>1. ASSUME NEW s \in Sessions, Committed(s)'
        PROVE  /\ RowsOf(s)' \subseteq positions'
               /\ sync'[s].account => s \in accounts'
    <2>1. CASE Committed(s)
      BY <2>1, CommittedStays, CommittedRows, TablesGrow DEF Inv, Tables
    <2>2. CASE Store(s)
      BY <2>2, StoredRows DEF Store
    <2> QED
      BY <1>1, <2>1, <2>2, NewlyCommitted
  <1>2. ASSUME NEW p \in positions', p.session # NoSession
        PROVE  p.session \in Sessions /\ Committed(p.session)'
               /\ p \in RowsOf(p.session)'
    <2>1. CASE p \in positions
      <3>1. /\ p.session \in Sessions /\ Committed(p.session)
            /\ p \in RowsOf(p.session)
        BY <1>2, <2>1 DEF Inv, Tables, Typed, SnapshotsTypeOK, PositionRows
      <3> QED
        BY <3>1, CommittedStays, CommittedRows
    <2>2. CASE p \notin positions
      <3>1. PICK x \in Sessions : Store(x) /\ p \in RowsOf(x)
        BY <1>2, <2>2, TablesGrow
      <3>2. p.session = x
        BY <3>1 DEF RowsOf
      <3> QED
        BY <3>1, <3>2, StoredRows
    <2> QED
      BY <2>1, <2>2
  <1>3. ASSUME NEW s \in Sessions, run'[s] = "success" PROVE Committed(s)'
    <2>1. CASE run[s] = "success"
      BY <2>1, CommittedStays DEF Inv, Tables
    <2>2. CASE run[s] # "success"
      <3>1. Finish(s)
        BY <1>3, <2>2 DEF SnapshotsNext, Trade, Start, FetchPositions, Flush, Store,
                          Finish, DieSync, TakeSession, TakeRows, Inv, Typed, SnapshotsTypeOK
      <3> QED
        BY <3>1, CommittedStays DEF Finish, Inv, Course
    <2> QED
      BY <2>1, <2>2
  <1> QED
    BY <1>1, <1>2, <1>3 DEF Tables

-----------------------------------------------------------------------------
(* The readers.                                                            *)

LEMMA RowWitness ==
  ASSUME Inv, NEW u \in Sessions, Committed(u), sync[u].kept # {}
  PROVE  \E o \in Sessioned : o.snapshot_at = sync[u].snapshot_at
  <1>1. PICK t \in sync[u].kept : TRUE
    OBVIOUS
  <1> DEFINE o == [session |-> u, ticker |-> t, moment |-> sync[u].moment,
                   snapshot_at |-> sync[u].snapshot_at]
  <1>2. o \in RowsOf(u)
    BY <1>1 DEF RowsOf
  <1>3. o \in positions
    BY <1>2 DEF Inv, Tables
  <1>4. o \in Sessioned
    BY <1>3, SnapshotsAssumption DEF Sessioned
  <1> QED
    BY <1>4

\* The session a request picks is committed, and none outranks it.
LEMMA LatestRanks ==
  ASSUME Inv, NEW s \in Latest
  PROVE  /\ s # NoSession => s \in Sessions /\ Committed(s)
         /\ \A u \in Sessions : Committed(u) /\ sync[u].kept # {} =>
              s # NoSession /\ sync[u].snapshot_at <= sync[s].snapshot_at
  <1>1. CASE Sessioned = {}
    <2>1. s = NoSession
      BY <1>1 DEF Latest
    <2> QED
      BY <1>1, <2>1, RowWitness
  <1>2. CASE Sessioned # {}
    <2>1. PICK p \in Sessioned :
            s = p.session /\ \A o \in Sessioned : p.snapshot_at >= o.snapshot_at
      BY <1>2 DEF Latest
    <2>2. /\ s # NoSession /\ s \in Sessions /\ Committed(s)
          /\ p \in RowsOf(s)
      BY <2>1 DEF Sessioned, Inv, Tables, Typed, SnapshotsTypeOK, PositionRows
    <2>3. p.snapshot_at = sync[s].snapshot_at
      BY <2>2 DEF RowsOf
    <2>4. ASSUME NEW u \in Sessions, Committed(u), sync[u].kept # {}
          PROVE  sync[u].snapshot_at <= sync[s].snapshot_at
      <3>1. PICK o \in Sessioned : o.snapshot_at = sync[u].snapshot_at
        BY <2>4, RowWitness
      <3>2. p.snapshot_at >= o.snapshot_at
        BY <2>1
      <3>3. sync[u].snapshot_at \in Nat /\ sync[s].snapshot_at \in Nat
        BY <2>2 DEF Inv, Typed, SnapshotsTypeOK
      <3> QED
        BY <2>3, <3>1, <3>2, <3>3
    <2> QED
      BY <2>2, <2>4
  <1> QED
    BY <1>1, <1>2

LEMMA SessionHoldings ==
  ASSUME Inv, NEW s \in Sessions, Committed(s)
  PROVE  Holdings(s) = RowsOf(s)
  <1>1. s # NoSession
    BY SnapshotsAssumption
  <1>2. Holdings(s) = {p \in positions : p.session = s}
    BY <1>1 DEF Holdings
  <1>3. \A p \in RowsOf(s) : p.session = s /\ p \in positions
    BY DEF RowsOf, Inv, Tables
  <1>4. \A p \in positions : p.session = s => p \in RowsOf(s)
    BY <1>1 DEF Inv, Tables
  <1> QED
    BY <1>2, <1>3, <1>4

LEMMA ReadingStep ==
  ASSUME Inv, SnapshotsNext, Typed', NEW r \in Requests
  PROVE  Reading(r)'
  <1>0. /\ reader \in [Requests -> ReadRecords] /\ reader[r] \in ReadRecords
        /\ sync \in [Sessions -> SyncRecords] /\ clock \in Nat /\ Reading(r)
        /\ clock' \in Nat /\ sync' \in [Sessions -> SyncRecords]
    BY DEF Inv, Typed, SnapshotsTypeOK, ReadRecords, SyncRecords
  <1>1. CASE reader'[r] = reader[r]
    <2>1. clock' \in {clock, clock + 1}
      BY DEF SnapshotsNext, Trade, Start, FetchPositions, Flush, Store, Finish, DieSync,
             TakeSession, TakeRows
    <2>2. reader[r].asked \in Nat /\ reader[r].asked <= clock'
      BY <1>0, <2>1 DEF Reading, ReadRecords
    <2>3. ASSUME reader[r].from # NoSession
          PROVE  /\ reader[r].from \in Sessions /\ Committed(reader[r].from)
                 /\ Committed(reader[r].from)'
                 /\ RowsOf(reader[r].from)' = RowsOf(reader[r].from)
                 /\ sync'[reader[r].from].snapshot_at =
                      sync[reader[r].from].snapshot_at
      <3>1. reader[r].from \in Sessions /\ Committed(reader[r].from)
        BY <1>0, <2>3 DEF Reading, ReadRecords
      <3>2. PICK s \in Sessions : s = reader[r].from
        BY <3>1
      <3>3. /\ Committed(s) /\ Committed(s)' /\ RowsOf(s)' = RowsOf(s)
            /\ sync'[s].snapshot_at = sync[s].snapshot_at
        BY <3>1, <3>2, CommittedStays, CommittedRows
      <3>4. reader'[r].from = s
        BY <1>1, <3>2
      <3> QED
        BY <3>1, <3>2, <3>3, <3>4 DEF RowsOf
    <2>4. ASSUME NEW u \in Sessions, Committed(u)',
                 sync'[u].stored_at <= reader[r].asked, sync'[u].kept # {}
          PROVE  /\ reader[r].from # NoSession
                 /\ sync'[u].snapshot_at <= sync'[reader[r].from].snapshot_at
      <3>1. ~Store(u)
        <4>1. Store(u) => sync'[u].stored_at = clock + 1
          BY StoredRows
        <4>2. reader[r].asked \in Nat /\ reader[r].asked <= clock
          BY <1>0 DEF Reading, ReadRecords
        <4> QED
          BY <1>0, <2>4, <4>1, <4>2
      <3>2. Committed(u)
        BY <2>4, <3>1, NewlyCommitted
      <3>3. /\ sync[u].stored_at <= reader[r].asked /\ sync[u].kept # {}
            /\ sync'[u].snapshot_at = sync[u].snapshot_at
        BY <2>4, <3>2, CommittedStays
      <3>4. /\ reader[r].from # NoSession
            /\ sync[u].snapshot_at <= sync[reader[r].from].snapshot_at
        BY <1>0, <3>2, <3>3 DEF Reading
      <3> QED
        BY <2>3, <3>3, <3>4
    <2> QED
      BY <1>0, <1>1, <2>2, <2>3, <2>4 DEF Reading
  <1>2. CASE TakeSession(r)
    <2>1. PICK s \in Latest :
            reader' = [reader EXCEPT ![r] = [Arriving EXCEPT !.pc = "reading",
                                               !.asked = clock, !.from = s]]
      BY <1>2 DEF TakeSession
    <2>2. /\ reader'[r].pc = "reading" /\ reader'[r].asked = clock
          /\ reader'[r].from = s /\ reader'[r].shown = {}
      BY <1>0, <2>1 DEF Arriving
    <2>3. sync' = sync /\ clock' = clock
      BY <1>2 DEF TakeSession
    <2> QED
      BY <1>0, <2>2, <2>3, LatestRanks DEF Reading
  <1>3. CASE TakeRows(r)
    <2>1. /\ reader[r].pc = "reading" /\ reader'[r].pc = "answered"
          /\ reader'[r].asked = reader[r].asked
          /\ reader'[r].from = reader[r].from
          /\ reader'[r].shown = Holdings(reader[r].from)
      BY <1>0, <1>3 DEF TakeRows, ReadRecords
    <2>2. sync' = sync /\ clock' = clock
      BY <1>3 DEF TakeRows
    <2>3. ASSUME reader[r].from # NoSession
          PROVE  /\ Committed(reader[r].from)
                 /\ Holdings(reader[r].from) = RowsOf(reader[r].from)
      <3>1. reader[r].from \in Sessions /\ Committed(reader[r].from)
        BY <1>0, <2>3 DEF Reading, ReadRecords
      <3> QED
        BY <3>1, SessionHoldings
    <2>4. \A x : RowsOf(x)' = RowsOf(x)
      BY <2>2 DEF RowsOf
    <2> QED
      BY <1>0, <2>1, <2>2, <2>3, <2>4 DEF Reading
  <1> QED
    BY <1>0, <1>1, <1>2, <1>3
       DEF SnapshotsNext, Trade, Start, FetchPositions, Flush, Store, Finish, DieSync,
           TakeSession, TakeRows

-----------------------------------------------------------------------------
LEMMA StepInv == Inv /\ [SnapshotsNext]_snapshotVars => Inv'
  <1> SUFFICES ASSUME Inv, [SnapshotsNext]_snapshotVars PROVE Inv'
    OBVIOUS
  <1>1. Typed'
    BY StepTyped DEF Inv
  <1>2. CASE SnapshotsNext
    BY <1>1, <1>2, CourseStep, TablesStep, ReadingStep DEF Inv
  <1>3. CASE UNCHANGED snapshotVars
    <2>1. /\ \A s : Course(s)' = Course(s) /\ RowsOf(s)' = RowsOf(s)
      BY <1>3 DEF snapshotVars, Course, RowsOf
    <2>2. \A r : Reading(r)' = Reading(r)
      BY <1>3 DEF snapshotVars, Reading, RowsOf
    <2>3. Tables' = Tables
      BY <1>3 DEF snapshotVars, Tables, RowsOf
    <2> QED
      BY <1>1, <2>1, <2>2, <2>3 DEF Inv
  <1> QED
    BY <1>2, <1>3

LEMMA SpecInv == SnapshotsSpec => []Inv
  BY InitInv, StepInv, PTL DEF SnapshotsSpec

(* Every reachable state is well typed.                                    *)
THEOREM TypeCorrect == SnapshotsSpec => []SnapshotsTypeOK
  <1>1. Inv => SnapshotsTypeOK
    BY DEF Inv, Typed
  <1> QED
    BY <1>1, SpecInv, PTL

(* A run recorded as a success has its rows committed, whatever the        *)
(* process does between its two commits.                                   *)
THEOREM SuccessStored == SnapshotsSpec => []SuccessIsStored
  <1>1. Inv => SuccessIsStored
    BY DEF Inv, Tables, SuccessIsStored
  <1> QED
    BY <1>1, SpecInv, PTL

(* Rows read through a session id are of one fetch and were held together. *)
THEOREM ReadsOneFetch == SnapshotsSpec => []HeldTogether
  <1>1. ASSUME Inv PROVE HeldTogether
    <2>1. SUFFICES ASSUME NEW r \in Requests, reader[r].from # NoSession,
                          NEW p \in reader[r].shown
                   PROVE  /\ p.moment = sync[reader[r].from].moment
                          /\ p.moment \in DOMAIN book
                          /\ p.ticker \in book[p.moment]
      BY DEF HeldTogether
    <2>2. /\ reader[r].from \in Sessions /\ Committed(reader[r].from)
          /\ p \in RowsOf(reader[r].from)
      BY <1>1, <2>1 DEF Inv, Reading, Typed, SnapshotsTypeOK
    <2>3. /\ p.moment = sync[reader[r].from].moment
          /\ p.ticker \in sync[reader[r].from].kept
      BY <2>2 DEF RowsOf
    <2>4. /\ sync[reader[r].from].moment \in 1 .. Len(book)
          /\ sync[reader[r].from].kept \subseteq
               book[sync[reader[r].from].moment]
      BY <1>1, <2>2 DEF Inv, Course
    <2>5. DOMAIN book = 1 .. Len(book)
      BY <1>1 DEF Inv, Typed, SnapshotsTypeOK
    <2> QED
      BY <2>3, <2>4, <2>5
  <1> QED
    BY <1>1, SpecInv, PTL

(* No reader sees part of a sync.                                          *)
THEOREM ReadsWholeSync == SnapshotsSpec => []WholeSync
  <1>1. ASSUME Inv PROVE WholeSync
    <2>1. SUFFICES ASSUME NEW r \in Requests, reader[r].from # NoSession,
                          reader[r].pc = "answered"
                   PROVE  {p.ticker : p \in reader[r].shown} =
                            sync[reader[r].from].kept
      BY DEF WholeSync
    <2>2. reader[r].shown = RowsOf(reader[r].from)
      BY <1>1, <2>1 DEF Inv, Reading
    <2>3. ASSUME NEW t \in sync[reader[r].from].kept
          PROVE  \E p \in RowsOf(reader[r].from) : p.ticker = t
      <3> DEFINE p == [session |-> reader[r].from, ticker |-> t,
                       moment |-> sync[reader[r].from].moment,
                       snapshot_at |-> sync[reader[r].from].snapshot_at]
      <3>1. p \in RowsOf(reader[r].from) /\ p.ticker = t
        BY DEF RowsOf
      <3> QED
        BY <3>1
    <2>4. \A p \in RowsOf(reader[r].from) :
            p.ticker \in sync[reader[r].from].kept
      BY DEF RowsOf
    <2> QED
      BY <2>2, <2>3, <2>4
  <1> QED
    BY <1>1, SpecInv, PTL

(* A sync with at least one position supersedes every sync that was over   *)
(* when it began.                                                          *)
THEOREM LaterSyncSupersedes == SnapshotsSpec => []Supersedes
  <1>1. ASSUME Inv PROVE Supersedes
    <2>1. SUFFICES ASSUME NEW r \in Requests, NEW u \in Sessions,
                          Newer(u, reader[r].from, r), sync[u].kept # {}
                   PROVE  FALSE
      BY DEF Supersedes
    <2> DEFINE s == reader[r].from
    <2>2. /\ Committed(u) /\ s # NoSession
          /\ sync[u].snapshot_at <= sync[s].snapshot_at
          /\ sync[s].stored_at < sync[u].began
      BY <1>1, <2>1 DEF Newer, Inv, Reading
    <2>3. s \in Sessions /\ Committed(s)
      BY <1>1, <2>2 DEF Inv, Reading, Typed, SnapshotsTypeOK
    <2>4. /\ sync[s].snapshot_at < sync[s].stored_at
          /\ sync[u].began < sync[u].snapshot_at
      BY <1>1, <2>2, <2>3 DEF Inv, Course
    <2>5. /\ sync[s].snapshot_at \in Nat /\ sync[s].stored_at \in Nat
          /\ sync[u].snapshot_at \in Nat /\ sync[u].began \in Nat
      BY <1>1, <2>3 DEF Inv, Typed, SnapshotsTypeOK
    <2> HIDE DEF s
    <2> QED
      BY <2>2, <2>4, <2>5
  <1> QED
    BY <1>1, SpecInv, PTL
=============================================================================
