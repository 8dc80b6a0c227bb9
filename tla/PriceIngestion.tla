---------------------------- MODULE PriceIngestion ----------------------------
(***************************************************************************)
(* The jobs that build the price history: the security master, the         *)
(* universe bootstrap (also run for the broker mirror's tickers) and the   *)
(* daily price sync with its freshness report.  Each run is a process of   *)
(* its own (command line or Cloud Run job); runs overlap and may die, and  *)
(* meet only in the tables instrument_identifier and price_bar_raw.        *)
(*                                                                         *)
(* What a run does between two commits is one step, since nothing of it is *)
(* visible before: a statement that fails inside it leaves the PostgreSQL  *)
(* transaction aborted, and its COMMIT then is a rollback.  Days are       *)
(* numbered from a Monday, and bars exist on weekdays.  An operator whose  *)
(* name ends in Bug is used only by the mutation checks.                   *)
(***************************************************************************)
EXTENDS Integers, FiniteSets, Sequences, SequencesExt

CONSTANTS
  Slots,               \* of runs that may overlap
  KindsOf,             \* what the runs of a slot may be
  Universe,            \* SCANNER_RESEARCH_UNIVERSE: tickers in the order of the plan
  ProtectedTickers,    \* PROTECTED_TICKERS, curated before any of these jobs ran
  Lookback,            \* lookback_days
  BootstrapDays,       \* bootstrap_days
  StaleAfter,          \* DEFAULT_STALE_AFTER_DAYS
  FirstBar,            \* bound on the history: the first day that has a bar
  FirstDay, LastDay,   \* bounds on the calendar
  MaxUnread,           \* bound on the bars that cannot be read
  MaxRuns,             \* bound on the runs started
  NumInstruments       \* bound on the instruments written

Tickers == ToSet(Universe)
NoDay == -1
Days == 0 .. LastDay
Instruments == 1 .. NumInstruments
Weekday(d) == d % 7 < 5
TradingDays == {d \in FirstBar .. LastDay : Weekday(d)}
PriceSources == {"polygon", "fmp"}

ASSUME IngestionAssumption ==
  /\ KindsOf \in [Slots -> SUBSET {"sync", "bootstrap", "mirror", "master"}]
  /\ Universe \in Seq(Tickers) /\ IsInjective(Universe)
  /\ ProtectedTickers \subseteq Tickers
  /\ {Lookback, BootstrapDays, StaleAfter, FirstBar, FirstDay, LastDay, MaxUnread, MaxRuns,
       NumInstruments} \subseteq Nat
  /\ FirstDay <= LastDay /\ Weekday(FirstDay)
  /\ Cardinality(ProtectedTickers) <= NumInstruments

VARIABLES
  today,
  ident,      \* instrument_identifier rows with id_type 'ticker'
  bars,       \* price_bar_raw rows
  slot,       \* the run under way in each slot
  started,    \* runs so far, bounded by MaxRuns
  unread,     \* ghost: ticker and day of the bars a sync could not read
  overlapped  \* ghost: two scaffolding runs were under way at once

vars == <<today, ident, bars, slot, started, unread, overlapped>>

Newest(S) == IF S = {} THEN NoDay ELSE CHOOSE d \in S : \A e \in S : e <= d
InstrumentsOf(t) == {r.inst : r \in {i \in ident : i.ticker = t}}
Named == {i.ticker : i \in ident}

\* The days of the bars stored for a ticker, whatever instrument and source.
DaysOf(t) == {b.day : b \in {c \in bars : c.inst \in InstrumentsOf(t)}}

NoBars == [t \in Tickers |-> NoDay]
NoOutcome == [state |-> "none", inserted |-> 0, aborted |-> FALSE, clean |-> FALSE]
Idle == [phase |-> "idle", day |-> 0, pos |-> 1, last |-> NoBars,
         iid |-> [t \in Tickers |-> 0], known |-> {}, targets |-> {},
         outcome |-> NoOutcome, max |-> NoDay, report |-> "none"]

\* The curated tickers have their rows before any of these jobs runs.
Curated ==
  LET order == SetToSeq(ProtectedTickers)
  IN  {[ticker |-> order[i], inst |-> i, source |-> "sec"] : i \in DOMAIN order}

Init ==
  /\ today = FirstDay
  /\ ident = Curated
  /\ bars = {}
  /\ slot = [j \in Slots |-> Idle]
  /\ started = 0 /\ unread = {} /\ overlapped = FALSE

NewId == Cardinality(ident) + 1
Ready(j) == slot[j].phase \in {"idle", "done"}
Begin(j, kind) ==
  /\ kind \in KindsOf[j] /\ Ready(j)
  /\ started < MaxRuns /\ started' = started + 1

-------------------------------------------------------------------------------
(* The price sync.                                                         *)

LatestPerTicker == [t \in Tickers |-> Newest(DaysOf(t))]

PlanSync(j) ==
  /\ Begin(j, "sync")
  /\ slot' = [slot EXCEPT ![j] = [Idle EXCEPT !.phase = "planned", !.day = today,
                                            !.last = LatestPerTicker]]
  /\ UNCHANGED <<today, ident, bars, unread, overlapped>>

\* One row per ticker wins; the query has no order, so any of them.
ResolveInstruments(j) ==
  /\ slot[j].phase = "planned"
  /\ \E iid \in [Tickers -> Instruments \cup {0}] :
       /\ \A t \in Tickers : IF t \in Named THEN iid[t] \in InstrumentsOf(t)
                                            ELSE iid[t] = 0
       /\ slot' = [slot EXCEPT ![j].phase = "syncing", ![j].iid = iid]
  /\ UNCHANGED <<started, today, ident, bars, unread, overlapped>>

PlanStartBug(j, t) == slot[j].last[t] + 2
PlanStart(j, t) ==
  IF slot[j].last[t] = NoDay THEN slot[j].day - BootstrapDays ELSE slot[j].last[t] - Lookback
Asked(j, t) == {d \in TradingDays : PlanStart(j, t) <= d /\ d <= slot[j].day}

Answer(days, bad, refused) == [days |-> days, bad |-> bad, refused |-> refused]

\* What a provider may do when asked for a window, other than raise: answer with
\* all of it, without its last day or with nothing; or with all of it but one
\* bar unreadable (bad), or one that a constraint of the table refuses.
ProviderAnswers(window) ==
  {Answer(days, NoDay, NoDay) : days \in {window, window \ {Newest(window)}, {}}}
    \cup {Answer(window, d, NoDay) :
             d \in {e \in window : Cardinality(unread) < MaxUnread}}
    \cup {Answer(window, NoDay, d) : d \in window}

\* The bars of an answer that are counted as inserted: new ones, and once a
\* statement has failed none of the later ones.  They come in order of the day.
InsertedDays(a, iid, source) ==
  {d \in a.days \ {a.bad} :
     /\ [inst |-> iid, day |-> d, source |-> source] \notin bars
     /\ a.refused # NoDay => d < a.refused}

Rows(days, iid, source) == {[inst |-> iid, day |-> d, source |-> source] : d \in days}

EndTicker(j, outcome) ==
  slot' = [slot EXCEPT ![j].pos = slot[j].pos + 1, ![j].outcome = outcome]

\* One provider answers, its bars are inserted and committed: all of the readable
\* ones, or, when one was refused, none although the ticker counts as succeeded.
StoreAnswerBug(j, t, source, a) ==      \* the fallback's rows are not committed
  LET iid == slot[j].iid[t]
  IN  /\ bars' = IF a.refused = NoDay /\ source = "polygon"
                 THEN bars \cup Rows(a.days \ {a.bad}, iid, source) ELSE bars
      /\ unread' = IF a.bad = NoDay THEN unread ELSE unread \cup {<<t, a.bad>>}
      /\ EndTicker(j, [state |-> "succeeded",
                       inserted |-> Cardinality(InsertedDays(a, iid, source)),
                       aborted |-> a.refused # NoDay,
                       clean |-> a = Answer(Asked(j, t), NoDay, NoDay)])

StoreAnswer(j, t, source, a) ==
  LET iid == slot[j].iid[t]
  IN  /\ bars' = IF a.refused = NoDay
                 THEN bars \cup Rows(a.days \ {a.bad}, iid, source) ELSE bars
      /\ unread' = IF a.bad = NoDay THEN unread ELSE unread \cup {<<t, a.bad>>}
      /\ EndTicker(j, [state |-> "succeeded",
                       inserted |-> Cardinality(InsertedDays(a, iid, source)),
                       aborted |-> a.refused # NoDay,
                       clean |-> a = Answer(Asked(j, t), NoDay, NoDay)])

FailTicker(j) ==
  /\ EndTicker(j, [NoOutcome EXCEPT !.state = "failed"])
  /\ UNCHANGED <<bars, unread>>

Turn(j, t) ==
  /\ slot[j].phase = "syncing" /\ slot[j].pos <= Len(Universe)
  /\ t = Universe[slot[j].pos]

\* A ticker without an identifier fails without a provider being asked.
SkipUnresolved(j, t) ==
  /\ Turn(j, t) /\ slot[j].iid[t] = 0
  /\ FailTicker(j)
  /\ UNCHANGED <<started, today, ident, overlapped>>

\* Polygon answers, or it raises and FMP is asked.
SyncTicker(j, t, source) ==
  /\ Turn(j, t) /\ slot[j].iid[t] # 0
  /\ \E a \in ProviderAnswers(Asked(j, t)) : StoreAnswer(j, t, source, a)
  /\ UNCHANGED <<started, today, ident, overlapped>>

\* Both providers raise, or the commit itself does.
SyncTickerFails(j, t) ==
  /\ Turn(j, t) /\ slot[j].iid[t] # 0
  /\ FailTicker(j)
  /\ UNCHANGED <<started, today, ident, overlapped>>

\* The freshness report asks twice: for the newest bar of all, then per ticker.
QueryMax(j) ==
  /\ slot[j].phase = "syncing" /\ slot[j].pos > Len(Universe)
  /\ slot' = [slot EXCEPT ![j] =
               [Idle EXCEPT !.phase = "measured", !.max = Newest({b.day : b \in bars})]]
  /\ UNCHANGED <<started, today, ident, bars, unread, overlapped>>

ExpectedMin(d) == Newest({e \in -7 .. d - 1 : e % 7 < 5})

Fresh(latest, d) == {t \in Named : latest[t] # NoDay /\ latest[t] >= ExpectedMin(d)}
Stale(latest, d) == {t \in Named : latest[t] # NoDay /\ latest[t] < ExpectedMin(d)}

LagStatus(max, d) ==
  IF max = NoDay THEN "stale"
  ELSE IF max >= ExpectedMin(d) THEN "fresh"
  ELSE IF ExpectedMin(d) - max <= StaleAfter THEN "provider_lag" ELSE "stale"

FreshnessStatusBug(max, latest, d) == LagStatus(max, d)   \* the tickers are not looked at

FreshnessStatus(max, latest, d) ==
  IF Fresh(latest, d) # {} /\ Stale(latest, d) # {} THEN "partial" ELSE LagStatus(max, d)

ReportFreshness(j) ==
  /\ slot[j].phase = "measured"
  /\ slot' = [slot EXCEPT ![j] = [Idle EXCEPT !.phase = "done",
               !.report = FreshnessStatus(slot[j].max, LatestPerTicker, today)]]
  /\ UNCHANGED <<started, today, ident, bars, unread, overlapped>>

-------------------------------------------------------------------------------
(* Scaffolding: instrument, identifier and ticker history of new tickers.  *)

Scaffolding(j) == slot[j].phase \in {"mapped", "scaffolding", "mastering"}

\* A ticker's history row is written with its identifier: either finds it.
Mapped == Named

\* The mirror's plan: tickers without a mapping for which a profile was found.
PlanMirror(j) ==
  /\ Begin(j, "mirror")
  /\ \E found \in SUBSET (Tickers \ (Mapped \cup ProtectedTickers)) :
       found # {} /\ slot' = [slot EXCEPT ![j] = [Idle EXCEPT !.phase = "mapped",
                                                            !.targets = found]]
  /\ overlapped' = (overlapped \/ \E k \in Slots \ {j} : Scaffolding(k))
  /\ UNCHANGED <<today, ident, bars, unread>>

ExistingBug == {i.ticker : i \in {r \in ident : r.source = "bootstrap_prod"}}
Existing == Named

PlanBootstrap(j) ==
  /\ \/ Begin(j, "bootstrap")
        /\ slot' = [slot EXCEPT ![j] = [Idle EXCEPT !.phase = "scaffolding",
                      !.targets = Tickers \ ProtectedTickers, !.known = Existing]]
     \/ slot[j].phase = "mapped" /\ UNCHANGED started
        /\ slot' = [slot EXCEPT ![j].phase = "scaffolding", ![j].known = Existing]
  /\ overlapped' = (overlapped \/ \E k \in Slots \ {j} : Scaffolding(k))
  /\ UNCHANGED <<today, ident, bars, unread>>

Scaffold(t) == [ticker |-> t, inst |-> NewId, source |-> "bootstrap_prod"]

\* The next ticker of the plan: skipped when the plan knew it, else its rows are
\* written with a new identifier, or the write fails and is rolled back.  (A
\* profile that cannot be fetched is replaced by defaults and changes nothing.)
ScaffoldTicker(j) ==
  /\ slot[j].phase = "scaffolding" /\ slot[j].pos <= Len(Universe)
  /\ LET t == Universe[slot[j].pos]
         todo == t \in slot[j].targets \ slot[j].known
     IN  \/ /\ todo /\ NewId <= NumInstruments
            /\ ident' = ident \cup {Scaffold(t)}
         \/ UNCHANGED ident
  /\ slot' = [slot EXCEPT ![j].pos = slot[j].pos + 1]
  /\ UNCHANGED <<started, today, bars, unread, overlapped>>

EndBootstrap(j) ==
  /\ slot[j].phase = "scaffolding" /\ slot[j].pos > Len(Universe)
  /\ slot' = [slot EXCEPT ![j] = Idle]
  /\ UNCHANGED <<started, today, ident, bars, unread, overlapped>>

\* The security master knows only the tickers of its own source.
ReadMaster(j) ==
  /\ Begin(j, "master")
  /\ \E filter \in SUBSET Tickers :
       filter # {} /\ slot' = [slot EXCEPT ![j] = [Idle EXCEPT !.phase = "mastering",
          !.targets = filter, !.known = {i.ticker : i \in {r \in ident : r.source = "sec"}}]]
  /\ overlapped' = (overlapped \/ \E k \in Slots \ {j} : Scaffolding(k))
  /\ UNCHANGED <<today, ident, bars, unread>>

\* All rows of a run are committed together, or none.
StoreMaster(j) ==
  /\ slot[j].phase = "mastering"
  /\ LET new == slot[j].targets \ slot[j].known
         last == Cardinality(ident) + Cardinality(new)
     IN  \/ /\ last <= NumInstruments
            /\ \E inst \in Injection(new, NewId .. last) :
                 ident' = ident \cup
                   {[ticker |-> t, inst |-> inst[t], source |-> "sec"] : t \in new}
         \/ UNCHANGED ident
  /\ slot' = [slot EXCEPT ![j] = Idle]
  /\ UNCHANGED <<started, today, bars, unread, overlapped>>

-------------------------------------------------------------------------------
Die(j) ==
  /\ ~Ready(j)
  /\ slot' = [slot EXCEPT ![j] = Idle]
  /\ UNCHANGED <<started, today, ident, bars, unread, overlapped>>

\* The scheduler runs the jobs on weekdays.
NextDay ==
  /\ \E d \in today + 1 .. LastDay :
       /\ Weekday(d) /\ \A e \in today + 1 .. d - 1 : ~Weekday(e)
       /\ today' = d
  /\ UNCHANGED <<started, ident, bars, slot, unread, overlapped>>

Next ==
  \/ NextDay
  \/ \E j \in Slots :
       \/ PlanSync(j) \/ ResolveInstruments(j) \/ QueryMax(j) \/ ReportFreshness(j)
       \/ PlanMirror(j) \/ PlanBootstrap(j) \/ ScaffoldTicker(j) \/ EndBootstrap(j)
       \/ ReadMaster(j) \/ StoreMaster(j) \/ Die(j)
       \/ \E t \in Tickers :
            \/ SkipUnresolved(j, t) \/ SyncTickerFails(j, t)
            \/ \E s \in PriceSources : SyncTicker(j, t, s)

Spec == Init /\ [][Next]_vars

-------------------------------------------------------------------------------
(* Properties.                                                             *)

\* A report says "fresh" only when, at that moment, every ticker that has bars
\* has one from the last weekday: what compute_freshness_report's status
\* "partial" is for, although its two queries see different moments.
FreshIsTrue ==
  [][\A j \in Slots :
       slot[j].report = "none" /\ slot'[j].report = "fresh" =>
         \A t \in Tickers : DaysOf(t) = {} \/ Newest(DaysOf(t)) >= ExpectedMin(today)]_vars

\* A hole in the history of a ticker, taken over all its instruments, is always a
\* bar some sync could not read: failed, empty, late, overlapping and killed syncs
\* leave no hole behind, because each window begins before the newest bar stored.
HolesHaveCause ==
  \A t \in Tickers : \A d \in TradingDays :
    (\E e, f \in DaysOf(t) : e < d /\ d < f) => d \in DaysOf(t) \/ <<t, d>> \in unread

\* After a complete and readable answer that no constraint refused, the instrument
\* has every bar from lookback_days before the newest one the plan saw up to
\* the plan's day: the overlap that is to "cover occasional missed days".
LookbackHeals ==
  \A j \in Slots : slot[j].outcome.clean =>
    LET t == Universe[slot[j].pos - 1]
    IN  \A d \in TradingDays :
          /\ d <= slot[j].day
          /\ d >= IF slot[j].last[t] = NoDay THEN slot[j].day - BootstrapDays
                                           ELSE slot[j].last[t] - Lookback
          => \E b \in bars : b.inst = slot[j].iid[t] /\ b.day = d

\* The bars a ticker's result counts as inserted are the rows its transaction
\* added, unless a refused bar aborted it: the one case in which the ticker is
\* reported as succeeded, with a count, and nothing was stored.
CountedIsStored ==
  [][\A j \in Slots :
       slot'[j].pos = slot[j].pos + 1 /\ slot[j].phase = "syncing" /\ ~slot'[j].outcome.aborted
       => Cardinality(bars' \ bars) = slot'[j].outcome.inserted]_vars

\* While no two scaffolding runs overlap, a ticker gets a second instrument only
\* from the security master, after the bootstrap: the bootstrap asks for rows
\* of any source, the master only for its own.
DuplicateHasCause ==
  ~overlapped =>
    \A r, s \in ident :
      r.ticker = s.ticker /\ r.inst < s.inst =>
        r.source = "bootstrap_prod" /\ s.source = "sec"
===============================================================================
