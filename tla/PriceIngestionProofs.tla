-------------------------- MODULE PriceIngestionProofs -------------------------
(***************************************************************************)
(* What the price history promises, for any universe, calendar, windows    *)
(* and number of overlapping jobs.  IngestInv types the state, numbers the *)
(* instruments and says what a run that is under way read of them; on it   *)
(* rest LookbackHeals, FreshIsTrue and CountedIsStored.  AloneInv adds     *)
(* which job wrote each identifier, for DuplicateHasCause.  HoleInv adds   *)
(* what each run still asks for: a run's window begins no later than the   *)
(* day after the newest bar of its ticker, so what it stores joins what is *)
(* there.                                                                  *)
(***************************************************************************)
EXTENDS PriceIngestion, FiniteSetTheorems, WellFoundedInduction, TLAPS

Outcomes == [state : {"none", "succeeded", "failed"}, inserted : Nat,
             aborted : BOOLEAN, clean : BOOLEAN]
Phases == {"idle", "planned", "syncing", "measured", "done",
           "mapped", "scaffolding", "mastering"}
Reports == {"none", "partial", "stale", "fresh", "provider_lag"}
JobType ==
  [phase : Phases, day : Nat, pos : Nat \ {0}, last : [Tickers -> Int],
   iid : [Tickers -> Nat], known : SUBSET Tickers, targets : SUBSET Tickers,
   outcome : Outcomes, max : Int, report : Reports]
Identifiers == [ticker : Tickers, inst : Nat, source : {"sec", "bootstrap_prod"}]
Bars == [inst : Nat, day : TradingDays, source : PriceSources]

\* Instruments are numbered as they are written.
Numbered ==
  /\ \A r \in ident : r.inst <= Cardinality(ident)
  /\ \A r, s \in ident : r.inst = s.inst => r = s

IdentType == ident \subseteq Identifiers /\ IsFiniteSet(ident) /\ Numbered

TypeInv ==
  /\ today \in Nat /\ today <= LastDay /\ Weekday(today)
  /\ IdentType
  /\ bars \subseteq Bars
  /\ slot \in [Slots -> JobType]

LEMMA Bounds ==
  /\ Lookback \in Nat /\ BootstrapDays \in Nat /\ FirstBar \in Nat /\ FirstDay \in Nat
  /\ LastDay \in Nat /\ NumInstruments \in Nat /\ MaxUnread \in Nat /\ StaleAfter \in Nat
  /\ TradingDays \subseteq FirstBar .. LastDay /\ TradingDays \subseteq Nat
  /\ IsFiniteSet(TradingDays)
  /\ NoDay \in Int /\ NoDay \notin TradingDays
  <1>1. /\ Lookback \in Nat /\ BootstrapDays \in Nat /\ FirstBar \in Nat /\ FirstDay \in Nat
        /\ LastDay \in Nat /\ NumInstruments \in Nat /\ MaxUnread \in Nat /\ StaleAfter \in Nat
    BY IngestionAssumption
  <1>2. TradingDays \subseteq FirstBar .. LastDay /\ TradingDays \subseteq Nat
    BY <1>1 DEF TradingDays
  <1>3. IsFiniteSet(TradingDays)
    <2>1. FirstBar \in Int /\ LastDay \in Int
      BY <1>1
    <2>2. IsFiniteSet(FirstBar .. LastDay)
      BY <2>1, FS_Interval
    <2> QED
      BY <1>2, <2>2, FS_Subset
  <1> QED
    BY <1>1, <1>2, <1>3 DEF NoDay

-------------------------------------------------------------------------------
(* The newest of some days.                                                *)

LEMMA HasNewest ==
  ASSUME NEW S, S \subseteq Int, NEW top \in Int, \A d \in S : d <= top, S # {}
  PROVE  \E d \in S : \A e \in S : e <= d
  <1> DEFINE T == {n \in Nat : top - n \in S}
  <1>1. T \subseteq Nat /\ T # {}
    <2>1. PICK d \in S : TRUE
      OBVIOUS
    <2>2. top - d \in Nat /\ top - (top - d) = d
      BY <2>1
    <2> QED
      BY <2>1, <2>2
  <1>2. PICK n \in T : \A m \in T : ~(<<m, n>> \in OpToRel(<, Nat))
    BY <1>1, NatLessThanWellFounded, WFMin
  <1>3. \A m \in T : ~(m < n)
    BY <1>1, <1>2 DEF OpToRel
  <1>4. n \in Nat /\ top - n \in S
    BY <1>2
  <1>5. ASSUME NEW e \in S PROVE e <= top - n
    <2>1. e \in Int /\ e <= top /\ top - e \in Nat /\ top - (top - e) = e
      OBVIOUS
    <2>2. top - e \in T
      BY <2>1
    <2>3. ~(top - e < n)
      BY <2>2, <1>3
    <2> QED
      BY <2>1, <2>3, <1>4
  <1> QED
    BY <1>4, <1>5

LEMMA NewestIsLast ==
  ASSUME NEW S, S \subseteq Int, NEW top \in Int, \A d \in S : d <= top, S # {}
  PROVE  Newest(S) \in S /\ \A e \in S : e <= Newest(S)
  BY HasNewest DEF Newest

LEMMA NewestOfTradingDays ==
  ASSUME NEW S, S \subseteq TradingDays
  PROVE  /\ Newest(S) \in Int /\ (Newest(S) = NoDay <=> S = {})
         /\ S # {} => Newest(S) \in S /\ \A e \in S : e <= Newest(S)
  <1>1. CASE S = {}
    BY <1>1, Bounds DEF Newest
  <1>2. CASE S # {}
    <2>1. S \subseteq Int /\ LastDay \in Int /\ \A d \in S : d <= LastDay
      BY Bounds
    <2>2. Newest(S) \in S /\ \A e \in S : e <= Newest(S)
      BY <1>2, <2>1, NewestIsLast
    <2> QED
      BY <1>2, <2>1, <2>2, Bounds
  <1> QED
    BY <1>1, <1>2

LEMMA ExpectedIsDay ==
  ASSUME NEW d \in Nat
  PROVE  ExpectedMin(d) \in Int
  <1> DEFINE S == {e \in -7 .. d - 1 : e % 7 < 5}
  <1>1. -7 \in S
    OBVIOUS
  <1>2. S \subseteq Int /\ \A e \in S : e <= d
    OBVIOUS
  <1> HIDE DEF S
  <1>3. S # {} /\ d \in Int
    BY <1>1
  <1>4. Newest(S) \in S
    BY <1>2, <1>3, NewestIsLast
  <1> QED
    BY <1>2, <1>4 DEF ExpectedMin, S

-------------------------------------------------------------------------------
(* Types.                                                                  *)

LEMMA DaysTyped ==
  ASSUME TypeInv, NEW t \in Tickers
  PROVE  DaysOf(t) \subseteq TradingDays
  BY DEF TypeInv, Bars, DaysOf

LEMMA LatestTyped ==
  ASSUME TypeInv
  PROVE  LatestPerTicker \in [Tickers -> Int]
  BY DaysTyped, NewestOfTradingDays DEF LatestPerTicker

LEMMA IdleTyped == Idle \in JobType
  <1>1. NoOutcome \in Outcomes
    BY DEF NoOutcome, Outcomes
  <1>2. NoBars \in [Tickers -> Int] /\ [t \in Tickers |-> 0] \in [Tickers -> Nat]
    BY Bounds DEF NoBars
  <1> QED
    BY <1>1, <1>2, Bounds DEF Idle, JobType, Phases, Reports

\* What an answer may hold: some of the days asked for, and all of them that are
\* before the day of the plan, or none.
LEMMA AnswerIsWindow ==
  ASSUME TypeInv, NEW j \in Slots, NEW t \in Tickers, Weekday(slot[j].day), slot[j].day <= LastDay,
         NEW a \in ProviderAnswers(Asked(j, t))
  PROVE  /\ a = Answer(a.days, a.bad, a.refused)
         /\ a.days \subseteq Asked(j, t)
         /\ a.bad = NoDay \/ a.bad \in a.days
         /\ a.refused # NoDay => a.bad = NoDay /\ a.refused \in Asked(j, t)
         /\ a.days # {} =>
              \A d \in TradingDays : PlanStart(j, t) <= d /\ d < slot[j].day => d \in a.days
  <1> DEFINE window == Asked(j, t)
  <1>1. window \subseteq TradingDays
    BY DEF Asked
  <1>2. \/ \E days \in {window, window \ {Newest(window)}, {}} : a = Answer(days, NoDay, NoDay)
        \/ \E d \in window : a = Answer(window, d, NoDay)
        \/ \E d \in window : a = Answer(window, NoDay, d)
    BY DEF ProviderAnswers
  <1>3. slot[j].day \in Nat /\ PlanStart(j, t) \in Int
    BY Bounds DEF TypeInv, JobType, PlanStart
  <1>4. ASSUME NEW d \in TradingDays, PlanStart(j, t) <= d, d < slot[j].day
        PROVE  d \in window \ {Newest(window)}
    <2>1. slot[j].day \in window /\ d \in window
      BY <1>3, <1>4, Bounds DEF Asked, TradingDays
    <2>2. slot[j].day <= Newest(window)
      BY <2>1, <1>1, NewestOfTradingDays
    <2> QED
      BY <2>1, <2>2, <1>1, <1>3, <1>4, NewestOfTradingDays, Bounds
  <1>5. ASSUME NEW days \in {window, window \ {Newest(window)}, {}}, a = Answer(days, NoDay, NoDay)
        PROVE  /\ a.days = days /\ a.bad = NoDay /\ a.refused = NoDay
    BY <1>5 DEF Answer
  <1>6. ASSUME NEW d \in window, a = Answer(window, d, NoDay)
        PROVE  /\ a.days = window /\ a.bad = d /\ a.refused = NoDay
    BY <1>6 DEF Answer
  <1>7. ASSUME NEW d \in window, a = Answer(window, NoDay, d)
        PROVE  /\ a.days = window /\ a.bad = NoDay /\ a.refused = d
    BY <1>7 DEF Answer
  <1>8. CASE \E days \in {window, window \ {Newest(window)}, {}} : a = Answer(days, NoDay, NoDay)
    BY <1>4, <1>5, <1>8
  <1>9. CASE \E d \in window : a = Answer(window, d, NoDay)
    BY <1>4, <1>6, <1>9, Bounds, <1>1
  <1>10. CASE \E d \in window : a = Answer(window, NoDay, d)
    BY <1>4, <1>7, <1>10
  <1> QED
    BY <1>2, <1>8, <1>9, <1>10

\* The plan's day of a run that has one.
Planned(j) == slot[j].phase \in {"planned", "syncing"}
DayFits(j) == Planned(j) => slot[j].day <= today /\ Weekday(slot[j].day)

LEMMA PlannedDay ==
  ASSUME TypeInv, NEW j \in Slots, DayFits(j), Planned(j)
  PROVE  slot[j].day \in Nat /\ slot[j].day <= LastDay /\ Weekday(slot[j].day)
  BY Bounds DEF TypeInv, JobType, DayFits

LEMMA CountTyped ==
  ASSUME NEW days \in SUBSET TradingDays, NEW a, a.days = days, NEW iid, NEW source
  PROVE  /\ IsFiniteSet(InsertedDays(a, iid, source))
         /\ Cardinality(InsertedDays(a, iid, source)) \in Nat
  <1>1. InsertedDays(a, iid, source) \subseteq TradingDays
    BY DEF InsertedDays
  <1>2. IsFiniteSet(InsertedDays(a, iid, source))
    BY <1>1, Bounds, FS_Subset
  <1> QED
    BY <1>2, FS_CardinalityType

\* The turn of a ticker is over: what becomes of the run's record.
LEMMA EndTickerTyped ==
  ASSUME TypeInv, NEW j \in Slots, NEW outcome \in Outcomes, EndTicker(j, outcome)
  PROVE  /\ slot' \in [Slots -> JobType]
         /\ \A k \in Slots \ {j} : slot'[k] = slot[k]
         /\ slot'[j] = [slot[j] EXCEPT !.pos = slot[j].pos + 1, !.outcome = outcome]
  <1>1. slot[j] \in JobType
    BY DEF TypeInv
  <1>2. [slot[j] EXCEPT !.pos = slot[j].pos + 1, !.outcome = outcome] \in JobType
    <2>1. slot[j].pos + 1 \in Nat \ {0}
      BY <1>1 DEF JobType
    <2> QED
      BY <1>1, <2>1 DEF JobType
  <1>3. slot' = [slot EXCEPT ![j] = [slot[j] EXCEPT !.pos = slot[j].pos + 1, !.outcome = outcome]]
    BY DEF EndTicker, TypeInv
  <1> QED
    BY <1>2, <1>3 DEF TypeInv

\* An answer is stored: the rows it adds, and what is told of them.
LEMMA StoreAnswerEffect ==
  ASSUME TypeInv, NEW j \in Slots, DayFits(j), NEW t \in Tickers, NEW source \in PriceSources,
         Turn(j, t), NEW a \in ProviderAnswers(Asked(j, t)), StoreAnswer(j, t, source, a)
  PROVE  \E outcome \in Outcomes :
           /\ outcome.inserted = Cardinality(InsertedDays(a, slot[j].iid[t], source))
           /\ outcome.aborted = (a.refused # NoDay)
           /\ outcome.clean => a = Answer(Asked(j, t), NoDay, NoDay)
           /\ EndTicker(j, outcome)
  <1> DEFINE outcome == [state |-> "succeeded",
                         inserted |-> Cardinality(InsertedDays(a, slot[j].iid[t], source)),
                         aborted |-> a.refused # NoDay,
                         clean |-> a = Answer(Asked(j, t), NoDay, NoDay)]
  <1>1. a.days \subseteq TradingDays
    BY PlannedDay, AnswerIsWindow DEF Turn, Planned, Asked
  <1>2. Cardinality(InsertedDays(a, slot[j].iid[t], source)) \in Nat
    BY <1>1, CountTyped
  <1>3. outcome \in Outcomes
    BY <1>2 DEF Outcomes
  <1>4. EndTicker(j, outcome)
    BY DEF StoreAnswer
  <1>5. /\ outcome.inserted = Cardinality(InsertedDays(a, slot[j].iid[t], source))
        /\ outcome.aborted = (a.refused # NoDay)
        /\ outcome.clean => a = Answer(Asked(j, t), NoDay, NoDay)
    OBVIOUS
  <1> HIDE DEF outcome
  <1> QED
    BY <1>3, <1>4, <1>5

-------------------------------------------------------------------------------
(* The rows of the instruments.                                            *)

\* Rows of some new tickers, under the numbers that follow.
LEMMA NewRows ==
  ASSUME IdentType, NEW new \in SUBSET Tickers, IsFiniteSet(new),
         NEW source \in {"sec", "bootstrap_prod"},
         NEW inst \in [new -> Cardinality(ident) + 1 .. Cardinality(ident) + Cardinality(new)],
         \A t, u \in new : inst[t] = inst[u] => t = u,
         ident' = ident \cup {[ticker |-> t, inst |-> inst[t], source |-> source] : t \in new}
  PROVE  IdentType'
  <1> DEFINE added == {[ticker |-> t, inst |-> inst[t], source |-> source] : t \in new}
  <1>1. Cardinality(ident) \in Nat /\ Cardinality(new) \in Nat
    BY FS_CardinalityType DEF IdentType
  <1>2. \A t \in new : inst[t] \in Nat /\ Cardinality(ident) < inst[t]
                       /\ inst[t] <= Cardinality(ident) + Cardinality(new)
    BY <1>1
  <1>3. added \subseteq Identifiers
    BY <1>2 DEF Identifiers
  <1>4. IsFiniteSet(added) /\ Cardinality(added) = Cardinality(new)
    <2> DEFINE row == [t \in new |-> [ticker |-> t, inst |-> inst[t], source |-> source]]
    <2>1. row \in Bijection(new, added)
      BY DEF Bijection, Injection, Surjection, IsInjective
    <2>2. ExistsBijection(new, added)
      BY <2>1 DEF ExistsBijection
    <2> QED
      BY <2>2, FS_Bijection
  <1>5. ident \cap added = {}
    BY <1>1, <1>2 DEF IdentType, Numbered, Identifiers
  <1>6. IsFiniteSet(ident') /\ Cardinality(ident') = Cardinality(ident) + Cardinality(new)
    <2>1. IsFiniteSet(ident) /\ ident' = ident \cup added
      BY DEF IdentType
    <2> HIDE DEF added
    <2>2. /\ IsFiniteSet(ident \cup added)
          /\ Cardinality(ident \cup added)
             = Cardinality(ident) + Cardinality(added) - Cardinality(ident \cap added)
      BY <2>1, <1>4, FS_Union
    <2>3. Cardinality(ident \cap added) = 0
      BY <1>5, FS_EmptySet
    <2>4. Cardinality(ident') = Cardinality(ident) + Cardinality(added) - Cardinality(ident \cap added)
      BY <2>1, <2>2
    <2>5. Cardinality(ident') = Cardinality(ident) + Cardinality(new)
      BY <2>3, <2>4, <1>1, <1>4
    <2>6. IsFiniteSet(ident')
      BY <2>1, <2>2
    <2> QED
      BY <2>5, <2>6
  <1>7. ASSUME NEW r \in ident' PROVE r.inst <= Cardinality(ident')
    <2>1. CASE r \in ident
      <3>1. r.inst \in Nat /\ r.inst <= Cardinality(ident)
        BY <2>1 DEF IdentType, Numbered, Identifiers
      <3> QED
        BY <3>1, <1>1, <1>6
    <2>2. CASE r \in added
      <3>1. \E t \in new : r.inst = inst[t]
        BY <2>2
      <3> QED
        BY <3>1, <1>1, <1>2, <1>6
    <2> QED
      BY <1>7, <2>1, <2>2
  <1>8. ASSUME NEW r \in ident', NEW s \in ident', r.inst = s.inst PROVE r = s
    BY <1>1, <1>2, <1>8 DEF IdentType, Numbered, Identifiers
  <1>9. Numbered'
    BY <1>7, <1>8 DEF Numbered
  <1> QED
    BY <1>3, <1>6, <1>9 DEF IdentType

LEMMA TickersFinite == IsFiniteSet(Tickers)
  <1>1. Universe \in Seq(Tickers)
    BY IngestionAssumption
  <1>2. Len(Universe) \in Nat /\ DOMAIN Universe = 1 .. Len(Universe)
    BY <1>1
  <1>3. Universe \in Bijection(1 .. Len(Universe), Tickers)
    BY <1>1, <1>2, IngestionAssumption DEF Tickers, ToSet, Bijection, Injection, Surjection
  <1> QED
    BY <1>2, <1>3, FS_NatBijection DEF ExistsBijection

LEMMA ScaffoldRow ==
  ASSUME IdentType, NEW t \in Tickers, ident' = ident \cup {Scaffold(t)}
  PROVE  IdentType'
  <1> DEFINE inst == [u \in {t} |-> NewId]
  <1>1. IsFiniteSet({t}) /\ Cardinality({t}) = 1 /\ Cardinality(ident) \in Nat
    BY FS_Singleton, FS_CardinalityType DEF IdentType
  <1>2. inst \in [{t} -> Cardinality(ident) + 1 .. Cardinality(ident) + Cardinality({t})]
    BY <1>1 DEF NewId
  <1>3. ident' = ident \cup {[ticker |-> u, inst |-> inst[u], source |-> "bootstrap_prod"] : u \in {t}}
    BY DEF Scaffold
  <1>4. \A u, v \in {t} : inst[u] = inst[v] => u = v
    OBVIOUS
  <1> HIDE DEF inst
  <1>5. {t} \in SUBSET Tickers
    OBVIOUS
  <1> QED
    BY <1>1, <1>2, <1>3, <1>4, <1>5, NewRows

\* The master's transaction is not rolled back.
MasterWrites(j) ==
  LET new == slot[j].targets \ slot[j].known
  IN  \E inst \in Injection(new, NewId .. Cardinality(ident) + Cardinality(new)) :
        ident' = ident \cup {[ticker |-> t, inst |-> inst[t], source |-> "sec"] : t \in new}

LEMMA MasterRows ==
  ASSUME IdentType, NEW j, slot[j].targets \subseteq Tickers, MasterWrites(j)
  PROVE  IdentType'
  <1> DEFINE new == slot[j].targets \ slot[j].known
  <1>1. PICK inst \in Injection(new, NewId .. Cardinality(ident) + Cardinality(new)) :
          ident' = ident \cup {[ticker |-> t, inst |-> inst[t], source |-> "sec"] : t \in new}
    BY DEF MasterWrites
  <1>2. inst \in [new -> Cardinality(ident) + 1 .. Cardinality(ident) + Cardinality(new)]
        /\ \A t, u \in new : inst[t] = inst[u] => t = u
    BY <1>1 DEF Injection, IsInjective, NewId
  <1>3. new \in SUBSET Tickers /\ IsFiniteSet(new)
    BY TickersFinite, FS_Subset
  <1> HIDE DEF new
  <1> QED
    BY <1>1, <1>2, <1>3, NewRows

LEMMA CuratedRows == Init => IdentType
  <1> SUFFICES ASSUME Init PROVE IdentType
    OBVIOUS
  <1> DEFINE order == SetToSeq(ProtectedTickers)
  <1>1. IsFiniteSet(ProtectedTickers)
    BY TickersFinite, FS_Subset, IngestionAssumption
  <1>2. Cardinality(ProtectedTickers) \in Nat
    BY <1>1, FS_CardinalityType
  <1>3. order \in [1 .. Cardinality(ProtectedTickers) -> ProtectedTickers] /\ IsInjective(order)
    BY <1>1, FS_CardinalityType DEF SetToSeq, ExistsBijection, Bijection, Injection
  <1> HIDE DEF order
  <1>4. ident = {[ticker |-> order[i], inst |-> i, source |-> "sec"] : i \in 1 .. Cardinality(ProtectedTickers)}
    BY <1>3 DEF Init, Curated, order
  <1>5. ident \subseteq Identifiers
    BY <1>2, <1>3, <1>4, IngestionAssumption DEF Identifiers
  <1>6. IsFiniteSet(ident) /\ Cardinality(ident) = Cardinality(ProtectedTickers)
    <2> DEFINE row == [i \in 1 .. Cardinality(ProtectedTickers) |->
                         [ticker |-> order[i], inst |-> i, source |-> "sec"]]
    <2>1. row \in Bijection(1 .. Cardinality(ProtectedTickers), ident)
      BY <1>4 DEF Bijection, Injection, Surjection, IsInjective
    <2>2. ExistsBijection(1 .. Cardinality(ProtectedTickers), ident)
      BY <2>1 DEF ExistsBijection
    <2>3. IsFiniteSet(ident)
      BY <1>2, <2>2, FS_NatBijection
    <2> QED
      BY <1>2, <2>2, <2>3, FS_CountingElements
  <1>7. Numbered
    BY <1>2, <1>4, <1>6 DEF Numbered
  <1> QED
    BY <1>5, <1>6, <1>7 DEF IdentType

LEMMA InitTypes == Init => TypeInv
  <1> SUFFICES ASSUME Init PROVE TypeInv
    OBVIOUS
  <1>1. today \in Nat /\ today <= LastDay /\ Weekday(today)
    BY IngestionAssumption DEF Init
  <1>2. slot \in [Slots -> JobType]
    BY IdleTyped DEF Init
  <1>3. IdentType
    BY CuratedRows
  <1>4. bars \subseteq Bars
    BY DEF Init
  <1> QED
    BY <1>1, <1>2, <1>3, <1>4 DEF TypeInv

LEMMA TurnTicker ==
  ASSUME TypeInv, NEW j \in Slots, slot[j].pos <= Len(Universe)
  PROVE  slot[j].pos \in DOMAIN Universe /\ Universe[slot[j].pos] \in Tickers
  BY IngestionAssumption DEF TypeInv, JobType

\* A step that leaves the tables alone and gives one run a new record.
Rewrites(j, new) ==
  /\ slot' = [slot EXCEPT ![j] = new]
  /\ UNCHANGED <<today, ident, bars, unread>>

LEMMA StepTypes ==
  ASSUME TypeInv, \A j \in Slots : DayFits(j), [Next]_vars
  PROVE  TypeInv'
  <1>0. /\ today \in Nat /\ today <= LastDay /\ Weekday(today)
        /\ IdentType
        /\ bars \subseteq Bars
        /\ slot \in [Slots -> JobType] /\ \A k \in Slots : slot[k] \in JobType
    BY DEF TypeInv
  <1>1. ASSUME NEW j \in Slots, NEW new \in JobType, slot' = [slot EXCEPT ![j] = new]
        PROVE  slot' \in [Slots -> JobType]
    BY <1>0, <1>1
  <1>17. UNCHANGED ident => IdentType'
    BY <1>0 DEF IdentType, Numbered
  <1>2. CASE NextDay
    BY <1>0, <1>17, <1>2, Bounds DEF NextDay, TypeInv
  <1>3. ASSUME NEW j \in Slots, PlanSync(j) PROVE TypeInv'
    <2> DEFINE new == [Idle EXCEPT !.phase = "planned", !.day = today, !.last = LatestPerTicker]
    <2>1. new \in JobType
      BY <1>0, IdleTyped, LatestTyped DEF JobType, Phases
    <2> QED
      BY <1>0, <1>1, <1>17, <1>3, <2>1 DEF PlanSync, TypeInv
  <1>4. ASSUME NEW j \in Slots, ResolveInstruments(j) PROVE TypeInv'
    <2>1. PICK iid \in [Tickers -> Instruments \cup {0}] :
            slot' = [slot EXCEPT ![j].phase = "syncing", ![j].iid = iid]
      BY <1>4 DEF ResolveInstruments
    <2>2. iid \in [Tickers -> Nat]
      BY Bounds DEF Instruments
    <2>3. [slot[j] EXCEPT !.phase = "syncing", !.iid = iid] \in JobType
      BY <1>0, <2>2 DEF JobType, Phases
    <2>4. slot' = [slot EXCEPT ![j] = [slot[j] EXCEPT !.phase = "syncing", !.iid = iid]]
      BY <1>0, <2>1
    <2> QED
      BY <1>0, <1>1, <1>17, <1>4, <2>3, <2>4 DEF ResolveInstruments, TypeInv
  <1>5. ASSUME NEW j \in Slots, NEW t \in Tickers,
               SkipUnresolved(j, t) \/ SyncTickerFails(j, t)
        PROVE  TypeInv'
    <2>1. [NoOutcome EXCEPT !.state = "failed"] \in Outcomes
      BY DEF NoOutcome, Outcomes
    <2> QED
      BY <1>0, <1>17, <1>5, <2>1, EndTickerTyped DEF SkipUnresolved, SyncTickerFails, FailTicker, TypeInv
  <1>6. ASSUME NEW j \in Slots, NEW t \in Tickers, NEW s \in PriceSources, SyncTicker(j, t, s)
        PROVE  TypeInv'
    <2>1. PICK a \in ProviderAnswers(Asked(j, t)) : StoreAnswer(j, t, s, a)
      BY <1>6 DEF SyncTicker
    <2>2. Turn(j, t)
      BY <1>6 DEF SyncTicker
    <2>3. slot' \in [Slots -> JobType]
      BY <2>1, <2>2, StoreAnswerEffect, EndTickerTyped
    <2>4. a.days \subseteq TradingDays
      BY <2>2, PlannedDay, AnswerIsWindow DEF Turn, Planned, Asked
    <2>5. slot[j].iid[t] \in Nat
      BY <1>0 DEF JobType
    <2>6. Rows(a.days \ {a.bad}, slot[j].iid[t], s) \subseteq Bars
      BY <2>4, <2>5 DEF Rows, Bars
    <2>7. bars' \subseteq Bars
      BY <1>0, <2>1, <2>6 DEF StoreAnswer
    <2> QED
      BY <1>0, <1>17, <1>6, <2>3, <2>7 DEF SyncTicker, TypeInv
  <1>7. ASSUME NEW j \in Slots, QueryMax(j) PROVE TypeInv'
    <2> DEFINE new == [Idle EXCEPT !.phase = "measured", !.max = Newest({b.day : b \in bars})]
    <2>1. {b.day : b \in bars} \subseteq TradingDays
      BY <1>0 DEF Bars
    <2>2. new \in JobType
      BY <2>1, IdleTyped, NewestOfTradingDays DEF JobType, Phases
    <2> QED
      BY <1>0, <1>1, <1>17, <1>7, <2>2 DEF QueryMax, TypeInv
  <1>8. ASSUME NEW j \in Slots, ReportFreshness(j) PROVE TypeInv'
    <2> DEFINE new == [Idle EXCEPT !.phase = "done",
                                   !.report = FreshnessStatus(slot[j].max, LatestPerTicker, today)]
    <2>1. FreshnessStatus(slot[j].max, LatestPerTicker, today) \in Reports
      BY DEF FreshnessStatus, LagStatus, Reports
    <2>2. new \in JobType
      BY <2>1, IdleTyped DEF JobType, Phases
    <2> QED
      BY <1>0, <1>1, <1>17, <1>8, <2>2 DEF ReportFreshness, TypeInv
  <1>9. ASSUME NEW j \in Slots, PlanMirror(j) PROVE TypeInv'
    <2>1. PICK found \in SUBSET (Tickers \ (Mapped \cup ProtectedTickers)) :
            slot' = [slot EXCEPT ![j] = [Idle EXCEPT !.phase = "mapped", !.targets = found]]
      BY <1>9 DEF PlanMirror
    <2>2. [Idle EXCEPT !.phase = "mapped", !.targets = found] \in JobType
      BY IdleTyped DEF JobType, Phases
    <2> QED
      BY <1>0, <1>1, <1>17, <1>9, <2>1, <2>2 DEF PlanMirror, TypeInv
  <1>10. Existing \subseteq Tickers
    BY <1>0 DEF Existing, Named, IdentType, Identifiers
  <1>11. ASSUME NEW j \in Slots, PlanBootstrap(j) PROVE TypeInv'
    <2>1. [Idle EXCEPT !.phase = "scaffolding", !.targets = Tickers \ ProtectedTickers,
                       !.known = Existing] \in JobType
      BY <1>10, IdleTyped DEF JobType, Phases
    <2>2. [slot[j] EXCEPT !.phase = "scaffolding", !.known = Existing] \in JobType
      BY <1>0, <1>10 DEF JobType, Phases
    <2>3. ASSUME slot' = [slot EXCEPT ![j].phase = "scaffolding", ![j].known = Existing]
          PROVE  slot' = [slot EXCEPT ![j] = [slot[j] EXCEPT !.phase = "scaffolding",
                                                          !.known = Existing]]
      BY <1>0, <2>3
    <2>4. slot' \in [Slots -> JobType]
      BY <1>1, <1>11, <2>1, <2>2, <2>3 DEF PlanBootstrap
    <2> QED
      BY <1>0, <1>17, <1>11, <2>4 DEF PlanBootstrap, TypeInv
  <1>12. ASSUME NEW j \in Slots, ScaffoldTicker(j) PROVE TypeInv'
    <2>1. [slot[j] EXCEPT !.pos = slot[j].pos + 1] \in JobType
      <3>1. slot[j].pos + 1 \in Nat \ {0}
        BY <1>0 DEF JobType
      <3> QED
        BY <1>0, <3>1 DEF JobType
    <2>2. slot' = [slot EXCEPT ![j] = [slot[j] EXCEPT !.pos = slot[j].pos + 1]]
      BY <1>0, <1>12 DEF ScaffoldTicker
    <2>3. Universe[slot[j].pos] \in Tickers
      BY <1>12, TurnTicker DEF ScaffoldTicker
    <2>4. ident' = ident \/ ident' = ident \cup {Scaffold(Universe[slot[j].pos])}
      BY <1>12 DEF ScaffoldTicker
    <2>5. IdentType'
      BY <1>0, <1>17, <2>3, <2>4, ScaffoldRow
    <2> QED
      BY <1>0, <1>1, <1>12, <2>1, <2>2, <2>5 DEF ScaffoldTicker, TypeInv
  <1>13. ASSUME NEW j \in Slots, ReadMaster(j) PROVE TypeInv'
    <2>1. PICK filter \in SUBSET Tickers :
            slot' = [slot EXCEPT ![j] = [Idle EXCEPT !.phase = "mastering",
              !.targets = filter, !.known = {i.ticker : i \in {r \in ident : r.source = "sec"}}]]
      BY <1>13 DEF ReadMaster
    <2>2. {i.ticker : i \in {r \in ident : r.source = "sec"}} \subseteq Tickers
      BY <1>0 DEF IdentType, Identifiers
    <2>3. [Idle EXCEPT !.phase = "mastering", !.targets = filter,
                       !.known = {i.ticker : i \in {r \in ident : r.source = "sec"}}] \in JobType
      BY <2>2, IdleTyped DEF JobType, Phases
    <2> QED
      BY <1>0, <1>1, <1>17, <1>13, <2>1, <2>3 DEF ReadMaster, TypeInv
  <1>14. ASSUME NEW j \in Slots, StoreMaster(j) PROVE TypeInv'
    <2>1. ident' = ident \/ MasterWrites(j)
      BY <1>14 DEF StoreMaster, MasterWrites
    <2>2. IdentType'
      <3>1. slot[j].targets \subseteq Tickers
        BY <1>0 DEF JobType
      <3> QED
        BY <1>0, <1>17, <2>1, <3>1, MasterRows
    <2> QED
      BY <1>0, <1>1, <1>14, <2>2, IdleTyped DEF StoreMaster, TypeInv
  <1>15. ASSUME NEW j \in Slots, EndBootstrap(j) \/ Die(j) PROVE TypeInv'
    BY <1>0, <1>1, <1>17, <1>15, IdleTyped DEF EndBootstrap, Die, TypeInv
  <1>16. CASE UNCHANGED vars
    BY <1>0, <1>17, <1>16 DEF vars, TypeInv
  <1> QED
    BY <1>2, <1>3, <1>4, <1>5, <1>6, <1>7, <1>8, <1>9, <1>11, <1>12, <1>13, <1>14, <1>15,
       <1>16 DEF Next

-------------------------------------------------------------------------------
(* What every step leaves in place.                                        *)

RunStep(j) ==
  \/ PlanSync(j) \/ ResolveInstruments(j) \/ QueryMax(j) \/ ReportFreshness(j)
  \/ PlanMirror(j) \/ PlanBootstrap(j) \/ ScaffoldTicker(j) \/ EndBootstrap(j)
  \/ ReadMaster(j) \/ StoreMaster(j) \/ Die(j)
  \/ \E t \in Tickers :
       \/ SkipUnresolved(j, t) \/ SyncTickerFails(j, t)
       \/ \E s \in PriceSources : SyncTicker(j, t, s)

LEMMA StepKinds == [Next]_vars => NextDay \/ UNCHANGED vars \/ \E j \in Slots : RunStep(j)
  BY DEF Next, RunStep

\* A run's step is its own: the other runs' records stay.
LEMMA RunStepsAlone ==
  ASSUME TypeInv, NEW j \in Slots, RunStep(j)
  PROVE  today' = today /\ \A k \in Slots \ {j} : slot'[k] = slot[k]
  <1>1. slot \in [Slots -> JobType]
    BY DEF TypeInv
  <1>2. ASSUME NEW new, slot' = [slot EXCEPT ![j] = new]
        PROVE  \A k \in Slots \ {j} : slot'[k] = slot[k]
    BY <1>1, <1>2
  <1>3. CASE PlanSync(j) \/ QueryMax(j) \/ ReportFreshness(j) \/ EndBootstrap(j) \/ Die(j)
             \/ StoreMaster(j)
    BY <1>2, <1>3 DEF PlanSync, QueryMax, ReportFreshness, EndBootstrap, Die, StoreMaster
  <1>4. CASE ResolveInstruments(j)
    BY <1>1, <1>4 DEF ResolveInstruments
  <1>5. CASE PlanMirror(j) \/ ReadMaster(j)
    BY <1>2, <1>5 DEF PlanMirror, ReadMaster
  <1>6. CASE PlanBootstrap(j)
    BY <1>1, <1>6 DEF PlanBootstrap
  <1>7. CASE ScaffoldTicker(j)
    BY <1>1, <1>7 DEF ScaffoldTicker
  <1>8. ASSUME NEW t \in Tickers, SkipUnresolved(j, t) \/ SyncTickerFails(j, t)
        PROVE  today' = today /\ \A k \in Slots \ {j} : slot'[k] = slot[k]
    BY <1>1, <1>8 DEF SkipUnresolved, SyncTickerFails, FailTicker, EndTicker
  <1>9. ASSUME NEW t \in Tickers, NEW s \in PriceSources, SyncTicker(j, t, s)
        PROVE  today' = today /\ \A k \in Slots \ {j} : slot'[k] = slot[k]
    BY <1>1, <1>9 DEF SyncTicker, StoreAnswer, EndTicker
  <1> QED
    BY <1>3, <1>4, <1>5, <1>6, <1>7, <1>8, <1>9 DEF RunStep

\* Rows, notes and days only come.
Grows == ident \subseteq ident' /\ bars \subseteq bars' /\ unread \subseteq unread' /\ today <= today'

LEMMA StepGrows ==
  ASSUME TypeInv, [Next]_vars
  PROVE  Grows
  <1>0. today \in Nat
    BY DEF TypeInv
  <1>1. CASE NextDay
    BY <1>0, <1>1, Bounds DEF NextDay, Grows
  <1>2. CASE UNCHANGED vars
    BY <1>0, <1>2 DEF vars, Grows
  <1>3. ASSUME NEW j \in Slots, RunStep(j) PROVE Grows
    <2>1. today' = today
      BY <1>3, RunStepsAlone
    <2>2. ident \subseteq ident'
      BY <1>3 DEF RunStep, PlanSync, ResolveInstruments, QueryMax, ReportFreshness, PlanMirror,
                  PlanBootstrap, ScaffoldTicker, EndBootstrap, ReadMaster, StoreMaster, Die,
                  SkipUnresolved, SyncTickerFails, SyncTicker
    <2>3. bars \subseteq bars'
      BY <1>3 DEF RunStep, PlanSync, ResolveInstruments, QueryMax, ReportFreshness, PlanMirror,
                  PlanBootstrap, ScaffoldTicker, EndBootstrap, ReadMaster, StoreMaster, Die,
                  SkipUnresolved, SyncTickerFails, FailTicker, SyncTicker, StoreAnswer
    <2>4. unread \subseteq unread'
      BY <1>3 DEF RunStep, PlanSync, ResolveInstruments, QueryMax, ReportFreshness, PlanMirror,
                  PlanBootstrap, ScaffoldTicker, EndBootstrap, ReadMaster, StoreMaster, Die,
                  SkipUnresolved, SyncTickerFails, FailTicker, SyncTicker, StoreAnswer
    <2> QED
      BY <1>0, <2>1, <2>2, <2>3, <2>4 DEF Grows
  <1> QED
    BY <1>1, <1>2, <1>3, StepKinds

LEMMA DaysGrow ==
  ASSUME Grows, NEW t
  PROVE  InstrumentsOf(t) \subseteq InstrumentsOf(t)' /\ DaysOf(t) \subseteq DaysOf(t)'
  <1>1. InstrumentsOf(t) \subseteq InstrumentsOf(t)'
    BY DEF Grows, InstrumentsOf
  <1> QED
    BY <1>1 DEF Grows, DaysOf

\* Without a new bar, a new instrument does not change the days of any ticker.
Stored == \A b \in bars : b.day <= today /\ \E r \in ident : r.inst = b.inst

LEMMA SameDays ==
  ASSUME TypeInv, TypeInv', Stored, Grows, UNCHANGED bars, NEW t
  PROVE  DaysOf(t)' = DaysOf(t)
  <1>1. ASSUME NEW b \in bars, b.inst \in InstrumentsOf(t)'
        PROVE  b.inst \in InstrumentsOf(t)
    <2>1. PICK r \in ident : r.inst = b.inst
      BY DEF Stored
    <2>2. PICK s \in ident' : s.inst = b.inst /\ s.ticker = t
      BY <1>1 DEF InstrumentsOf
    <2>3. r = s
      BY <2>1, <2>2 DEF Grows, TypeInv, IdentType, Numbered
    <2> QED
      BY <2>1, <2>2, <2>3 DEF InstrumentsOf
  <1>2. InstrumentsOf(t) \subseteq InstrumentsOf(t)'
    BY DaysGrow
  <1> QED
    BY <1>1, <1>2 DEF DaysOf

-------------------------------------------------------------------------------
(* What a run knows.                                                       *)

\* The newest bars a plan saw are still there, and were no newer than its day.
SawFits(j) ==
  Planned(j) => \A t \in Tickers :
    slot[j].last[t] = NoDay \/ (slot[j].last[t] \in DaysOf(t) /\ slot[j].last[t] <= slot[j].day)
ResolvedFits(j) ==
  slot[j].phase = "syncing" =>
    \A t \in Tickers : slot[j].iid[t] = 0 \/ slot[j].iid[t] \in InstrumentsOf(t)
MeasuredFits(j) ==
  slot[j].phase = "measured" => slot[j].max = NoDay \/ \E b \in bars : b.day = slot[j].max
CleanFits(j) == slot[j].outcome.clean => slot[j].phase = "syncing"

Healed(j, t) ==
  \A d \in TradingDays :
    PlanStart(j, t) <= d /\ d <= slot[j].day => \E b \in bars : b.inst = slot[j].iid[t] /\ b.day = d
HealedFits(j) ==
  slot[j].outcome.clean => slot[j].pos - 1 \in DOMAIN Universe /\ Healed(j, Universe[slot[j].pos - 1])

Course(j) ==
  DayFits(j) /\ SawFits(j) /\ ResolvedFits(j) /\ MeasuredFits(j) /\ CleanFits(j) /\ HealedFits(j)

IngestInv == TypeInv /\ Stored /\ \A j \in Slots : Course(j)

LEMMA CourseKept ==
  ASSUME TypeInv, Grows, NEW k \in Slots, Course(k), today' \in Nat,
         slot'[k] = slot[k]
  PROVE  Course(k)'
  <1>0. slot[k] \in JobType /\ today \in Nat /\ today <= today'
    BY DEF TypeInv, Grows
  <1>1. DayFits(k)'
    BY <1>0 DEF Course, DayFits, Planned, JobType
  <1>2. SawFits(k)'
    BY DaysGrow DEF Course, SawFits, Planned
  <1>3. ResolvedFits(k)'
    BY DaysGrow DEF Course, ResolvedFits
  <1>4. MeasuredFits(k)'
    BY DEF Course, MeasuredFits, Grows
  <1>5. CleanFits(k)'
    BY DEF Course, CleanFits
  <1>6. HealedFits(k)'
    BY DEF Course, HealedFits, Healed, PlanStart, Grows
  <1> QED
    BY <1>1, <1>2, <1>3, <1>4, <1>5, <1>6 DEF Course

\* A run that is neither syncing nor reporting has nothing to keep.
LEMMA CourseBlank ==
  ASSUME NEW k, slot'[k].phase \notin {"planned", "syncing", "measured"}, ~slot'[k].outcome.clean
  PROVE  Course(k)'
  BY DEF Course, DayFits, SawFits, Planned, ResolvedFits, MeasuredFits, CleanFits, HealedFits

\* The next ticker of a run, and what it knows of the others.
LEMMA CourseNextTicker ==
  ASSUME TypeInv, Grows, NEW j \in Slots, Course(j), NEW t \in Tickers, Turn(j, t), today' = today,
         NEW outcome \in Outcomes, EndTicker(j, outcome),
         outcome.clean => Healed(j, t)'
  PROVE  Course(j)'
  <1>0. slot[j] \in JobType /\ today \in Nat
    BY DEF TypeInv
  <1>1. slot'[j] = [slot[j] EXCEPT !.pos = slot[j].pos + 1, !.outcome = outcome]
    BY EndTickerTyped
  <1>2. /\ slot'[j].phase = "syncing" /\ slot'[j].day = slot[j].day /\ slot'[j].last = slot[j].last
        /\ slot'[j].iid = slot[j].iid /\ slot'[j].pos = slot[j].pos + 1 /\ slot'[j].outcome = outcome
    BY <1>0, <1>1 DEF JobType, Turn
  <1>3. slot[j].phase = "syncing" /\ Planned(j)
    BY DEF Turn, Planned
  <1>4. DayFits(j)' /\ CleanFits(j)' /\ MeasuredFits(j)'
    BY <1>2, <1>3 DEF Course, DayFits, CleanFits, MeasuredFits
  <1>5. SawFits(j)' /\ ResolvedFits(j)'
    BY <1>2, <1>3, DaysGrow DEF Course, SawFits, ResolvedFits
  <1>6. HealedFits(j)'
    <2>1. slot'[j].pos - 1 = slot[j].pos
      BY <1>0, <1>2 DEF JobType
    <2>2. slot[j].pos \in DOMAIN Universe /\ t = Universe[slot[j].pos]
      BY TurnTicker DEF Turn
    <2> QED
      BY <1>2, <2>1, <2>2 DEF HealedFits
  <1> QED
    BY <1>4, <1>5, <1>6 DEF Course

\* The bars of an answer that is complete, readable and not refused.
LEMMA CleanHeals ==
  ASSUME TypeInv, NEW j \in Slots, DayFits(j), NEW t \in Tickers, Turn(j, t), NEW source,
         NEW a, a = Answer(Asked(j, t), NoDay, NoDay), StoreAnswer(j, t, source, a)
  PROVE  Healed(j, t)'
  <1>0. slot[j] \in JobType
    BY DEF TypeInv
  <1>1. a.days = Asked(j, t) /\ a.bad = NoDay /\ a.refused = NoDay
    BY DEF Answer
  <1>2. bars' = bars \cup Rows(Asked(j, t) \ {NoDay}, slot[j].iid[t], source)
    BY <1>1 DEF StoreAnswer
  <1>3. slot'[j].day = slot[j].day /\ slot'[j].last = slot[j].last /\ slot'[j].iid = slot[j].iid
    BY <1>0 DEF StoreAnswer, EndTicker, TypeInv, JobType
  <1>4. ASSUME NEW d \in TradingDays, PlanStart(j, t) <= d, d <= slot[j].day
        PROVE  [inst |-> slot[j].iid[t], day |-> d, source |-> source] \in bars'
    BY <1>2, <1>4, Bounds DEF Asked, Rows
  <1>5. PlanStart(j, t)' = PlanStart(j, t)
    BY <1>3 DEF PlanStart
  <1> QED
    BY <1>3, <1>4, <1>5 DEF Healed

LEMMA InitCourse == Init => IngestInv
  <1> SUFFICES ASSUME Init PROVE IngestInv
    OBVIOUS
  <1>1. TypeInv
    BY InitTypes
  <1>2. Stored
    BY DEF Init, Stored
  <1>3. ASSUME NEW j \in Slots PROVE Course(j)
    <2>1. slot[j].phase = "idle" /\ ~slot[j].outcome.clean
      BY DEF Init, Idle, NoOutcome
    <2> QED
      BY <2>1 DEF Course, DayFits, SawFits, Planned, ResolvedFits, MeasuredFits, CleanFits,
                  HealedFits
  <1> QED
    BY <1>1, <1>2, <1>3 DEF IngestInv

LEMMA StepStored ==
  ASSUME IngestInv, TypeInv', [Next]_vars
  PROVE  Stored'
  <1>0. TypeInv /\ Grows
    BY StepGrows DEF IngestInv
  <1>1. ASSUME NEW b \in bars PROVE b.day <= today' /\ \E r \in ident' : r.inst = b.inst
    <2>1. b.day \in Nat /\ today \in Nat /\ today' \in Nat
      BY <1>0, Bounds DEF TypeInv, Bars
    <2> QED
      BY <1>0, <2>1 DEF IngestInv, Stored, Grows
  <1>2. CASE UNCHANGED bars
    BY <1>1, <1>2 DEF Stored
  <1>3. ASSUME NEW j \in Slots, NEW t \in Tickers, NEW s \in PriceSources, SyncTicker(j, t, s)
        PROVE  Stored'
    <2>1. PICK a \in ProviderAnswers(Asked(j, t)) : StoreAnswer(j, t, s, a)
      BY <1>3 DEF SyncTicker
    <2>2. Turn(j, t) /\ slot[j].iid[t] # 0 /\ today' = today /\ ident' = ident
      BY <1>3 DEF SyncTicker
    <2>3. Planned(j) /\ DayFits(j) /\ slot[j].day \in Nat /\ today \in Nat
      BY <1>0, <2>2 DEF IngestInv, Course, Turn, Planned, TypeInv, JobType
    <2>4. a.days \subseteq Asked(j, t)
      BY <1>0, <2>3, PlannedDay, AnswerIsWindow
    <2>5. \A d \in Asked(j, t) : d <= today
      BY <2>3, Bounds DEF Asked, DayFits
    <2>6. \E r \in ident : r.inst = slot[j].iid[t]
      BY <2>2 DEF IngestInv, Course, ResolvedFits, Turn, InstrumentsOf
    <2>7. ASSUME NEW b \in bars' \ bars
          PROVE  b.day <= today' /\ \E r \in ident' : r.inst = b.inst
      BY <2>1, <2>2, <2>4, <2>5, <2>6 DEF StoreAnswer, Rows
    <2> QED
      BY <1>1, <2>7 DEF Stored
  <1>4. ASSUME NEW j \in Slots, RunStep(j) PROVE Stored'
    BY <1>2, <1>3, <1>4
       DEF RunStep, PlanSync, ResolveInstruments, QueryMax, ReportFreshness, PlanMirror,
           PlanBootstrap, ScaffoldTicker, EndBootstrap, ReadMaster, StoreMaster, Die,
           SkipUnresolved, SyncTickerFails, FailTicker
  <1>5. CASE NextDay \/ UNCHANGED vars
    BY <1>2, <1>5 DEF NextDay, vars
  <1> QED
    BY <1>4, <1>5, StepKinds

LEMMA StepCourse ==
  ASSUME IngestInv, TypeInv', [Next]_vars, NEW k \in Slots
  PROVE  Course(k)'
  <1>0. TypeInv /\ Grows /\ Course(k) /\ today' \in Nat /\ today \in Nat
        /\ slot \in [Slots -> JobType] /\ slot[k] \in JobType /\ k \in DOMAIN slot
    BY StepGrows DEF IngestInv, TypeInv
  <1>1. CASE slot'[k] = slot[k]
    BY <1>0, <1>1, CourseKept
  <1>2. ASSUME NEW new, slot' = [slot EXCEPT ![k] = new] PROVE slot'[k] = new
    BY <1>0, <1>2
  <1>3. ~Idle.outcome.clean /\ Idle.phase = "idle"
    BY DEF Idle, NoOutcome
  <1>4. CASE PlanSync(k)
    <2>1. /\ slot'[k].phase = "planned" /\ slot'[k].day = today /\ slot'[k].last = LatestPerTicker
          /\ ~slot'[k].outcome.clean
      BY <1>2, <1>4 DEF PlanSync, Idle, NoOutcome
    <2>2. DayFits(k)' /\ ResolvedFits(k)' /\ MeasuredFits(k)' /\ CleanFits(k)' /\ HealedFits(k)'
      BY <1>0, <1>4, <2>1 DEF DayFits, Planned, ResolvedFits, MeasuredFits, CleanFits, HealedFits,
                             PlanSync, TypeInv
    <2>3. ASSUME NEW t \in Tickers
          PROVE  LatestPerTicker[t] = NoDay
                 \/ (LatestPerTicker[t] \in DaysOf(t) /\ LatestPerTicker[t] <= today)
      <3>1. LatestPerTicker[t] = Newest(DaysOf(t)) /\ DaysOf(t) \subseteq TradingDays
        BY <1>0, DaysTyped DEF LatestPerTicker
      <3>2. \A d \in DaysOf(t) : d <= today
        BY DEF IngestInv, Stored, DaysOf
      <3> QED
        BY <3>1, <3>2, NewestOfTradingDays
    <2>4. SawFits(k)'
      BY <1>0, <2>1, <2>3, DaysGrow DEF SawFits
    <2> QED
      BY <2>2, <2>4 DEF Course
  <1>5. CASE ResolveInstruments(k)
    <2>1. PICK iid \in [Tickers -> Instruments \cup {0}] :
            /\ \A t \in Tickers : IF t \in Named THEN iid[t] \in InstrumentsOf(t) ELSE iid[t] = 0
            /\ slot' = [slot EXCEPT ![k].phase = "syncing", ![k].iid = iid]
      BY <1>5 DEF ResolveInstruments
    <2>2. /\ slot'[k].phase = "syncing" /\ slot'[k].iid = iid /\ slot'[k].day = slot[k].day
          /\ slot'[k].last = slot[k].last /\ slot'[k].outcome = slot[k].outcome
      BY <1>0, <2>1 DEF JobType
    <2>3. slot[k].phase = "planned" /\ Planned(k) /\ ~slot[k].outcome.clean
      BY <1>0, <1>5 DEF ResolveInstruments, Planned, Course, CleanFits
    <2>4. DayFits(k)' /\ MeasuredFits(k)' /\ CleanFits(k)' /\ HealedFits(k)'
      BY <1>0, <1>5, <2>2, <2>3
         DEF Course, DayFits, MeasuredFits, CleanFits, HealedFits, ResolveInstruments
    <2>5. SawFits(k)'
      BY <1>0, <2>2, <2>3, DaysGrow DEF Course, SawFits
    <2>6. ResolvedFits(k)'
      BY <1>0, <2>1, <2>2, DaysGrow DEF ResolvedFits
    <2> QED
      BY <2>4, <2>5, <2>6 DEF Course
  <1>6. ASSUME NEW t \in Tickers, SkipUnresolved(k, t) \/ SyncTickerFails(k, t)
        PROVE  Course(k)'
    <2> DEFINE outcome == [NoOutcome EXCEPT !.state = "failed"]
    <2>1. outcome \in Outcomes /\ ~outcome.clean
      BY DEF NoOutcome, Outcomes
    <2>2. Turn(k, t) /\ today' = today /\ EndTicker(k, outcome)
      BY <1>6 DEF SkipUnresolved, SyncTickerFails, FailTicker
    <2> HIDE DEF outcome
    <2> QED
      BY <1>0, <2>1, <2>2, CourseNextTicker
  <1>7. ASSUME NEW t \in Tickers, NEW s \in PriceSources, SyncTicker(k, t, s)
        PROVE  Course(k)'
    <2>1. PICK a \in ProviderAnswers(Asked(k, t)) : StoreAnswer(k, t, s, a)
      BY <1>7 DEF SyncTicker
    <2>2. Turn(k, t) /\ today' = today /\ DayFits(k)
      BY <1>0, <1>7 DEF SyncTicker, Course
    <2>3. PICK outcome \in Outcomes :
            /\ outcome.clean => a = Answer(Asked(k, t), NoDay, NoDay)
            /\ EndTicker(k, outcome)
      BY <1>0, <2>1, <2>2, StoreAnswerEffect
    <2>4. outcome.clean => Healed(k, t)'
      BY <1>0, <2>1, <2>2, <2>3, CleanHeals
    <2> QED
      BY <1>0, <2>2, <2>3, <2>4, CourseNextTicker
  <1>8. CASE QueryMax(k)
    <2>1. /\ slot'[k].phase = "measured" /\ slot'[k].max = Newest({b.day : b \in bars})
          /\ ~slot'[k].outcome.clean
      BY <1>2, <1>8 DEF QueryMax, Idle, NoOutcome
    <2>2. {b.day : b \in bars} \subseteq TradingDays
      BY <1>0 DEF TypeInv, Bars
    <2>3. slot'[k].max = NoDay \/ \E b \in bars' : b.day = slot'[k].max
      <3> DEFINE days == {b.day : b \in bars}
      <3>1. Newest(days) = NoDay \/ Newest(days) \in days
        <4> HIDE DEF days
        <4>1. days \subseteq TradingDays
          BY <2>2 DEF days
        <4> QED
          BY <4>1, NewestOfTradingDays
      <3>2. bars \subseteq bars'
        BY <1>0 DEF Grows
      <3> QED
        BY <2>1, <3>1, <3>2
    <2> QED
      BY <2>1, <2>3
         DEF Course, DayFits, SawFits, Planned, ResolvedFits, MeasuredFits, CleanFits, HealedFits
  <1>9. CASE ReportFreshness(k)
    <2>1. slot'[k].phase = "done" /\ ~slot'[k].outcome.clean
      BY <1>2, <1>9 DEF ReportFreshness, Idle, NoOutcome
    <2> QED
      BY <2>1, CourseBlank
  <1>17. CASE PlanMirror(k)
    <2>1. PICK found : slot' = [slot EXCEPT ![k] = [Idle EXCEPT !.phase = "mapped", !.targets = found]]
      BY <1>17 DEF PlanMirror
    <2>2. slot'[k] = [Idle EXCEPT !.phase = "mapped", !.targets = found]
      BY <1>2, <2>1
    <2>3. slot'[k].phase = "mapped" /\ ~slot'[k].outcome.clean
      BY <2>2 DEF Idle, NoOutcome
    <2> QED
      BY <2>3, CourseBlank
  <1>10. CASE ReadMaster(k)
    <2>1. PICK filter : slot' = [slot EXCEPT ![k] =
            [Idle EXCEPT !.phase = "mastering", !.targets = filter,
                         !.known = {i.ticker : i \in {r \in ident : r.source = "sec"}}]]
      BY <1>10 DEF ReadMaster
    <2>2. slot'[k] = [Idle EXCEPT !.phase = "mastering", !.targets = filter,
                       !.known = {i.ticker : i \in {r \in ident : r.source = "sec"}}]
      BY <1>2, <2>1
    <2>3. slot'[k].phase = "mastering" /\ ~slot'[k].outcome.clean
      BY <2>2 DEF Idle, NoOutcome
    <2> QED
      BY <2>3, CourseBlank
  <1>11. CASE PlanBootstrap(k)
    <2>1. slot[k].phase = "mapped" => ~slot[k].outcome.clean
      BY <1>0 DEF Course, CleanFits
    <2>2. slot'[k].phase = "scaffolding" /\ ~slot'[k].outcome.clean
      <3>1. CASE Begin(k, "bootstrap") /\ slot' = [slot EXCEPT ![k] =
                   [Idle EXCEPT !.phase = "scaffolding", !.targets = Tickers \ ProtectedTickers,
                                !.known = Existing]]
        BY <1>0, <3>1 DEF Idle, NoOutcome
      <3>2. CASE /\ slot[k].phase = "mapped"
                 /\ slot' = [slot EXCEPT ![k].phase = "scaffolding", ![k].known = Existing]
        BY <1>0, <2>1, <3>2 DEF JobType
      <3> QED
        BY <1>11, <3>1, <3>2 DEF PlanBootstrap
    <2> QED
      BY <2>2, CourseBlank
  <1>12. CASE ScaffoldTicker(k)
    <2>1. ~slot[k].outcome.clean
      BY <1>0, <1>12 DEF ScaffoldTicker, Course, CleanFits
    <2>2. slot'[k].phase = "scaffolding" /\ ~slot'[k].outcome.clean
      BY <1>0, <1>12, <2>1 DEF ScaffoldTicker, JobType
    <2> QED
      BY <2>2, CourseBlank
  <1>13. CASE StoreMaster(k) \/ EndBootstrap(k) \/ Die(k)
    <2>1. slot'[k] = Idle
      BY <1>2, <1>13 DEF StoreMaster, EndBootstrap, Die
    <2> QED
      BY <1>3, <2>1, CourseBlank
  <1>14. CASE RunStep(k)
    BY <1>4, <1>5, <1>6, <1>7, <1>8, <1>9, <1>10, <1>11, <1>12, <1>13, <1>14, <1>17
       DEF RunStep
  <1>15. ASSUME NEW j \in Slots, RunStep(j), j # k PROVE slot'[k] = slot[k]
    BY <1>0, <1>15, RunStepsAlone
  <1>16. NextDay \/ UNCHANGED vars => slot'[k] = slot[k]
    BY DEF NextDay, vars
  <1> QED
    BY <1>1, <1>14, <1>15, <1>16, StepKinds

LEMMA StepIngest == IngestInv /\ [Next]_vars => IngestInv'
  <1> SUFFICES ASSUME IngestInv, [Next]_vars PROVE IngestInv'
    OBVIOUS
  <1>1. TypeInv'
    BY StepTypes DEF IngestInv, Course
  <1>2. Stored'
    BY <1>1, StepStored
  <1>3. \A k \in Slots : Course(k)'
    BY <1>1, StepCourse
  <1> QED
    BY <1>1, <1>2, <1>3 DEF IngestInv

THEOREM IngestionRuns == Spec => []IngestInv
  BY InitCourse, StepIngest, PTL DEF Spec

-------------------------------------------------------------------------------
(* LookbackHeals.                                                          *)

\* After a clean answer the instrument has every bar the plan asked for, however many
\* runs overlap, die and fail: LookbackHeals.
THEOREM CleanAnswersHeal == Spec => []LookbackHeals
  <1>1. IngestInv => LookbackHeals
    BY DEF IngestInv, Course, HealedFits, Healed, PlanStart, LookbackHeals
  <1> QED
    BY <1>1, IngestionRuns, PTL

-------------------------------------------------------------------------------
(* FreshIsTrue.                                                            *)

\* The only step that says "fresh".
LEMMA WhoReports ==
  ASSUME IngestInv, [Next]_vars, NEW j \in Slots, slot[j].report = "none", slot'[j].report = "fresh"
  PROVE  ReportFreshness(j) /\ slot'[j].report = FreshnessStatus(slot[j].max, LatestPerTicker, today)
  <1>0. TypeInv /\ slot \in [Slots -> JobType] /\ slot[j] \in JobType /\ j \in DOMAIN slot
    BY DEF IngestInv, TypeInv
  <1>1. RunStep(j)
    <2>1. NextDay \/ UNCHANGED vars => slot' = slot
      BY DEF NextDay, vars
    <2>2. \A k \in Slots : RunStep(k) /\ k # j => slot'[j] = slot[j]
      BY <1>0, RunStepsAlone
    <2> QED
      BY <2>1, <2>2, StepKinds
  <1>2. ASSUME NEW new, slot' = [slot EXCEPT ![j] = new] PROVE slot'[j] = new
    BY <1>0, <1>2
  <1>3. Idle.report = "none"
    BY DEF Idle
  <1>4. ~PlanSync(j)
    BY <1>2 DEF PlanSync, Idle
  <1>5. ~QueryMax(j)
    BY <1>2 DEF QueryMax, Idle
  <1>6. ~ResolveInstruments(j)
    <2>1. ASSUME NEW iid, slot' = [slot EXCEPT ![j].phase = "syncing", ![j].iid = iid]
          PROVE  slot'[j].report = slot[j].report
      BY <1>0, <2>1 DEF JobType
    <2> QED
      BY <2>1 DEF ResolveInstruments
  <1>7. ~PlanMirror(j) /\ ~ReadMaster(j)
    <2>1. ASSUME NEW found,
                 slot' = [slot EXCEPT ![j] = [Idle EXCEPT !.phase = "mapped", !.targets = found]]
          PROVE  slot'[j].report = "none"
      BY <1>2, <2>1 DEF Idle
    <2>2. ASSUME NEW filter, NEW known,
                 slot' = [slot EXCEPT ![j] = [Idle EXCEPT !.phase = "mastering", !.targets = filter,
                                                        !.known = known]]
          PROVE  slot'[j].report = "none"
      BY <1>2, <2>2 DEF Idle
    <2>3. ASSUME PlanMirror(j) PROVE FALSE
      <3>1. PICK found \in SUBSET (Tickers \ (Mapped \cup ProtectedTickers)) :
              slot' = [slot EXCEPT ![j] = [Idle EXCEPT !.phase = "mapped", !.targets = found]]
        BY <2>3 DEF PlanMirror
      <3> QED
        BY <2>1, <3>1
    <2>4. ASSUME ReadMaster(j) PROVE FALSE
      <3> DEFINE secs == {i.ticker : i \in {r \in ident : r.source = "sec"}}
      <3>1. PICK filter \in SUBSET Tickers :
              slot' = [slot EXCEPT ![j] = [Idle EXCEPT !.phase = "mastering", !.targets = filter,
                                                     !.known = secs]]
        BY <2>4 DEF ReadMaster
      <3> HIDE DEF secs
      <3> QED
        BY <2>2, <3>1
    <2> QED
      BY <2>3, <2>4
  <1>8. ~PlanBootstrap(j)
    <2>1. slot' # [slot EXCEPT ![j] = [Idle EXCEPT !.phase = "scaffolding",
                                       !.targets = Tickers \ ProtectedTickers, !.known = Existing]]
      BY <1>0 DEF Idle
    <2>2. slot' # [slot EXCEPT ![j].phase = "scaffolding", ![j].known = Existing]
      BY <1>0 DEF JobType
    <2> QED
      BY <2>1, <2>2 DEF PlanBootstrap
  <1>9. ~ScaffoldTicker(j)
    BY <1>0 DEF ScaffoldTicker, JobType
  <1>10. ~StoreMaster(j) /\ ~EndBootstrap(j) /\ ~Die(j)
    BY <1>2, <1>3 DEF StoreMaster, EndBootstrap, Die
  <1>11. \A outcome \in Outcomes : ~EndTicker(j, outcome)
    <2>1. ASSUME NEW outcome \in Outcomes, EndTicker(j, outcome) PROVE FALSE
      <3>1. slot'[j] = [slot[j] EXCEPT !.pos = slot[j].pos + 1, !.outcome = outcome]
        BY <1>0, <2>1, EndTickerTyped
      <3> QED
        BY <1>0, <3>1 DEF JobType
    <2> QED
      BY <2>1
  <1>12. \A t \in Tickers : ~SkipUnresolved(j, t) /\ ~SyncTickerFails(j, t)
    <2>1. [NoOutcome EXCEPT !.state = "failed"] \in Outcomes
      BY DEF NoOutcome, Outcomes
    <2> QED
      BY <1>11, <2>1 DEF SkipUnresolved, SyncTickerFails, FailTicker
  <1>13. ASSUME NEW t \in Tickers, NEW s \in PriceSources, SyncTicker(j, t, s) PROVE FALSE
    <2>1. PICK a \in ProviderAnswers(Asked(j, t)) : StoreAnswer(j, t, s, a)
      BY <1>13 DEF SyncTicker
    <2>2. Turn(j, t) /\ DayFits(j)
      BY <1>13 DEF SyncTicker, IngestInv, Course
    <2> QED
      BY <1>0, <1>11, <2>1, <2>2, StoreAnswerEffect
  <1>14. ReportFreshness(j)
    BY <1>1, <1>4, <1>5, <1>6, <1>7, <1>8, <1>9, <1>10, <1>12, <1>13 DEF RunStep
  <1>15. slot'[j].report = FreshnessStatus(slot[j].max, LatestPerTicker, today)
    <2>1. slot'[j] = [Idle EXCEPT !.phase = "done",
                       !.report = FreshnessStatus(slot[j].max, LatestPerTicker, today)]
      BY <1>2, <1>14 DEF ReportFreshness
    <2> QED
      BY <2>1 DEF Idle
  <1> QED
    BY <1>14, <1>15

\* The status is "fresh" although the two queries saw different moments only when no
\* ticker with bars is behind: the newest bar of the first query is some ticker's.
LEMMA FreshStatus ==
  ASSUME IngestInv, NEW j \in Slots, slot[j].phase = "measured",
         FreshnessStatus(slot[j].max, LatestPerTicker, today) = "fresh", NEW t \in Tickers
  PROVE  DaysOf(t) = {} \/ Newest(DaysOf(t)) >= ExpectedMin(today)
  <1>0. TypeInv /\ Stored /\ Course(j) /\ slot[j] \in JobType /\ today \in Nat
    BY DEF IngestInv, TypeInv
  <1>1. ExpectedMin(today) \in Int
    BY <1>0, ExpectedIsDay
  <1>2. \A u \in Tickers : /\ LatestPerTicker[u] = Newest(DaysOf(u)) /\ Newest(DaysOf(u)) \in Int
                           /\ Newest(DaysOf(u)) = NoDay <=> DaysOf(u) = {}
                           /\ \A d \in DaysOf(u) : d <= Newest(DaysOf(u))
    BY <1>0, DaysTyped, NewestOfTradingDays DEF LatestPerTicker
  <1>3. /\ Fresh(LatestPerTicker, today) = {} \/ Stale(LatestPerTicker, today) = {}
        /\ slot[j].max # NoDay /\ slot[j].max >= ExpectedMin(today)
    BY DEF FreshnessStatus, LagStatus
  <1>4. PICK b \in bars : b.day = slot[j].max
    BY <1>0, <1>3 DEF Course, MeasuredFits
  <1>5. PICK r \in ident : r.inst = b.inst
    BY <1>0 DEF Stored
  <1>6. r.ticker \in Tickers /\ r.ticker \in Named /\ b.day \in DaysOf(r.ticker)
    BY <1>0, <1>4, <1>5 DEF TypeInv, IdentType, Identifiers, Named, DaysOf, InstrumentsOf
  <1>7. Newest(DaysOf(r.ticker)) >= ExpectedMin(today) /\ Newest(DaysOf(r.ticker)) # NoDay
    <2>1. b.day <= Newest(DaysOf(r.ticker)) /\ b.day >= ExpectedMin(today) /\ b.day \in Int
      BY <1>0, <1>2, <1>3, <1>4, <1>6 DEF JobType
    <2> QED
      BY <1>1, <1>2, <1>6, <2>1
  <1>8. r.ticker \in Fresh(LatestPerTicker, today)
    BY <1>2, <1>6, <1>7 DEF Fresh
  <1>9. Stale(LatestPerTicker, today) = {}
    BY <1>3, <1>8
  <1>10. CASE DaysOf(t) = {}
    BY <1>10
  <1>11. CASE DaysOf(t) # {}
    <2>1. t \in Named
      BY <1>11 DEF DaysOf, InstrumentsOf, Named
    <2>2. ~(Newest(DaysOf(t)) < ExpectedMin(today))
      BY <1>2, <1>9, <1>11, <2>1 DEF Stale
    <2> QED
      BY <1>1, <1>2, <2>2
  <1> QED
    BY <1>10, <1>11

\* A report of "fresh" is true of every ticker at that moment, whatever other runs
\* commit between its two queries: FreshIsTrue.
THEOREM ReportsAreTrue == Spec => FreshIsTrue
  <1>1. ASSUME IngestInv, [Next]_vars, NEW j \in Slots,
               slot[j].report = "none", slot'[j].report = "fresh", NEW t \in Tickers
        PROVE  DaysOf(t) = {} \/ Newest(DaysOf(t)) >= ExpectedMin(today)
    <2>1. ReportFreshness(j) /\ FreshnessStatus(slot[j].max, LatestPerTicker, today) = "fresh"
      BY <1>1, WhoReports
    <2> QED
      BY <1>1, <2>1, FreshStatus DEF ReportFreshness
  <1>2. IngestInv /\ [Next]_vars =>
          [\A j \in Slots : slot[j].report = "none" /\ slot'[j].report = "fresh" =>
             \A t \in Tickers :
               DaysOf(t) = {} \/ Newest(DaysOf(t)) >= ExpectedMin(today)]_vars
    BY <1>1
  <1> QED
    BY <1>2, IngestionRuns, PTL DEF Spec, FreshIsTrue

-------------------------------------------------------------------------------
(* CountedIsStored.                                                        *)

\* The rows an answer adds are as many as it counts, one for each day inserted.
LEMMA AddedRows ==
  ASSUME IngestInv, NEW j \in Slots, NEW t \in Tickers, NEW source \in PriceSources, Turn(j, t),
         NEW a \in ProviderAnswers(Asked(j, t)), a.refused = NoDay, StoreAnswer(j, t, source, a)
  PROVE  Cardinality(bars' \ bars) = Cardinality(InsertedDays(a, slot[j].iid[t], source))
  <1> DEFINE iid == slot[j].iid[t]
             days == InsertedDays(a, iid, source)
             row == [d \in days |-> [inst |-> iid, day |-> d, source |-> source]]
  <1>0. TypeInv /\ DayFits(j) /\ Planned(j)
    BY DEF IngestInv, Course, Turn, Planned
  <1>1. a.days \subseteq TradingDays
    BY <1>0, PlannedDay, AnswerIsWindow DEF Asked
  <1>2. IsFiniteSet(days)
    BY <1>1, CountTyped
  <1>3. bars' = bars \cup Rows(a.days \ {a.bad}, iid, source)
    BY DEF StoreAnswer
  <1>4. bars' \ bars = {[inst |-> iid, day |-> d, source |-> source] : d \in days}
    BY <1>3 DEF Rows, InsertedDays
  <1>5. row \in Bijection(days, bars' \ bars)
    <2> HIDE DEF days, iid
    <2> QED
      BY <1>4 DEF Bijection, Injection, Surjection, IsInjective
  <1>6. ExistsBijection(days, bars' \ bars)
    BY <1>5 DEF ExistsBijection
  <1> HIDE DEF days
  <1>7. Cardinality(bars' \ bars) = Cardinality(days)
    BY <1>2, <1>6, FS_Bijection
  <1> QED
    BY <1>7 DEF days

LEMMA CountedStep ==
  ASSUME IngestInv, [Next]_vars, NEW j \in Slots,
         slot'[j].pos = slot[j].pos + 1, slot[j].phase = "syncing", ~slot'[j].outcome.aborted
  PROVE  Cardinality(bars' \ bars) = slot'[j].outcome.inserted
  <1>0. TypeInv /\ slot \in [Slots -> JobType] /\ slot[j] \in JobType /\ j \in DOMAIN slot
        /\ slot[j].pos \in Nat \ {0} /\ Course(j)
    BY DEF IngestInv, TypeInv, JobType
  <1>1. RunStep(j)
    <2>1. NextDay \/ UNCHANGED vars => slot' = slot
      BY DEF NextDay, vars
    <2>2. \A k \in Slots : RunStep(k) /\ k # j => slot'[j] = slot[j]
      BY <1>0, RunStepsAlone
    <2> QED
      BY <1>0, <2>1, <2>2, StepKinds
  <1>2. ASSUME NEW new, slot' = [slot EXCEPT ![j] = new] PROVE slot'[j] = new
    BY <1>0, <1>2
  <1>3. Idle.pos = 1 /\ 1 # slot[j].pos + 1
    BY <1>0 DEF Idle
  <1>4. ~QueryMax(j)
    BY <1>2, <1>3 DEF QueryMax, Idle
  <1>5. ~Die(j)
    BY <1>2, <1>3 DEF Die
  <1>6. ASSUME NEW t \in Tickers, SkipUnresolved(j, t) \/ SyncTickerFails(j, t)
        PROVE  Cardinality(bars' \ bars) = slot'[j].outcome.inserted
    <2> DEFINE failed == [NoOutcome EXCEPT !.state = "failed"]
    <2>1. failed \in Outcomes /\ failed.inserted = 0
      BY DEF NoOutcome, Outcomes
    <2>2. bars' = bars /\ EndTicker(j, failed)
      BY <1>6 DEF SkipUnresolved, SyncTickerFails, FailTicker
    <2> HIDE DEF failed
    <2>3. slot'[j].outcome = failed
      <3>1. slot'[j] = [slot[j] EXCEPT !.pos = slot[j].pos + 1, !.outcome = failed]
        BY <1>0, <2>1, <2>2, EndTickerTyped
      <3> QED
        BY <1>0, <3>1 DEF JobType
    <2>4. bars' \ bars = {}
      BY <2>2
    <2> QED
      BY <2>1, <2>3, <2>4, FS_EmptySet
  <1>7. ASSUME NEW t \in Tickers, NEW s \in PriceSources, SyncTicker(j, t, s)
        PROVE  Cardinality(bars' \ bars) = slot'[j].outcome.inserted
    <2>1. PICK a \in ProviderAnswers(Asked(j, t)) : StoreAnswer(j, t, s, a)
      BY <1>7 DEF SyncTicker
    <2>2. Turn(j, t) /\ DayFits(j)
      BY <1>0, <1>7 DEF SyncTicker, Course
    <2>3. PICK outcome \in Outcomes :
            /\ outcome.inserted = Cardinality(InsertedDays(a, slot[j].iid[t], s))
            /\ outcome.aborted = (a.refused # NoDay)
            /\ EndTicker(j, outcome)
      BY <1>0, <2>1, <2>2, StoreAnswerEffect
    <2>4. slot'[j].outcome = outcome
      <3>1. slot'[j] = [slot[j] EXCEPT !.pos = slot[j].pos + 1, !.outcome = outcome]
        BY <1>0, <2>3, EndTickerTyped
      <3> QED
        BY <1>0, <3>1 DEF JobType
    <2>5. a.refused = NoDay
      BY <2>3, <2>4
    <2> QED
      BY <2>1, <2>2, <2>3, <2>4, <2>5, AddedRows
  <1>8. \/ \E t \in Tickers : SkipUnresolved(j, t) \/ SyncTickerFails(j, t)
        \/ \E t \in Tickers, s \in PriceSources : SyncTicker(j, t, s)
    BY <1>1, <1>4, <1>5
       DEF RunStep, PlanSync, Begin, Ready, ResolveInstruments, ReportFreshness, PlanMirror,
           PlanBootstrap, ScaffoldTicker, EndBootstrap, ReadMaster, StoreMaster
  <1> QED
    BY <1>6, <1>7, <1>8

\* A ticker's count is the number of rows its transaction added, unless a refused row
\* aborted it: CountedIsStored.
THEOREM CountsAreTrue == Spec => CountedIsStored
  <1>1. IngestInv /\ [Next]_vars =>
          [\A j \in Slots :
             slot'[j].pos = slot[j].pos + 1 /\ slot[j].phase = "syncing" /\ ~slot'[j].outcome.aborted
             => Cardinality(bars' \ bars) = slot'[j].outcome.inserted]_vars
    BY CountedStep
  <1> QED
    BY <1>1, IngestionRuns, PTL DEF Spec, CountedIsStored

-------------------------------------------------------------------------------
(* DuplicateHasCause: as long as one run writes instruments at a time, what its *)
(* plan read stays true until it has written the last of its rows.              *)

\* A bootstrap knows the ticker of every row there is, from its plan or because it has
\* passed it; a security master knows the tickers of its own source.
PlanHolds(j) ==
  /\ slot[j].phase = "scaffolding" =>
       \A r \in ident : r.ticker \in slot[j].known
                        \/ \E i \in DOMAIN Universe : i < slot[j].pos /\ r.ticker = Universe[i]
  /\ slot[j].phase = "mastering" =>
       \A r \in ident : r.source = "sec" => r.ticker \in slot[j].known

OneScaffolds == \A j, k \in Slots : Scaffolding(j) /\ Scaffolding(k) => j = k

SecondIsMasters ==
  \A r, s \in ident :
    r.ticker = s.ticker /\ r.inst < s.inst => r.source = "bootstrap_prod" /\ s.source = "sec"

AloneInv == ~overlapped => OneScaffolds /\ SecondIsMasters /\ \A j \in Slots : PlanHolds(j)

LEMMA InitAlone == Init => AloneInv
  <1> SUFFICES ASSUME Init PROVE AloneInv
    OBVIOUS
  <1> DEFINE order == SetToSeq(ProtectedTickers)
  <1>1. IsFiniteSet(ProtectedTickers)
    BY TickersFinite, FS_Subset, IngestionAssumption
  <1>2. order \in [1 .. Cardinality(ProtectedTickers) -> ProtectedTickers] /\ IsInjective(order)
    BY <1>1, FS_CardinalityType DEF SetToSeq, ExistsBijection, Bijection, Injection
  <1> HIDE DEF order
  <1>3. ident = {[ticker |-> order[i], inst |-> i, source |-> "sec"] : i \in 1 .. Cardinality(ProtectedTickers)}
    BY <1>2 DEF Init, Curated, order
  <1>4. SecondIsMasters
    BY <1>2, <1>3, <1>1, FS_CardinalityType DEF SecondIsMasters, IsInjective
  <1>5. \A j \in Slots : slot[j].phase = "idle"
    BY DEF Init, Idle
  <1> QED
    BY <1>4, <1>5 DEF AloneInv, OneScaffolds, PlanHolds, Scaffolding

\* The steps after which a run is a scaffolding run.
LEMMA WhoScaffolds ==
  ASSUME IngestInv, NEW j \in Slots, RunStep(j), Scaffolding(j)'
  PROVE  PlanMirror(j) \/ PlanBootstrap(j) \/ ReadMaster(j) \/ ScaffoldTicker(j)
  <1>0. TypeInv /\ slot \in [Slots -> JobType] /\ slot[j] \in JobType /\ j \in DOMAIN slot
    BY DEF IngestInv, TypeInv
  <1>1. slot'[j].phase \in {"mapped", "scaffolding", "mastering"}
    BY DEF Scaffolding
  <1>2. ASSUME NEW new, slot' = [slot EXCEPT ![j] = new] PROVE slot'[j] = new
    BY <1>0, <1>2
  <1>3. Idle.phase = "idle"
    BY DEF Idle
  <1>4. ~PlanSync(j)
    BY <1>1, <1>2 DEF PlanSync, Idle
  <1>5. ~QueryMax(j)
    BY <1>1, <1>2 DEF QueryMax, Idle
  <1>6. ~ResolveInstruments(j)
    <2>1. ASSUME NEW iid, slot' = [slot EXCEPT ![j].phase = "syncing", ![j].iid = iid]
          PROVE  slot'[j].phase = "syncing"
      BY <1>0, <2>1 DEF JobType
    <2> QED
      BY <1>1, <2>1 DEF ResolveInstruments
  <1>7. ~ReportFreshness(j)
    BY <1>1, <1>2 DEF ReportFreshness, Idle
  <1>8. ~StoreMaster(j) /\ ~EndBootstrap(j) /\ ~Die(j)
    BY <1>1, <1>2, <1>3 DEF StoreMaster, EndBootstrap, Die
  <1>9. \A outcome \in Outcomes : ~(EndTicker(j, outcome) /\ slot[j].phase = "syncing")
    <2>1. ASSUME NEW outcome \in Outcomes, EndTicker(j, outcome), slot[j].phase = "syncing"
          PROVE  FALSE
      <3>1. slot'[j] = [slot[j] EXCEPT !.pos = slot[j].pos + 1, !.outcome = outcome]
        BY <1>0, <2>1, EndTickerTyped
      <3> QED
        BY <1>0, <1>1, <2>1, <3>1 DEF JobType
    <2> QED
      BY <2>1
  <1>10. \A t \in Tickers : ~SkipUnresolved(j, t) /\ ~SyncTickerFails(j, t)
    <2>1. [NoOutcome EXCEPT !.state = "failed"] \in Outcomes
      BY DEF NoOutcome, Outcomes
    <2> QED
      BY <1>9, <2>1 DEF SkipUnresolved, SyncTickerFails, FailTicker, Turn
  <1>11. ASSUME NEW t \in Tickers, NEW s \in PriceSources, SyncTicker(j, t, s) PROVE FALSE
    <2>1. PICK a \in ProviderAnswers(Asked(j, t)) : StoreAnswer(j, t, s, a)
      BY <1>11 DEF SyncTicker
    <2>2. Turn(j, t) /\ DayFits(j) /\ slot[j].phase = "syncing"
      BY <1>11 DEF SyncTicker, Turn, IngestInv, Course
    <2> QED
      BY <1>0, <1>9, <2>1, <2>2, StoreAnswerEffect
  <1> QED
    BY <1>4, <1>5, <1>6, <1>7, <1>8, <1>10, <1>11 DEF RunStep

\* A run's plan marks the overlap with the runs already under way.
LEMMA PlansMarkOverlap ==
  ASSUME IngestInv, NEW j \in Slots, RunStep(j), ~overlapped'
  PROVE  /\ ~overlapped
         /\ Scaffolding(j)' => Scaffolding(j) \/ \A k \in Slots \ {j} : ~Scaffolding(k)
  <1>1. CASE PlanMirror(j) \/ PlanBootstrap(j) \/ ReadMaster(j)
    BY <1>1 DEF PlanMirror, PlanBootstrap, ReadMaster
  <1>2. CASE ScaffoldTicker(j)
    BY <1>2 DEF ScaffoldTicker, Scaffolding
  <1>3. CASE ~(PlanMirror(j) \/ PlanBootstrap(j) \/ ReadMaster(j) \/ ScaffoldTicker(j))
    <2>1. ~Scaffolding(j)'
      BY <1>3, WhoScaffolds
    <2>2. UNCHANGED overlapped
      BY <1>3 DEF RunStep, PlanSync, ResolveInstruments, QueryMax, ReportFreshness,
                  EndBootstrap, StoreMaster, Die, SkipUnresolved, SyncTickerFails, SyncTicker
    <2> QED
      BY <2>1, <2>2
  <1> QED
    BY <1>1, <1>2, <1>3

\* Only a ticker of the bootstrap's turn and a master's transaction write rows.
LEMMA WhoWritesRows ==
  ASSUME NEW j \in Slots, RunStep(j)
  PROVE  \/ UNCHANGED ident
         \/ /\ ScaffoldTicker(j) /\ slot[j].phase = "scaffolding" /\ slot[j].pos <= Len(Universe)
            /\ Universe[slot[j].pos] \in slot[j].targets \ slot[j].known
            /\ ident' = ident \cup {Scaffold(Universe[slot[j].pos])}
         \/ StoreMaster(j) /\ slot[j].phase = "mastering" /\ MasterWrites(j)
  <1>1. CASE ScaffoldTicker(j)
    BY <1>1 DEF ScaffoldTicker
  <1>2. CASE StoreMaster(j)
    BY <1>2 DEF StoreMaster, MasterWrites
  <1>3. CASE ~ScaffoldTicker(j) /\ ~StoreMaster(j)
    BY <1>3 DEF RunStep, PlanSync, ResolveInstruments, QueryMax, ReportFreshness, PlanMirror,
                PlanBootstrap, ReadMaster, EndBootstrap, Die, SkipUnresolved, SyncTickerFails,
                SyncTicker
  <1> QED
    BY <1>1, <1>2, <1>3

LEMMA RowsKeepCause ==
  ASSUME IngestInv, NEW j \in Slots, RunStep(j), SecondIsMasters, PlanHolds(j)
  PROVE  SecondIsMasters'
  <1>0. IdentType /\ TypeInv /\ slot[j] \in JobType /\ Cardinality(ident) \in Nat
    BY FS_CardinalityType DEF IngestInv, TypeInv, IdentType
  <1>1. \A r \in ident : /\ r.inst \in Nat /\ r.inst <= Cardinality(ident)
                         /\ r.source \in {"sec", "bootstrap_prod"}
    BY <1>0 DEF IdentType, Identifiers, Numbered
  <1>2. ASSUME slot[j].phase = "scaffolding", slot[j].pos <= Len(Universe),
               Universe[slot[j].pos] \in slot[j].targets \ slot[j].known,
               ident' = ident \cup {Scaffold(Universe[slot[j].pos])}
        PROVE  SecondIsMasters'
    <2> DEFINE t == Universe[slot[j].pos]
    <2>1. \A r \in ident : r.ticker # t
      <3>1. slot[j].pos \in DOMAIN Universe /\ slot[j].pos \in Nat
        BY <1>0, <1>2, TurnTicker DEF JobType
      <3>2. \A i \in DOMAIN Universe : Universe[i] = t => i = slot[j].pos
        BY <3>1, IngestionAssumption DEF IsInjective
      <3> QED
        BY <1>2, <3>1, <3>2 DEF PlanHolds
    <2>2. Scaffold(t).ticker = t /\ ~(Scaffold(t).inst < Scaffold(t).inst)
      BY <1>0 DEF Scaffold, NewId
    <2>3. ASSUME NEW r \in ident', NEW s \in ident', r.ticker = s.ticker, r.inst < s.inst
          PROVE  r \in ident /\ s \in ident
      BY <1>2, <2>1, <2>2, <2>3
    <2> QED
      BY <2>3 DEF SecondIsMasters
  <1>3. ASSUME slot[j].phase = "mastering", MasterWrites(j)
        PROVE  SecondIsMasters'
    <2> DEFINE new == slot[j].targets \ slot[j].known
    <2>1. PICK inst \in Injection(new, NewId .. Cardinality(ident) + Cardinality(new)) :
            ident' = ident \cup {[ticker |-> t, inst |-> inst[t], source |-> "sec"] : t \in new}
      BY <1>3 DEF MasterWrites
    <2>2. IsFiniteSet(new)
      BY <1>0, TickersFinite, FS_Subset DEF JobType
    <2>3. Cardinality(new) \in Nat
      BY <2>2, FS_CardinalityType
    <2>4. \A t \in new : inst[t] \in Nat /\ inst[t] > Cardinality(ident)
      BY <1>0, <2>1, <2>3 DEF Injection, NewId
    <2>5. \A r \in ident : r.ticker \in new => r.source = "bootstrap_prod"
      BY <1>1, <1>3 DEF PlanHolds
    <2>6. ASSUME NEW r \in ident', NEW s \in ident', r.ticker = s.ticker, r.inst < s.inst
          PROVE  r.source = "bootstrap_prod" /\ s.source = "sec"
      <3>1. CASE r \in ident /\ s \in ident
        BY <2>6, <3>1 DEF SecondIsMasters
      <3>2. CASE r \in ident /\ s \notin ident
        BY <2>1, <2>5, <2>6, <3>2
      <3>3. CASE r \notin ident
        <4>1. PICK t \in new : r = [ticker |-> t, inst |-> inst[t], source |-> "sec"]
          BY <2>1, <2>6, <3>3
        <4>2. s \in ident => FALSE
          BY <1>0, <1>1, <2>4, <2>6, <4>1
        <4> QED
          BY <2>1, <2>4, <2>6, <4>1, <4>2
      <3> QED
        BY <3>1, <3>2, <3>3
    <2> QED
      BY <2>6 DEF SecondIsMasters
  <1>4. CASE UNCHANGED ident
    BY <1>4 DEF SecondIsMasters
  <1> QED
    BY <1>2, <1>3, <1>4, WhoWritesRows

LEMMA PlanStillHolds ==
  ASSUME IngestInv, NEW j \in Slots, RunStep(j), PlanHolds(j)
  PROVE  PlanHolds(j)'
  <1>0. TypeInv /\ slot \in [Slots -> JobType] /\ slot[j] \in JobType /\ j \in DOMAIN slot
    BY DEF IngestInv, TypeInv
  <1>1. CASE PlanMirror(j)
    <2>1. ASSUME NEW found,
                 slot' = [slot EXCEPT ![j] = [Idle EXCEPT !.phase = "mapped", !.targets = found]]
          PROVE  slot'[j].phase = "mapped"
      BY <1>0, <2>1 DEF Idle
    <2>2. slot'[j].phase = "mapped"
      BY <1>1, <2>1 DEF PlanMirror
    <2> QED
      BY <2>2 DEF PlanHolds
  <1>2. CASE PlanBootstrap(j)
    <2>1. slot'[j].phase = "scaffolding" /\ slot'[j].known = Existing
      <3>1. ASSUME slot' = [slot EXCEPT ![j] = [Idle EXCEPT !.phase = "scaffolding",
                                         !.targets = Tickers \ ProtectedTickers, !.known = Existing]]
            PROVE  slot'[j].phase = "scaffolding" /\ slot'[j].known = Existing
        BY <1>0, <3>1 DEF Idle
      <3>2. ASSUME slot' = [slot EXCEPT ![j].phase = "scaffolding", ![j].known = Existing]
            PROVE  slot'[j].phase = "scaffolding" /\ slot'[j].known = Existing
        BY <1>0, <3>2 DEF JobType
      <3> QED
        BY <1>2, <3>1, <3>2 DEF PlanBootstrap
    <2>2. ident' = ident
      BY <1>2 DEF PlanBootstrap
    <2> QED
      BY <2>1, <2>2 DEF PlanHolds, Existing, Named
  <1>3. CASE ReadMaster(j)
    <2> DEFINE secs == {i.ticker : i \in {r \in ident : r.source = "sec"}}
    <2>1. PICK filter \in SUBSET Tickers :
            slot' = [slot EXCEPT ![j] = [Idle EXCEPT !.phase = "mastering", !.targets = filter,
                                                   !.known = secs]]
      BY <1>3 DEF ReadMaster
    <2>2. ident' = ident
      BY <1>3 DEF ReadMaster
    <2>3. \A r \in ident : r.source = "sec" => r.ticker \in secs
      OBVIOUS
    <2> HIDE DEF secs
    <2>4. slot'[j].phase = "mastering" /\ slot'[j].known = secs
      BY <1>0, <2>1 DEF Idle
    <2> QED
      BY <2>2, <2>3, <2>4 DEF PlanHolds
  <1>4. CASE ScaffoldTicker(j)
    <2>1. slot' = [slot EXCEPT ![j].pos = slot[j].pos + 1] /\ slot[j].phase = "scaffolding"
          /\ slot[j].pos <= Len(Universe)
      BY <1>4 DEF ScaffoldTicker
    <2>2. /\ slot'[j].phase = "scaffolding" /\ slot'[j].known = slot[j].known
          /\ slot'[j].pos = slot[j].pos + 1 /\ slot[j].pos \in Nat
      BY <1>0, <2>1 DEF JobType
    <2>3. slot[j].pos \in DOMAIN Universe
      BY <1>0, <2>1, TurnTicker
    <2>4. ASSUME NEW r \in ident'
          PROVE  r.ticker \in slot'[j].known
                 \/ \E i \in DOMAIN Universe : i < slot'[j].pos /\ r.ticker = Universe[i]
      <3>1. CASE r \in ident
        <4>1. CASE r.ticker \in slot[j].known
          BY <2>2, <4>1
        <4>2. CASE \E i \in DOMAIN Universe : i < slot[j].pos /\ r.ticker = Universe[i]
          <5>1. DOMAIN Universe = 1 .. Len(Universe) /\ Len(Universe) \in Nat
            BY IngestionAssumption
          <5> QED
            BY <2>2, <4>2, <5>1
        <4> QED
          BY <2>1, <3>1, <4>1, <4>2 DEF PlanHolds
      <3>2. CASE r \notin ident
        <4>1. r = Scaffold(Universe[slot[j].pos])
          BY <1>4, <2>4, <3>2 DEF ScaffoldTicker
        <4>2. r.ticker = Universe[slot[j].pos] /\ slot[j].pos < slot'[j].pos
          BY <2>2, <4>1 DEF Scaffold
        <4> QED
          BY <2>3, <4>2
      <3> QED
        BY <3>1, <3>2
    <2> QED
      BY <2>2, <2>4 DEF PlanHolds
  <1>5. CASE ~Scaffolding(j)'
    BY <1>5 DEF PlanHolds, Scaffolding
  <1> QED
    BY <1>1, <1>2, <1>3, <1>4, <1>5, WhoScaffolds

LEMMA StepAlone == IngestInv /\ AloneInv /\ [Next]_vars => AloneInv'
  <1> SUFFICES ASSUME IngestInv, AloneInv, [Next]_vars, ~overlapped'
               PROVE  OneScaffolds' /\ SecondIsMasters' /\ \A k \in Slots : PlanHolds(k)'
    BY DEF AloneInv
  <1>0. TypeInv
    BY DEF IngestInv
  <1>1. CASE NextDay \/ UNCHANGED vars
    <2>1. UNCHANGED <<ident, slot, overlapped>>
      BY <1>1 DEF NextDay, vars
    <2> QED
      BY <2>1 DEF AloneInv, OneScaffolds, SecondIsMasters, PlanHolds, Scaffolding
  <1>2. ASSUME NEW j \in Slots, RunStep(j)
        PROVE  OneScaffolds' /\ SecondIsMasters' /\ \A k \in Slots : PlanHolds(k)'
    <2>1. ~overlapped /\ (Scaffolding(j)' => Scaffolding(j) \/ \A k \in Slots \ {j} : ~Scaffolding(k))
      BY <1>2, PlansMarkOverlap
    <2>2. OneScaffolds /\ SecondIsMasters /\ \A k \in Slots : PlanHolds(k)
      BY <2>1 DEF AloneInv
    <2>3. \A k \in Slots \ {j} : slot'[k] = slot[k]
      BY <1>0, <1>2, RunStepsAlone
    <2>4. \A k \in Slots \ {j} : Scaffolding(k)' <=> Scaffolding(k)
      BY <2>3 DEF Scaffolding
    <2>5. OneScaffolds'
      <3>1. ASSUME NEW k \in Slots, NEW l \in Slots, Scaffolding(k)', Scaffolding(l)'
            PROVE  k = l
        <4>1. CASE k = j \/ l = j
          BY <2>1, <2>2, <2>4, <3>1, <4>1 DEF OneScaffolds
        <4>2. CASE k # j /\ l # j
          BY <2>2, <2>4, <3>1, <4>2 DEF OneScaffolds
        <4> QED
          BY <4>1, <4>2
      <3> QED
        BY <3>1 DEF OneScaffolds
    <2>6. SecondIsMasters'
      BY <1>2, <2>2, RowsKeepCause
    <2>7. PlanHolds(j)'
      BY <1>2, <2>2, PlanStillHolds
    <2>8. ASSUME NEW k \in Slots \ {j} PROVE PlanHolds(k)'
      <3>1. CASE UNCHANGED ident
        <4>1. PlanHolds(k)
          BY <2>2
        <4> QED
          BY <2>3, <3>1, <4>1 DEF PlanHolds
      <3>2. CASE Scaffolding(j)
        <4>1. ~Scaffolding(k)'
          BY <2>2, <2>4, <3>2 DEF OneScaffolds
        <4> QED
          BY <4>1 DEF PlanHolds, Scaffolding
      <3> QED
        BY <1>2, <3>1, <3>2, WhoWritesRows DEF Scaffolding
    <2> QED
      BY <2>5, <2>6, <2>7, <2>8
  <1> QED
    BY <1>1, <1>2, StepKinds

\* Without an overlap of scaffolding runs, a ticker's second instrument is the security
\* master's and its first the bootstrap's: DuplicateHasCause.
THEOREM DuplicatesExplained == Spec => []DuplicateHasCause
  <1>1. AloneInv => DuplicateHasCause
    BY DEF AloneInv, SecondIsMasters, DuplicateHasCause
  <1> QED
    BY <1>1, InitAlone, StepAlone, IngestionRuns, PTL DEF Spec

-------------------------------------------------------------------------------
(* HolesHaveCause.  The days between two bars are seen because every window     *)
(* begins before the newest bar its plan saw.  A run whose plan saw no bar asks *)
(* for BootstrapDays days only: meanwhile another run may have stored bars,     *)
(* before its window or after its day, and leaves no unseen day between them    *)
(* and it.                                                                      *)

Seen(t, d) == d \in DaysOf(t) \/ <<t, d>> \in unread

Gapless(t) ==
  \A d \in TradingDays, e, f \in DaysOf(t) : e < d /\ d < f => Seen(t, d)

\* What others have stored meanwhile for a ticker that had no bar at the plan.
Fills(j, t) ==
  Planned(j) /\ slot[j].last[t] = NoDay =>
    /\ \A d \in TradingDays, f \in DaysOf(t) : slot[j].day <= d /\ d <= f => Seen(t, d)
    /\ \A d \in TradingDays, e \in DaysOf(t) : e < d /\ d < slot[j].day - BootstrapDays => Seen(t, d)

HoleInv == \A t \in Tickers : Gapless(t) /\ \A j \in Slots : Fills(j, t)

\* No run lasts longer than the window asked for when a ticker has no bar: 540 days,
\* as DEFAULT_BOOTSTRAP_DAYS has it.
RunsAreShort == \A j \in Slots : Planned(j) => today - slot[j].day <= BootstrapDays

PlanStays(j) ==
  Planned(j)' => Planned(j) /\ slot'[j].day = slot[j].day /\ slot'[j].last = slot[j].last

\* The days a stored answer adds are days of its own ticker.
LEMMA AnswerDays ==
  ASSUME IngestInv, NEW k \in Slots, NEW t \in Tickers, NEW source \in PriceSources,
         SyncTicker(k, t, source),
         NEW a \in ProviderAnswers(Asked(k, t)), StoreAnswer(k, t, source, a)
  PROVE  /\ DaysOf(t)' = DaysOf(t) \cup (IF a.refused = NoDay THEN a.days \ {a.bad} ELSE {})
         /\ \A u \in Tickers \ {t} : DaysOf(u)' = DaysOf(u)
  <1> DEFINE iid == slot[k].iid[t]
             added == IF a.refused = NoDay THEN a.days \ {a.bad} ELSE {}
  <1>1. iid \in InstrumentsOf(t) /\ ident' = ident
    BY DEF SyncTicker, IngestInv, Course, ResolvedFits, Turn
  <1>2. bars' = bars \cup Rows(added, iid, source)
    BY DEF StoreAnswer, Rows
  <1>3. \A u \in Tickers : InstrumentsOf(u)' = InstrumentsOf(u)
    BY <1>1 DEF InstrumentsOf
  <1>4. \A u \in Tickers \ {t} : iid \notin InstrumentsOf(u)
    BY <1>1 DEF InstrumentsOf, IngestInv, TypeInv, IdentType, Numbered
  <1> HIDE DEF added, iid
  <1>5. \A b \in Rows(added, iid, source) : b.inst = iid /\ b.day \in added
    BY DEF Rows
  <1>6. ASSUME NEW d \in added
        PROVE  \E b \in Rows(added, iid, source) : b.inst = iid /\ b.day = d
    <2> DEFINE row == [inst |-> iid, day |-> d, source |-> source]
    <2>1. row \in Rows(added, iid, source)
      BY DEF Rows
    <2>2. row.inst = iid /\ row.day = d
      OBVIOUS
    <2> QED
      BY <2>1, <2>2
  <1>7. DaysOf(t)' = DaysOf(t) \cup added
    <2>1. DaysOf(t)' \subseteq DaysOf(t) \cup added
      BY <1>2, <1>3, <1>5 DEF DaysOf
    <2>2. DaysOf(t) \subseteq DaysOf(t)'
      BY <1>2, <1>3 DEF DaysOf
    <2>3. added \subseteq DaysOf(t)'
      BY <1>1, <1>2, <1>3, <1>6 DEF DaysOf
    <2> QED
      BY <2>1, <2>2, <2>3
  <1>8. \A u \in Tickers \ {t} : DaysOf(u)' = DaysOf(u)
    BY <1>2, <1>3, <1>4, <1>5 DEF DaysOf
  <1> QED
    BY <1>7, <1>8 DEF added

\* A step that adds no day to a ticker keeps what is said of it and of the runs that
\* had their plan before.
LEMMA HolesKept ==
  ASSUME NEW t \in Tickers, Grows, DaysOf(t)' = DaysOf(t), Gapless(t)
  PROVE  /\ Gapless(t)'
         /\ \A j \in Slots : Fills(j, t) /\ PlanStays(j) => Fills(j, t)'
  <1>1. \A d : Seen(t, d) => Seen(t, d)'
    BY DEF Seen, Grows
  <1> QED
    BY <1>1 DEF Gapless, Fills, PlanStays

\* A stored answer leaves no day between the bars it adds and those there were.
LEMMA AnswerFills ==
  ASSUME IngestInv, RunsAreShort, HoleInv, NEW k \in Slots, NEW t \in Tickers, NEW source \in PriceSources,
         SyncTicker(k, t, source), NEW a \in ProviderAnswers(Asked(k, t)), StoreAnswer(k, t, source, a),
         a.refused = NoDay, Grows
  PROVE  /\ Gapless(t)'
         /\ \A j \in Slots : PlanStays(j) => Fills(j, t)'
  <1> DEFINE start == PlanStart(k, t)
             day == slot[k].day
             old == DaysOf(t)
             new == a.days \ {a.bad}
             last == slot[k].last[t]
  <1>0. TypeInv /\ DayFits(k) /\ Planned(k) /\ Course(k)
    BY DEF IngestInv, Course, SyncTicker, Turn, Planned
  <1>1. /\ day \in Nat /\ today \in Nat /\ day <= today /\ today - day <= BootstrapDays
        /\ BootstrapDays \in Nat /\ Lookback \in Nat /\ TradingDays \subseteq Nat
        /\ last \in Int /\ start \in Int
    BY <1>0, Bounds DEF TypeInv, JobType, DayFits, RunsAreShort, PlanStart
  <1>2. DaysOf(t)' = old \cup new
    BY AnswerDays
  <1>3. old \subseteq TradingDays
    BY <1>0, DaysTyped
  <1>4. /\ \A d \in new : d \in TradingDays /\ start <= d /\ d <= day
        /\ new # {} => \A d \in TradingDays : start <= d /\ d < day => d \in a.days
    BY <1>0, PlannedDay, AnswerIsWindow DEF Asked
  <1>5. \A d : Seen(t, d) => Seen(t, d)'
    BY DaysGrow DEF Seen, Grows
  <1>6. ASSUME NEW d \in TradingDays, new # {}, start <= d, d < day
        PROVE  Seen(t, d)'
    <2>1. d \in a.days
      BY <1>4, <1>6
    <2>2. CASE d # a.bad
      BY <1>2, <2>1, <2>2 DEF Seen
    <2>3. CASE d = a.bad
      <3>1. <<t, d>> \in unread'
        BY <2>3, <1>6, Bounds DEF StoreAnswer
      <3> QED
        BY <3>1 DEF Seen
    <2> QED
      BY <2>2, <2>3
  <1>7. CASE new = {}
    <2>1. DaysOf(t)' = DaysOf(t)
      BY <1>2, <1>7
    <2> QED
      BY <2>1, HolesKept DEF HoleInv
  <1>8. CASE new # {}
    <2>1. \/ last = NoDay /\ start = day - BootstrapDays
          \/ last # NoDay /\ last \in old /\ last <= day /\ start = last - Lookback
      BY <1>0 DEF PlanStart, Course, SawFits
    <2>2. Gapless(t)'
      <3>1. ASSUME NEW d \in TradingDays, NEW e \in DaysOf(t)', NEW f \in DaysOf(t)',
                   e < d, d < f
            PROVE  Seen(t, d)'
        <4>0. d \in Nat /\ e \in Nat /\ f \in Nat
          BY <1>1, <1>2, <1>3, <1>4
        <4>1. CASE e \in old /\ f \in old
          BY <1>5, <3>1, <4>1 DEF HoleInv, Gapless
        <4>2. CASE f \in new /\ d >= start
          BY <1>1, <1>4, <1>6, <1>8, <3>1, <4>0, <4>2
        <4>3. CASE e \in old /\ f \in new /\ d < start
          <5>1. CASE last = NoDay
            BY <1>0, <1>5, <2>1, <3>1, <4>3, <5>1 DEF HoleInv, Fills
          <5>2. CASE last # NoDay
            <6>1. last \in old /\ d < last
              BY <1>1, <2>1, <4>0, <4>3, <5>2
            <6> QED
              BY <1>5, <3>1, <4>3, <6>1 DEF HoleInv, Gapless
          <5> QED
            BY <5>1, <5>2
        <4>4. CASE e \in new /\ f \in old
          <5>1. d >= start
            BY <1>1, <1>4, <3>1, <4>0, <4>4
          <5>2. CASE d < day
            BY <1>6, <1>8, <5>1, <5>2
          <5>3. CASE d >= day /\ last = NoDay
            <6>1. day <= d /\ d <= f
              BY <1>1, <3>1, <4>0, <5>3
            <6> QED
              BY <1>0, <1>5, <4>4, <5>3, <6>1 DEF HoleInv, Fills
          <5>4. CASE d >= day /\ last # NoDay
            <6>1. CASE d = last
              BY <1>5, <2>1, <5>4, <6>1 DEF Seen
            <6>2. CASE d # last
              <7>0. last \in old /\ last <= day
                BY <2>1, <5>4
              <7>1. last < d
                BY <1>1, <4>0, <5>4, <6>2, <7>0
              <7>2. Seen(t, d)
                BY <3>1, <4>4, <7>0, <7>1 DEF HoleInv, Gapless
              <7> QED
                BY <1>5, <7>2
            <6> QED
              BY <6>1, <6>2
          <5> QED
            BY <1>1, <4>0, <5>2, <5>3, <5>4
        <4>5. e \in new => d >= start
          BY <1>1, <1>4, <3>1, <4>0
        <4>6. d >= start \/ d < start
          BY <1>1, <4>0
        <4> QED
          BY <1>2, <4>1, <4>2, <4>3, <4>4, <4>5, <4>6
      <3> QED
        BY <3>1 DEF Gapless
    <2>3. ASSUME NEW j \in Slots, PlanStays(j), Planned(j)', slot'[j].last[t] = NoDay
          PROVE  /\ \A d \in TradingDays, f \in DaysOf(t)' :
                      slot'[j].day <= d /\ d <= f => Seen(t, d)'
                 /\ \A d \in TradingDays, e \in DaysOf(t)' :
                      e < d /\ d < slot'[j].day - BootstrapDays => Seen(t, d)'
      <3> DEFINE dayJ == slot[j].day
      <3>1. Planned(j) /\ slot'[j].day = dayJ /\ slot[j].last[t] = NoDay
        BY <2>3 DEF PlanStays
      <3>2. dayJ \in Nat /\ dayJ <= today /\ today - dayJ <= BootstrapDays
        BY <1>0, <3>1 DEF IngestInv, TypeInv, JobType, Course, DayFits, RunsAreShort
      <3>3. ASSUME NEW d \in TradingDays, NEW f \in DaysOf(t)', dayJ <= d, d <= f
            PROVE  Seen(t, d)'
        <4>0. d \in Nat /\ f \in Nat
          BY <1>1, <1>2, <1>3, <1>4
        <4>1. CASE f \in old
          BY <1>5, <3>1, <3>3, <4>1 DEF HoleInv, Fills
        <4>2. CASE f \in new /\ d = f
          BY <1>2, <4>2 DEF Seen
        <4>3. CASE f \in new /\ d # f /\ d >= start
          <5>1. d < day
            BY <1>1, <1>4, <3>3, <4>0, <4>3
          <5> QED
            BY <1>6, <1>8, <4>3, <5>1
        <4>4. CASE f \in new /\ d < start
          <5>1. last # NoDay /\ last \in old /\ d <= last
            BY <1>1, <2>1, <3>2, <3>3, <4>0, <4>4
          <5> QED
            BY <1>5, <3>1, <3>3, <5>1 DEF HoleInv, Fills
        <4> QED
          BY <1>1, <1>2, <4>0, <4>1, <4>2, <4>3, <4>4
      <3>4. ASSUME NEW d \in TradingDays, NEW e \in DaysOf(t)', e < d, d < dayJ - BootstrapDays
            PROVE  Seen(t, d)'
        <4>0. d \in Nat /\ e \in Nat
          BY <1>1, <1>2, <1>3, <1>4
        <4>1. CASE e \in old
          BY <1>5, <3>1, <3>4, <4>1 DEF HoleInv, Fills
        <4>2. CASE e \in new
          <5>1. start <= d /\ d < day
            BY <1>1, <1>4, <3>2, <3>4, <4>0, <4>2
          <5> QED
            BY <1>6, <1>8, <5>1
        <4> QED
          BY <1>2, <4>1, <4>2
      <3> QED
        BY <3>1, <3>3, <3>4
    <2>4. \A j \in Slots : PlanStays(j) => Fills(j, t)'
      BY <2>3 DEF Fills
    <2> QED
      BY <2>2, <2>4
  <1> QED
    BY <1>7, <1>8

\* The plan of a scaffolding run starts afresh, or keeps the mirror's choice.
PlanScaffolds(j) == slot'[j].phase \in {"mapped", "scaffolding", "mastering"}

LEMMA PlansScaffold ==
  ASSUME TypeInv, NEW j \in Slots, PlanMirror(j) \/ PlanBootstrap(j) \/ ReadMaster(j)
  PROVE  PlanScaffolds(j)
  <1>0. slot \in [Slots -> JobType] /\ slot[j] \in JobType /\ j \in DOMAIN slot
    BY DEF TypeInv
  <1>1. CASE PlanMirror(j)
    <2>1. ASSUME NEW found,
                 slot' = [slot EXCEPT ![j] = [Idle EXCEPT !.phase = "mapped", !.targets = found]]
          PROVE  slot'[j].phase = "mapped"
      BY <1>0, <2>1 DEF Idle
    <2> QED
      BY <1>1, <2>1 DEF PlanMirror, PlanScaffolds
  <1>2. CASE PlanBootstrap(j)
    <2>1. ASSUME slot' = [slot EXCEPT ![j] = [Idle EXCEPT !.phase = "scaffolding",
                                       !.targets = Tickers \ ProtectedTickers, !.known = Existing]]
          PROVE  slot'[j].phase = "scaffolding"
      BY <1>0, <2>1 DEF Idle
    <2>2. ASSUME slot' = [slot EXCEPT ![j].phase = "scaffolding", ![j].known = Existing]
          PROVE  slot'[j].phase = "scaffolding"
      BY <1>0, <2>2 DEF JobType
    <2> QED
      BY <1>2, <2>1, <2>2 DEF PlanBootstrap, PlanScaffolds
  <1>3. CASE ReadMaster(j)
    <2> DEFINE secs == {i.ticker : i \in {r \in ident : r.source = "sec"}}
    <2>1. PICK filter \in SUBSET Tickers :
            slot' = [slot EXCEPT ![j] = [Idle EXCEPT !.phase = "mastering", !.targets = filter,
                                                   !.known = secs]]
      BY <1>3 DEF ReadMaster
    <2> HIDE DEF secs
    <2>2. slot'[j].phase = "mastering"
      BY <1>0, <2>1 DEF Idle
    <2> QED
      BY <2>2 DEF PlanScaffolds
  <1> QED
    BY <1>1, <1>2, <1>3

\* A step that is not a plan of a sync leaves the plans there are.
LEMMA WhoPlans ==
  ASSUME IngestInv, NEW j \in Slots, RunStep(j), Planned(j)'
  PROVE  PlanSync(j) \/ (Planned(j) /\ slot'[j].day = slot[j].day /\ slot'[j].last = slot[j].last)
  <1>0. TypeInv /\ slot \in [Slots -> JobType] /\ slot[j] \in JobType /\ j \in DOMAIN slot
    BY DEF IngestInv, TypeInv
  <1>1. slot'[j].phase \in {"planned", "syncing"}
    BY DEF Planned
  <1>2. ASSUME NEW new, slot' = [slot EXCEPT ![j] = new] PROVE slot'[j] = new
    BY <1>0, <1>2
  <1>3. ~QueryMax(j)
    BY <1>1, <1>2 DEF QueryMax, Idle
  <1>4. ~ReportFreshness(j)
    BY <1>1, <1>2 DEF ReportFreshness, Idle
  <1>5. ~StoreMaster(j) /\ ~EndBootstrap(j) /\ ~Die(j)
    <2>1. Idle.phase = "idle"
      BY DEF Idle
    <2> QED
      BY <1>1, <1>2, <2>1 DEF StoreMaster, EndBootstrap, Die
  <1>6. ~PlanMirror(j) /\ ~PlanBootstrap(j) /\ ~ReadMaster(j)
    <2>1. PlanMirror(j) \/ PlanBootstrap(j) \/ ReadMaster(j) => PlanScaffolds(j)
      BY <1>0, PlansScaffold
    <2> QED
      BY <1>1, <2>1 DEF PlanScaffolds
  <1>7. ~ScaffoldTicker(j)
    BY <1>0, <1>1 DEF ScaffoldTicker, JobType
  <1>8. CASE ResolveInstruments(j)
    <2>1. PICK iid \in [Tickers -> Instruments \cup {0}] :
            slot' = [slot EXCEPT ![j].phase = "syncing", ![j].iid = iid]
      BY <1>8 DEF ResolveInstruments
    <2>2. slot'[j].day = slot[j].day /\ slot'[j].last = slot[j].last
      BY <1>0, <2>1 DEF JobType
    <2> QED
      BY <1>8, <2>2 DEF ResolveInstruments, Planned
  <1>9. ASSUME NEW t \in Tickers, NEW outcome \in Outcomes, Turn(j, t), EndTicker(j, outcome)
        PROVE  Planned(j) /\ slot'[j].day = slot[j].day /\ slot'[j].last = slot[j].last
    <2>1. slot'[j] = [slot[j] EXCEPT !.pos = slot[j].pos + 1, !.outcome = outcome]
      BY <1>0, <1>9, EndTickerTyped
    <2> QED
      BY <1>0, <1>9, <2>1 DEF JobType, Turn, Planned
  <1>10. ASSUME NEW t \in Tickers, SkipUnresolved(j, t) \/ SyncTickerFails(j, t)
         PROVE  Planned(j) /\ slot'[j].day = slot[j].day /\ slot'[j].last = slot[j].last
    <2> DEFINE failed == [NoOutcome EXCEPT !.state = "failed"]
    <2>1. failed \in Outcomes
      BY DEF NoOutcome, Outcomes
    <2>2. Turn(j, t) /\ EndTicker(j, failed)
      BY <1>10 DEF SkipUnresolved, SyncTickerFails, FailTicker
    <2> HIDE DEF failed
    <2> QED
      BY <1>9, <2>1, <2>2
  <1>11. ASSUME NEW t \in Tickers, NEW s \in PriceSources, SyncTicker(j, t, s)
         PROVE  Planned(j) /\ slot'[j].day = slot[j].day /\ slot'[j].last = slot[j].last
    <2>1. PICK a \in ProviderAnswers(Asked(j, t)) : StoreAnswer(j, t, s, a)
      BY <1>11 DEF SyncTicker
    <2>2. Turn(j, t) /\ DayFits(j)
      BY <1>11 DEF SyncTicker, IngestInv, Course
    <2>3. PICK outcome \in Outcomes : EndTicker(j, outcome)
      BY <1>0, <2>1, <2>2, StoreAnswerEffect
    <2> QED
      BY <1>9, <2>2, <2>3
  <1> QED
    BY <1>3, <1>4, <1>5, <1>6, <1>7, <1>8, <1>10, <1>11 DEF RunStep

\* What is said of a ticker, over one step of a run.
LEMMA RunLeavesNoHole ==
  ASSUME IngestInv, IngestInv', RunsAreShort, HoleInv, NEW j \in Slots, RunStep(j), Grows
  PROVE  HoleInv'
  <1>0. TypeInv /\ TypeInv' /\ Stored /\ slot \in [Slots -> JobType]
    BY DEF IngestInv, TypeInv
  <1>1. \A k \in Slots \ {j} : slot'[k] = slot[k]
    BY <1>0, RunStepsAlone
  <1>2. ~PlanSync(j) => \A k \in Slots : PlanStays(k)
    BY <1>1, WhoPlans DEF Planned, PlanStays
  <1>3. CASE PlanSync(j)
    <2>1. \A t \in Tickers : DaysOf(t)' = DaysOf(t)
      BY <1>0, <1>3, SameDays DEF PlanSync
    <2>2. slot'[j] = [Idle EXCEPT !.phase = "planned", !.day = today, !.last = LatestPerTicker]
      BY <1>0, <1>3 DEF PlanSync
    <2>3. slot'[j].last = LatestPerTicker
      BY <2>2 DEF Idle
    <2>4. ASSUME NEW t \in Tickers PROVE Fills(j, t)'
      <3>1. slot'[j].last[t] = Newest(DaysOf(t))
        BY <2>3 DEF LatestPerTicker
      <3>2. slot'[j].last[t] = NoDay => DaysOf(t)' = {}
        BY <1>0, <2>1, <3>1, DaysTyped, NewestOfTradingDays
      <3> QED
        BY <3>2 DEF Fills
    <2>5. ASSUME NEW t \in Tickers, NEW k \in Slots \ {j} PROVE Fills(k, t)'
      <3>1. PlanStays(k)
        BY <1>1 DEF Planned, PlanStays
      <3> QED
        BY <2>1, <3>1, HolesKept DEF HoleInv
    <2>6. \A t \in Tickers : Gapless(t)'
      BY <2>1, HolesKept DEF HoleInv
    <2> QED
      BY <2>4, <2>5, <2>6 DEF HoleInv
  <1>4. CASE UNCHANGED bars /\ ~PlanSync(j)
    <2>1. \A t \in Tickers : DaysOf(t)' = DaysOf(t)
      BY <1>0, <1>4, SameDays
    <2> QED
      BY <1>2, <1>4, <2>1, HolesKept DEF HoleInv
  <1>5. ASSUME NEW t \in Tickers, NEW s \in PriceSources, SyncTicker(j, t, s), ~PlanSync(j)
        PROVE  HoleInv'
    <2>1. PICK a \in ProviderAnswers(Asked(j, t)) : StoreAnswer(j, t, s, a)
      BY <1>5 DEF SyncTicker
    <2>2. CASE a.refused # NoDay
      <3>1. UNCHANGED bars
        BY <2>1, <2>2 DEF StoreAnswer
      <3> QED
        BY <1>4, <1>5, <3>1
    <2>3. CASE a.refused = NoDay
      <3>1. Gapless(t)' /\ \A k \in Slots : Fills(k, t)'
        <4>1. Gapless(t)' /\ \A k \in Slots : PlanStays(k) => Fills(k, t)'
          BY <1>5, <2>1, <2>3, AnswerFills
        <4> QED
          BY <1>2, <1>5, <4>1
      <3>2. \A u \in Tickers \ {t} : DaysOf(u)' = DaysOf(u)
        BY <1>5, <2>1, AnswerDays
      <3>3. \A u \in Tickers \ {t} : Gapless(u)' /\ \A k \in Slots : Fills(k, u)'
        BY <1>2, <1>5, <3>2, HolesKept DEF HoleInv
      <3> QED
        BY <3>1, <3>3 DEF HoleInv
    <2> QED
      BY <2>2, <2>3
  <1>6. \/ PlanSync(j) \/ UNCHANGED bars
        \/ \E t \in Tickers, s \in PriceSources : SyncTicker(j, t, s)
    BY DEF RunStep, PlanSync, ResolveInstruments, QueryMax, ReportFreshness, PlanMirror,
           PlanBootstrap, ScaffoldTicker, EndBootstrap, ReadMaster, StoreMaster, Die,
           SkipUnresolved, SyncTickerFails, FailTicker
  <1> QED
    BY <1>3, <1>4, <1>5, <1>6

LEMMA StepHoles == IngestInv /\ IngestInv' /\ RunsAreShort /\ HoleInv /\ [Next]_vars => HoleInv'
  <1> SUFFICES ASSUME IngestInv, IngestInv', RunsAreShort, HoleInv, [Next]_vars PROVE HoleInv'
    OBVIOUS
  <1>0. TypeInv /\ TypeInv' /\ Stored
    BY DEF IngestInv
  <1>1. Grows
    BY <1>0, StepGrows
  <1>2. CASE NextDay \/ UNCHANGED vars
    <2>1. UNCHANGED <<bars, slot>>
      BY <1>2 DEF NextDay, vars
    <2>2. \A t \in Tickers : DaysOf(t)' = DaysOf(t)
      BY <1>0, <1>1, <2>1, SameDays
    <2> QED
      BY <1>1, <2>1, <2>2, HolesKept DEF HoleInv, Planned, PlanStays
  <1> QED
    BY <1>1, <1>2, RunLeavesNoHole, StepKinds

\* No sync leaves a hole between two bars of a ticker, unless a bar could not be read,
\* as long as no run outlives its first window: HolesHaveCause.
THEOREM HolesExplained == Spec /\ []RunsAreShort => []HolesHaveCause
  <1>1. Init => HoleInv
    <2> SUFFICES ASSUME Init PROVE HoleInv
      OBVIOUS
    <2>1. bars = {} /\ \A j \in Slots : slot[j].phase = "idle"
      BY DEF Init, Idle
    <2> QED
      BY <2>1 DEF HoleInv, Gapless, Fills, DaysOf, Planned
  <1>2. HoleInv => HolesHaveCause
    BY DEF HoleInv, Gapless, Seen, HolesHaveCause
  <1> QED
    BY <1>1, <1>2, StepHoles, IngestionRuns, PTL DEF Spec
===============================================================================
