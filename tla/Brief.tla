--------------------------------- MODULE Brief ---------------------------------
(***************************************************************************)
(* One overnight brief: the scan of the stored prices, the merge with the  *)
(* mirror of the broker's positions, news and earnings for the first few   *)
(* tickers, priorities, sections, the snapshot, and the history that       *)
(* derives the sections again from the snapshot.                           *)
(*                                                                         *)
(* A ticker is its place in the alphabet.  All the reads and the snapshot  *)
(* share one session: a database error that is swallowed leaves its        *)
(* transaction aborted, and whatever uses it next fails.                   *)
(***************************************************************************)
EXTENDS Integers, FiniteSets, Sequences, SequencesExt

CONSTANTS
  BriefTickers,
  Snapshots,     \* the price moves and research ages a ticker may have
  InMaster,      \* tickers that are an instrument's identifier
  HistoryOnly,   \* tickers only an instrument's history has
  MirrorTags,    \* the sets of tags the mirror may give a ticker
  NewsCounts,    \* recent_news of a ticker
  ScanLimit,     \* scanner_limit, also the cap on the stored candidates
  NewsTop,       \* effective_news_top_n
  SectionTop, UnmappedTop

ASSUME BriefAssumption ==
  /\ BriefTickers \subseteq Nat /\ IsFiniteSet(BriefTickers)
  /\ {InMaster, HistoryOnly} \subseteq SUBSET BriefTickers /\ InMaster \cap HistoryOnly = {}
  /\ Snapshots \subseteq [change_1d : Int, change_5d : Int, change_1m : Int,
                          week52 : Int, fresh : BOOLEAN]
  /\ MirrorTags \subseteq SUBSET {"HELD", "RECENTLY_TRADED", "WATCHED"}
  /\ NewsCounts \subseteq Nat /\ {ScanLimit, NewsTop} \subseteq Nat \ {0}
  /\ {SectionTop, UnmappedTop} \subseteq Nat

VARIABLES
  stage,      \* what has been done
  rows,       \* candidate_rows: ticker -> row
  aborted,    \* the session's transaction is
  stored      \* the snapshot's rows in rank order, or "none"

briefVars == <<stage, rows, aborted, stored>>

BriefInit == stage = "begun" /\ rows = <<>> /\ aborted = FALSE /\ stored = "none"

NewRow == [tags |-> {}, strength |-> "none", change |-> 0, mapping |-> "unmapped",
           news |-> 0, earnings |-> FALSE, priority |-> 1]

Least(m, n) == IF m < n THEN m ELSE n
Size(n) == IF n < 0 THEN -n ELSE n
First(n, s) == SubSeq(s, 1, Least(n, Len(s)))

\* A set in the order of a sort: each place goes to the one with as many ahead of it.
InOrder(S, ahead(_, _)) ==
  [k \in 1 .. Cardinality(S) |-> CHOOSE t \in S : Cardinality({u \in S : ahead(u, t)}) = k - 1]

-------------------------------------------------------------------------------
(* The scanner.                                                            *)

ScanTypes(s) ==
  {type \in {"strong_momentum", "extreme_mover", "breakout_candidate",
             "high_volatility", "needs_research"} :
     CASE type = "strong_momentum" ->
            s.change_1d >= 5 \/ s.change_5d >= 10 \/ s.change_1m >= 20
       [] type = "extreme_mover" -> Size(s.change_1d) >= 10
       [] type = "breakout_candidate" -> s.week52 >= 85
       [] type = "high_volatility" ->
            Size(s.change_1d) >= 10 \/ Size(s.change_5d) >= 15 \/ Size(s.change_1m) >= 30
       [] type = "needs_research" -> ~s.fresh}

Strength(types) ==
  IF "extreme_mover" \in types \/ Cardinality(types) >= 3 THEN "high"
  ELSE IF Cardinality(types) = 2 THEN "medium" ELSE "low"

Rank == [high |-> 0, medium |-> 1, low |-> 2]

\* `-(change or -1e9)`: a move of zero sorts with the missing ones.
ScannedBefore(s, z) ==
  LET a == Rank[Strength(ScanTypes(s))]
      b == Rank[Strength(ScanTypes(z))]
  IN  \/ a < b
      \/ a = b /\ s.change_1d # 0 /\ (z.change_1d = 0 \/ s.change_1d > z.change_1d)

ScanStocks ==
  /\ stage = "begun"
  /\ \E snap \in [InMaster -> Snapshots] :
       LET matched == {t \in InMaster : ScanTypes(snap[t]) \notin {{}, {"needs_research"}}}
       IN  \E kept \in SUBSET matched :
             /\ Cardinality(kept) = Least(ScanLimit, Cardinality(matched))
             /\ \A t \in kept, u \in matched \ kept : ~ScannedBefore(snap[u], snap[t])
             /\ rows' = [t \in kept |->
                  [NewRow EXCEPT !.tags = {"SCANNER"}, !.mapping = "mapped",
                     !.strength = Strength(ScanTypes(snap[t])),
                     !.change = snap[t].change_1d]]
  /\ stage' = "scanned" /\ UNCHANGED <<aborted, stored>>

ScanFails ==      \* in the database or not
  /\ stage = "begun"
  /\ aborted' \in BOOLEAN
  /\ stage' = "scanned" /\ UNCHANGED <<rows, stored>>

-------------------------------------------------------------------------------
(* The mirror and the plan of its mapping.                                 *)

\* Tickers of open positions, of recent orders and of the user's list.
Mirror(tags) == {t \in BriefTickers : tags[t] # {}}
MirrorStatus(t) == IF t \in InMaster \cup HistoryOnly THEN "mapped" ELSE "unresolved"

ReadMirror ==
  /\ stage = "scanned" /\ ~aborted
  /\ \E tags \in [BriefTickers -> MirrorTags] :
       LET row(t) == IF t \in DOMAIN rows THEN rows[t] ELSE NewRow
       IN  rows' = [t \in DOMAIN rows \cup Mirror(tags) |->
             [row(t) EXCEPT
                !.tags = row(t).tags \cup tags[t],
                !.mapping = IF t \in Mirror(tags) THEN MirrorStatus(t) ELSE row(t).mapping]]
  /\ stage' = "mirrored" /\ UNCHANGED <<aborted, stored>>

MirrorFails ==      \* nothing catches it
  /\ stage = "scanned" /\ aborted
  /\ stage' = "raised" /\ UNCHANGED <<rows, aborted, stored>>

Tagged(row) ==
  IF row.mapping = "mapped" THEN row ELSE [row EXCEPT !.tags = row.tags \cup {"UNMAPPED"}]

\* The plan reads the mirror again, without the manual tickers and maybe after
\* a sync; without profiles, a ticker it has and the master has not is "unmapped",
\* and so is one the mirror found in a history that has ended.
PlanMapping ==
  /\ stage = "mirrored"
  /\ \E planned \in SUBSET (DOMAIN rows \ InMaster) :
       rows' = [t \in DOMAIN rows |->
         Tagged(IF t \in planned THEN [rows[t] EXCEPT !.mapping = "unmapped"] ELSE rows[t])]
  /\ stage' = "planned" /\ UNCHANGED <<aborted, stored>>

PlanFails ==
  /\ stage = "mirrored"
  /\ aborted' \in BOOLEAN
  /\ rows' = [t \in DOMAIN rows |-> Tagged(rows[t])]
  /\ stage' = "planned" /\ UNCHANGED stored

-------------------------------------------------------------------------------
(* News and earnings for the first tickers, and the priorities.            *)

NewsScore(row) ==
  (IF "HELD" \in row.tags THEN 100 ELSE 0)
  + (IF row.strength = "high" THEN 80 ELSE IF row.strength = "medium" THEN 50 ELSE 0)
  + (IF "RECENTLY_TRADED" \in row.tags THEN 30 ELSE 0)
  + (IF "WATCHED" \in row.tags THEN 10 ELSE 0)

FanOutTickers ==
  LET ahead(t, u) == \/ NewsScore(rows[t]) > NewsScore(rows[u])
                     \/ NewsScore(rows[t]) = NewsScore(rows[u]) /\ t < u
  IN  Range(First(NewsTop, InOrder(DOMAIN rows, ahead)))

Priority(row) ==
  LET held == "HELD" \in row.tags
  IN  Max({1} \cup (IF held THEN {2} ELSE {})
              \cup (IF row.strength = "none" THEN {} ELSE {4 - Rank[row.strength]})
              \cup (IF row.news > 0 \/ row.earnings THEN {3} ELSE {})
              \cup (IF held /\ row.earnings THEN {4} ELSE {})
              \cup (IF held /\ row.strength # "none" /\ row.news > 0 THEN {5} ELSE {}))

FetchNews ==
  /\ stage = "planned"
  /\ \E news \in [FanOutTickers -> NewsCounts] :
       rows' = [t \in DOMAIN rows |->
         IF t \in DOMAIN news THEN [rows[t] EXCEPT !.news = news[t]] ELSE rows[t]]
  /\ stage' = "newsed" /\ UNCHANGED <<aborted, stored>>

FetchEarnings ==
  /\ stage = "newsed"
  /\ \E near \in SUBSET FanOutTickers :
       rows' = [t \in DOMAIN rows |->
         LET row == [rows[t] EXCEPT !.earnings = t \in near]
         IN  [row EXCEPT !.priority = Priority(row)]]
  /\ stage' = "built" /\ UNCHANGED <<aborted, stored>>

-------------------------------------------------------------------------------
(* The sections, from the rows of the brief or of its snapshot.            *)

SortKey(section, t, row) ==
  CASE section = "price"    -> <<-row.priority, -Size(row.change), t>>
    [] section = "news"     -> <<-row.priority, -row.news, t>>
    [] section = "unmapped" -> <<IF row.mapping = "newly_resolvable" THEN 0 ELSE 1, 0, t>>
    [] section \in {"earnings", "candidates"} -> <<-row.priority, 0, t>>

Shows(section, row) ==
  CASE section = "price"      -> "SCANNER" \in row.tags
    [] section = "news"       -> row.news > 0
    [] section = "earnings"   -> row.earnings
    [] section = "unmapped"   -> row.mapping # "mapped"
    [] section = "candidates" -> TRUE

Cap(section) ==
  CASE section = "candidates" -> ScanLimit
    [] section = "unmapped"   -> UnmappedTop
    [] section \in {"price", "news", "earnings"} -> SectionTop

Ahead(section, r, t, u) ==
  LET a == SortKey(section, t, r[t])
      b == SortKey(section, u, r[u])
  IN  \/ a[1] < b[1]
      \/ a[1] = b[1] /\ a[2] < b[2]
      \/ a[1] = b[1] /\ a[2] = b[2] /\ a[3] < b[3]

Sorted(section, r) ==
  InOrder({t \in DOMAIN r : Shows(section, r[t])}, LAMBDA t, u : Ahead(section, r, t, u))

Section(section, r) == First(Cap(section), Sorted(section, r))

CandidatesBug(r) ==      \* cut before it is sorted
  Restrict(r, Range(First(ScanLimit, InOrder(DOMAIN r, <))))

\* The rows that are returned as candidates, which are the ones stored.
Candidates(r) == Restrict(r, Range(Section("candidates", r)))

Persist ==
  /\ stage = "built" /\ ~aborted
  /\ stored' = Candidates(rows)
  /\ stage' = "persisted" /\ UNCHANGED <<rows, aborted>>

\* Switched off, or not asked for.
SkipPersist ==
  /\ stage = "built"
  /\ stage' = "skipped" /\ UNCHANGED <<rows, aborted, stored>>

\* Swallowed, and rolled back: the brief has been returned, the history has not
\* got it.  An aborted session always fails.
PersistFails ==
  /\ stage = "built"
  /\ aborted' = FALSE
  /\ stage' = "unpersisted" /\ UNCHANGED <<rows, stored>>

BriefNext ==
  \/ ScanStocks \/ ScanFails \/ ReadMirror \/ MirrorFails \/ PlanMapping \/ PlanFails
  \/ FetchNews \/ FetchEarnings \/ Persist \/ SkipPersist \/ PersistFails

BriefSpec == BriefInit /\ [][BriefNext]_briefVars

-------------------------------------------------------------------------------
(* Properties.                                                             *)

\* A row that was shown is in the history too, after as many rows as came before it and
\* are stored, unless it is not stored itself.
KeepsItsPlace(section) ==
  LET live == Section(section, rows)
      history == Section(section, stored)
  IN  \A i \in DOMAIN live : live[i] \in DOMAIN stored =>
        LET place == Cardinality({j \in 1 .. i : live[j] \in DOMAIN stored})
        IN  place <= Len(history) /\ history[place] = live[i]

\* What the history shows of a brief is what the brief showed: always, when its rows
\* fit into scanner_limit, the cap that was meant for the scanner alone.  When
\* they do not, the candidates are the same, earnings are a beginning of what was
\* shown, no row that was shown is missing unless it is not stored, the rows
\* that both show come in the same order, and no row that is not stored has a higher
\* priority than one that is.
HistoryAgrees ==
  stage = "persisted" =>
    /\ Section("candidates", stored) = Section("candidates", rows)
    /\ IsPrefix(Section("earnings", stored), Section("earnings", rows))
    /\ \A section \in {"price", "news", "earnings", "unmapped"} :
         /\ Cardinality(DOMAIN rows) <= ScanLimit => Section(section, stored) = Section(section, rows)
         /\ KeepsItsPlace(section)
    /\ \A t \in DOMAIN stored, u \in DOMAIN rows \ DOMAIN stored :
         stored[t].priority >= rows[u].priority
===============================================================================
