------------------------- MODULE ProviderCacheProofs -------------------------
(***************************************************************************)
(* What ProviderCache guarantees for any number of pages, tickers, permits *)
(* and detail requests, and for any timers.                                *)
(***************************************************************************)
EXTENDS ProviderCache, TLAPS

USE ConstantsAssumption

FlightRecords ==
  [phase : {"free"} \cup Flying \cup Over, symbol : Symbols \cup {NoSymbol},
   began : Nat, value : Result]

CallRecords ==
  [phase : {"idle", "queued", "waiting", "ended"},
   flight : Flights \cup {NoFlight}, asked : Nat, stale : Result,
   result : Result, doomed : BOOLEAN]

PageRecords ==
  [phase : {"idle", "open", "expired", "closed"}, since : Nat,
   blocked : BOOLEAN, cut : Nat \cup {NoCut},
   status : Fetched \cup {"none", "cached"}]

Types ==
  /\ now \in Nat
  /\ entry \in [Symbols -> Result]
  /\ inflight \in [Symbols -> Flights \cup {NoFlight}]
  /\ flight \in [Flights -> FlightRecords]
  /\ call \in [Calls -> CallRecords]
  /\ page \in [Pages -> PageRecords]

\* A call has a result if and only if it has ended.
HasResult(c) == Ended(c) <=> call[c].result.status # "none"

-----------------------------------------------------------------------------
(* The records the actions build.                                          *)

LEMMA ResultTypes ==
  /\ NoResult \in Result
  /\ \A status \in Fetched \cup {"none", "cached", "lost"} :
       /\ Verdict(status) \in Result
       /\ Verdict(status).status = status /\ Verdict(status).rows = FALSE
  BY DEF NoResult, Verdict, Result

LEMMA ToldType ==
  ASSUME NEW r \in Result
  PROVE  /\ Told(r) \in Result
         /\ Told(r).status = r.status /\ Told(r).rows = r.rows
         /\ r.rows => Told(r) = r
  BY ResultTypes DEF Told, Result, Fetched, Failing

LEMMA FallbackType ==
  ASSUME NEW s \in Result, NEW r \in Result
  PROVE  /\ Fallback(s, r) \in Result
         /\ Fallback(s, r).status \in {r.status, "cached"}
         /\ Fallback(s, r).status # "cached" => Fallback(s, r) = r
         /\ s.rows => Fallback(s, r).status \notin Failing
  BY DEF Fallback, Result, Fetched, Failing

LEMMA StartTypes == Idle \in CallRecords /\ Free \in FlightRecords
  BY ResultTypes DEF Idle, Free, CallRecords, FlightRecords, Flying, Over

LEMMA FlightUpdates ==
  ASSUME NEW x \in FlightRecords, NEW t \in Nat, NEW s \in Symbols,
         NEW r \in Result
  PROVE  /\ [x EXCEPT !.phase = "created", !.symbol = s] \in FlightRecords
         /\ [x EXCEPT !.phase = "calling", !.began = t] \in FlightRecords
         /\ [x EXCEPT !.phase = "landed", !.value = r, !.began = 0]
              \in FlightRecords
         /\ [x EXCEPT !.phase = "cancelled", !.began = 0] \in FlightRecords
         /\ [x EXCEPT !.phase = "cancelling"] \in FlightRecords
  BY DEF FlightRecords, Flying, Over

LEMMA PageUpdates ==
  ASSUME NEW x \in PageRecords, NEW t \in Nat,
         NEW status \in Fetched \cup {"none", "cached"}
  PROVE  /\ [x EXCEPT !.phase = "open", !.since = t] \in PageRecords
         /\ [x EXCEPT !.blocked = TRUE] \in PageRecords
         /\ [x EXCEPT !.phase = "expired", !.cut = t] \in PageRecords
         /\ [x EXCEPT !.phase = "closed", !.status = status, !.since = 0]
              \in PageRecords
  BY DEF PageRecords

LEMMA BlockedPage ==
  ASSUME NEW x \in PageRecords
  PROVE  /\ [x EXCEPT !.blocked = TRUE] \in PageRecords
         /\ [x EXCEPT !.blocked = TRUE].phase = x.phase
         /\ [x EXCEPT !.blocked = TRUE].cut = x.cut
         /\ [x EXCEPT !.blocked = TRUE].status = x.status
  BY DEF PageRecords

\* What ending a call changes, and what it leaves alone.
LEMMA EndingACall ==
  ASSUME Types, NEW c \in Calls, NEW r \in Result, EndWith(c, r)
  PROVE  /\ call' \in [Calls -> CallRecords] /\ page' \in [Pages -> PageRecords]
         /\ call'[c].phase = "ended" /\ call'[c].result = Told(r)
         /\ call'[c].doomed = FALSE
         /\ \A d \in Calls : d # c => call'[d] = call[d]
         /\ \A p \in Pages : /\ page'[p].phase = page[p].phase
                            /\ page'[p].cut = page[p].cut
                            /\ page'[p].status = page[p].status
  <1> DEFINE ended == [Idle EXCEPT !.phase = "ended", !.result = Told(r)]
  <1>1. Told(r) \in Result /\ NoResult \in Result
    BY ToldType, ResultTypes
  <1>2. /\ ended \in CallRecords
        /\ ended.phase = "ended" /\ ended.result = Told(r)
        /\ ended.doomed = FALSE
    BY ToldType, StartTypes, ResultTypes DEF Idle, CallRecords
  <1>3. call' = [call EXCEPT ![c] = ended]
    BY DEF EndWith
  <1> HIDE DEF ended
  <1>4. /\ call' \in [Calls -> CallRecords] /\ call'[c] = ended
        /\ \A d \in Calls : d # c => call'[d] = call[d]
    BY <1>2, <1>3 DEF Types
  <1>5. \A p \in Pages : page[p] \in PageRecords
    BY DEF Types
  <1>6. page' = [p \in Pages |->
                   IF PageOf[c] = p /\ r.status = "unavailable"
                   THEN [page[p] EXCEPT !.blocked = TRUE] ELSE page[p]]
    BY DEF EndWith
  <1> QED
    BY <1>2, <1>4, <1>5, <1>6, BlockedPage DEF Types

LEMMA VerdictResults ==
  /\ Verdict("unavailable") \in Result /\ Verdict("timeout") \in Result
  /\ Verdict("lost") \in Result
  /\ Verdict("unavailable").status = "unavailable"
  /\ Verdict("timeout").status = "timeout" /\ Verdict("lost").status = "lost"
  /\ ~Verdict("unavailable").rows /\ ~Verdict("timeout").rows
  /\ ~Verdict("lost").rows
  BY ResultTypes DEF Fetched, Failing

\* Wherever a flight is waited for, it has a name and is not free.
Waits(c) ==
  call[c].phase = "waiting" =>
    /\ call[c].flight \in Flights
    /\ flight[call[c].flight].phase # "free"
    /\ flight[call[c].flight].symbol = SymbolOf[c]
    /\ call[c].asked <= now

\* A registered flight is one of its symbol's.
Registered(s) ==
  inflight[s] # NoFlight =>
    flight[inflight[s]].phase # "free" /\ flight[inflight[s]].symbol = s

\* A flight that landed has the result of a fetch, not a whole TTL ago.
Landing(f) ==
  /\ flight[f].phase = "landed" =>
       /\ now < flight[f].value.at + Ttl
       /\ flight[f].value.status \in Fetched
  /\ flight[f].phase \notin {"free"} => flight[f].symbol \in Symbols

Entry(s) == entry[s] = NoResult \/ entry[s].status \in Fetched

Course ==
  /\ \A c \in Calls : Waits(c) /\ HasResult(c)
  /\ \A s \in Symbols : Registered(s) /\ Entry(s)
  /\ \A f \in Flights : Landing(f)

\* What a waiter is given on resuming.
Outcome(c) ==
  LET f == call[c].flight IN
  IF flight[f].phase = "cancelled" \/ call[c].doomed THEN Verdict("lost")
  ELSE Fallback(call[c].stale, flight[f].value)

LEMMA OutcomeType ==
  ASSUME Types, NEW c \in Calls, call[c].phase = "waiting",
         call[c].flight \in Flights
  PROVE  Outcome(c) \in Result
  <1>1. call[c].stale \in Result /\ flight[call[c].flight].value \in Result
    BY DEF Types, CallRecords, FlightRecords
  <1> QED
    BY <1>1, FallbackType, VerdictResults DEF Outcome

LEMMA InitCourse == Init => Types /\ Course
  <1> SUFFICES ASSUME Init PROVE Types /\ Course
    OBVIOUS
  <1>1. Types
    <2>1. [phase |-> "idle", since |-> 0, blocked |-> FALSE, cut |-> NoCut,
           status |-> "none"] \in PageRecords
      BY DEF PageRecords
    <2> QED
      BY <2>1, StartTypes, ResultTypes DEF Init, Types
  <1>2. Course
    BY DEF Init, Course, Waits, HasResult, Registered, Entry, Landing, Idle, Free,
           Ended, NoResult
  <1> QED
    BY <1>1, <1>2

-----------------------------------------------------------------------------
(* The steps.                                                              *)

\* A call that ends without having waited.
LEMMA EndsAtOnce ==
  ASSUME Types, Course, NEW c \in Calls, NEW r \in Result, r.status # "none",
         EndWith(c, r), UNCHANGED <<now, entry, inflight, flight>>
  PROVE  Types' /\ Course'
  <1>1. Types'
    BY EndingACall DEF Types
  <1>2. call'[c].phase = "ended" /\ call'[c].result.status = r.status
    BY EndingACall, ToldType
  <1>3. \A d \in Calls : Waits(d)' /\ HasResult(d)'
    <2> SUFFICES ASSUME NEW d \in Calls PROVE Waits(d)' /\ HasResult(d)'
      OBVIOUS
    <2>1. CASE d = c
      BY <2>1, <1>2 DEF Waits, HasResult, Ended
    <2>2. CASE d # c
      <3>1. call'[d] = call[d]
        BY <2>2, EndingACall
      <3>2. Waits(d) /\ HasResult(d)
        BY DEF Course
      <3> QED
        BY <3>1, <3>2 DEF Waits, HasResult, Ended
    <2> QED
      BY <2>1, <2>2
  <1>4. /\ \A s \in Symbols : Registered(s)' /\ Entry(s)'
        /\ \A f \in Flights : Landing(f)'
    BY DEF Course, Registered, Entry, Landing
  <1> QED
    BY <1>1, <1>3, <1>4 DEF Course

LEMMA SkipStep ==
  ASSUME Types, Course, NEW c \in Calls, Skip(c)
  PROVE  Types' /\ Course'
  <1>1. CASE SkipBlocked(c)
    BY <1>1, EndsAtOnce, VerdictResults DEF SkipBlocked
  <1>2. CASE SkipLate(c)
    BY <1>2, EndsAtOnce, VerdictResults DEF SkipLate
  <1> QED
    BY <1>1, <1>2 DEF Skip

LEMMA CacheStep ==
  ASSUME Types, Course, NEW c \in Calls, AnswerFromCache(c)
  PROVE  Types' /\ Course'
  <1>1. entry[SymbolOf[c]] \in Result /\ entry[SymbolOf[c]] # NoResult
    BY DEF AnswerFromCache, Within, Types
  <1>2. entry[SymbolOf[c]].status \in Fetched
    BY <1>1 DEF Course, Entry
  <1>3. entry[SymbolOf[c]].status # "none"
    BY <1>2 DEF Fetched, Failing
  <1> QED
    BY <1>1, <1>3, EndsAtOnce DEF AnswerFromCache

\* The call starts to wait for f; the flights are dealt with by the caller.
LEMMA WaitingCall ==
  ASSUME Types, Course, NEW c \in Calls, NEW f \in Flights, WaitFor(c, f)
  PROVE  /\ call' \in [Calls -> CallRecords]
         /\ call'[c].phase = "waiting" /\ call'[c].flight = f
         /\ call'[c].asked = now /\ call'[c].result.status = "none"
         /\ call'[c].doomed = FALSE
         /\ \A d \in Calls : d # c => call'[d] = call[d]
  <1> DEFINE stale == Told(entry[SymbolOf[c]])
             waiting == [Idle EXCEPT !.phase = "waiting", !.flight = f,
                                     !.asked = now, !.stale = stale]
  <1>1. stale \in Result /\ now \in Nat
    BY ToldType DEF Types
  <1>2. call' = [call EXCEPT ![c] = waiting]
    BY DEF WaitFor
  <1> HIDE DEF stale
  <1>3. /\ waiting \in CallRecords
        /\ waiting.phase = "waiting" /\ waiting.flight = f
        /\ waiting.asked = now /\ waiting.doomed = FALSE
        /\ waiting.result.status = "none"
    BY <1>1, StartTypes, ResultTypes DEF Idle, CallRecords, NoResult
  <1> HIDE DEF waiting
  <1> QED
    BY <1>2, <1>3 DEF Types

LEMMA JoinStep ==
  ASSUME Types, Course, NEW c \in Calls, Join(c)
  PROVE  Types' /\ Course'
  <1> DEFINE f == inflight[SymbolOf[c]]
  <1>1. f \in Flights /\ WaitFor(c, f) /\ UNCHANGED <<inflight, flight>>
    BY DEF Join, Types
  <1>2. flight[f].phase # "free" /\ flight[f].symbol = SymbolOf[c]
    BY DEF Join, Course, Registered
  <1>3. UNCHANGED <<now, entry, page>>
    BY <1>1 DEF WaitFor
  <1> HIDE DEF f
  <1>4. Types'
    BY <1>1, <1>3, WaitingCall DEF Types
  <1>5. \A d \in Calls : Waits(d)' /\ HasResult(d)'
    <2> SUFFICES ASSUME NEW d \in Calls PROVE Waits(d)' /\ HasResult(d)'
      OBVIOUS
    <2>0. /\ call'[c].phase = "waiting" /\ call'[c].flight = f
          /\ call'[c].asked = now /\ call'[c].result.status = "none"
      BY <1>1, WaitingCall
    <2>1. CASE d = c
      <3>1. flight'[f] = flight[f] /\ now' = now /\ now \in Nat
        BY <1>1, <1>3 DEF Types
      <3> QED
        BY <2>0, <2>1, <1>1, <1>2, <3>1 DEF Waits, HasResult, Ended
    <2>2. CASE d # c
      <3>1. call'[d] = call[d]
        BY <2>2, <1>1, WaitingCall
      <3>2. Waits(d) /\ HasResult(d)
        BY DEF Course
      <3> QED
        BY <3>1, <3>2, <1>1, <1>3 DEF Waits, HasResult, Ended
    <2> QED
      BY <2>1, <2>2
  <1>6. /\ \A s \in Symbols : Registered(s)' /\ Entry(s)'
        /\ \A g \in Flights : Landing(g)'
    BY <1>1, <1>3 DEF Course, Registered, Entry, Landing
  <1> QED
    BY <1>4, <1>5, <1>6 DEF Course

LEMMA LaunchStep ==
  ASSUME Types, Course, NEW c \in Calls, NEW f \in Flights, Launch(c, f)
  PROVE  Types' /\ Course'
  <1> DEFINE s == SymbolOf[c]
             created == [flight[f] EXCEPT !.phase = "created", !.symbol = s]
  <1>1. /\ WaitFor(c, f) /\ UNCHANGED <<now, entry, page>>
        /\ flight[f] = Free /\ s \in Symbols
        /\ flight[f] \in FlightRecords
    BY DEF Launch, WaitFor, Types
  <1>2. inflight' = [inflight EXCEPT ![s] = f]
    BY DEF Launch
  <1>3. flight' = [flight EXCEPT ![f] = created]
    BY DEF Launch
  <1>4. /\ created \in FlightRecords
        /\ created.phase = "created" /\ created.symbol = s
    BY <1>1 DEF FlightRecords, Flying
  <1> HIDE DEF created
  <1>5. /\ flight' \in [Flights -> FlightRecords] /\ flight'[f] = created
        /\ \A g \in Flights : g # f => flight'[g] = flight[g]
    BY <1>3, <1>4 DEF Types
  <1>6. flight[f].phase = "free"
    BY <1>1 DEF Free
  <1>7. Types'
    BY <1>1, <1>2, <1>5, WaitingCall DEF Types
  <1>8. \A d \in Calls : Waits(d)' /\ HasResult(d)'
    <2> SUFFICES ASSUME NEW d \in Calls PROVE Waits(d)' /\ HasResult(d)'
      OBVIOUS
    <2>0. /\ call'[c].phase = "waiting" /\ call'[c].flight = f
          /\ call'[c].asked = now /\ call'[c].result.status = "none"
      BY <1>1, WaitingCall
    <2>1. CASE d = c
      <3>1. now' = now /\ now \in Nat
        BY <1>1 DEF Types
      <3> QED
        BY <2>0, <2>1, <1>4, <1>5, <3>1 DEF Waits, HasResult, Ended
    <2>2. CASE d # c
      <3>1. call'[d] = call[d]
        BY <2>2, <1>1, WaitingCall
      <3>2. Waits(d) /\ HasResult(d)
        BY DEF Course
      <3>3. call[d].phase = "waiting" => flight'[call[d].flight] = flight[call[d].flight]
        BY <3>2, <1>5, <1>6 DEF Waits
      <3> QED
        BY <3>1, <3>2, <3>3, <1>1 DEF Waits, HasResult, Ended
    <2> QED
      BY <2>1, <2>2
  <1>9. \A t \in Symbols : Registered(t)' /\ Entry(t)'
    <2> SUFFICES ASSUME NEW t \in Symbols PROVE Registered(t)' /\ Entry(t)'
      OBVIOUS
    <2>1. Registered(t) /\ Entry(t)
      BY DEF Course
    <2>2. inflight[t] \in Flights \cup {NoFlight}
      BY DEF Types
    <2>3. inflight'[t] = IF t = s THEN f ELSE inflight[t]
      BY <1>2 DEF Types
    <2>4. Registered(t)'
      BY <2>1, <2>2, <2>3, <1>4, <1>5, <1>6 DEF Registered
    <2> QED
      BY <2>1, <2>4, <1>1 DEF Entry
  <1>10. \A g \in Flights : Landing(g)'
    BY <1>1, <1>4, <1>5 DEF Course, Landing
  <1> QED
    BY <1>7, <1>8, <1>9, <1>10 DEF Course

LEMMA WakeStep ==
  ASSUME Types, Course, NEW c \in Calls, Wake(c)
  PROVE  Types' /\ Course'
  <1> DEFINE f == call[c].flight
             s == SymbolOf[c]
             r == Outcome(c)
  <1>1. /\ call[c].phase = "waiting" /\ flight[f].phase \in Over
        /\ inflight' = [inflight EXCEPT ![s] = NoFlight]
        /\ flight' = IF Waiters(f) = {c} THEN [flight EXCEPT ![f] = Free]
                     ELSE flight
        /\ UNCHANGED <<now, entry>>
    BY DEF Wake
  <1>2. EndWith(c, r)
    BY DEF Wake, Outcome
  <1>3. f \in Flights /\ flight[f].symbol = s /\ s \in Symbols
    BY <1>1 DEF Course, Waits
  <1>4. r \in Result
    BY <1>1, <1>3, OutcomeType
  <1>5. r.status # "none"
    <2>1. CASE flight[f].phase = "cancelled" \/ call[c].doomed
      BY <2>1, VerdictResults DEF Outcome
    <2>2. CASE ~(flight[f].phase = "cancelled" \/ call[c].doomed)
      <3>1. flight[f].phase = "landed" /\ flight[f].value.status \in Fetched
        BY <2>2, <1>1, <1>3 DEF Over, Course, Landing
      <3>2. call[c].stale \in Result /\ flight[f].value \in Result
        BY <1>3 DEF Types, CallRecords, FlightRecords
      <3>3. Fallback(call[c].stale, flight[f].value).status
              \in {flight[f].value.status, "cached"}
        BY <3>2, FallbackType
      <3> QED
        BY <2>2, <3>1, <3>3 DEF Outcome, Fetched, Failing
    <2> QED
      BY <2>1, <2>2
  <1> HIDE DEF r
  <1>6. /\ flight' \in [Flights -> FlightRecords]
        /\ \A g \in Flights : g # f \/ Waiters(f) # {c} => flight'[g] = flight[g]
        /\ \A g \in Flights : flight'[g] = flight[g] \/ flight'[g] = Free
    BY <1>1, StartTypes DEF Types
  <1>7. Types'
    BY <1>1, <1>2, <1>4, <1>6, EndingACall DEF Types
  <1>8. \A d \in Calls : Waits(d)' /\ HasResult(d)'
    <2> SUFFICES ASSUME NEW d \in Calls PROVE Waits(d)' /\ HasResult(d)'
      OBVIOUS
    <2>1. CASE d = c
      <3>1. call'[c].phase = "ended" /\ call'[c].result.status = r.status
        BY <1>2, <1>4, EndingACall, ToldType
      <3> QED
        BY <2>1, <3>1, <1>5 DEF Waits, HasResult, Ended
    <2>2. CASE d # c
      <3>1. call'[d] = call[d]
        BY <2>2, <1>2, <1>4, EndingACall
      <3>2. call[d].phase = "waiting" /\ call[d].flight = f => Waiters(f) # {c}
        BY <2>2 DEF Waiters
      <3> QED
        BY <3>1, <3>2, <1>1, <1>6 DEF Course, Waits, HasResult, Ended
    <2> QED
      BY <2>1, <2>2
  <1>9. \A t \in Symbols : Registered(t)' /\ Entry(t)'
    <2> SUFFICES ASSUME NEW t \in Symbols PROVE Registered(t)' /\ Entry(t)'
      OBVIOUS
    <2>1. Registered(t) /\ Entry(t) /\ inflight[t] \in Flights \cup {NoFlight}
      BY DEF Course, Types
    <2>2. inflight'[t] = IF t = s THEN NoFlight ELSE inflight[t]
      BY <1>1 DEF Types
    <2>3. Registered(t)'
      BY <2>1, <2>2, <1>3, <1>6 DEF Registered
    <2> QED
      BY <2>1, <2>3, <1>1 DEF Entry
  <1>10. \A g \in Flights : Landing(g)'
    BY <1>1, <1>6 DEF Course, Landing, Free
  <1> QED
    BY <1>7, <1>8, <1>9, <1>10 DEF Course

\* One flight changes, and neither becomes free nor changes its symbol.
LEMMA FlightChanges ==
  ASSUME Types, Course, NEW f \in Flights, flight[f].phase # "free",
         NEW x \in FlightRecords, flight' = [flight EXCEPT ![f] = x],
         x.symbol = flight[f].symbol, x.phase # "free",
         x.phase = "landed" => /\ now < x.value.at + Ttl
                               /\ x.value.status \in Fetched,
         UNCHANGED <<now, inflight, call, page>>,
         entry' \in [Symbols -> Result], \A s \in Symbols : Entry(s)'
  PROVE  Types' /\ Course'
  <1>1. /\ flight' \in [Flights -> FlightRecords] /\ flight'[f] = x
        /\ \A g \in Flights : g # f => flight'[g] = flight[g]
    BY DEF Types
  <1>2. Types'
    BY <1>1 DEF Types
  <1>3. \A c \in Calls : Waits(c)' /\ HasResult(c)'
    <2> SUFFICES ASSUME NEW c \in Calls PROVE Waits(c)' /\ HasResult(c)'
      OBVIOUS
    <2>1. Waits(c) /\ HasResult(c)
      BY DEF Course
    <2> QED
      BY <2>1, <1>1 DEF Waits, HasResult, Ended
  <1>4. \A s \in Symbols : Registered(s)'
    <2> SUFFICES ASSUME NEW s \in Symbols PROVE Registered(s)'
      OBVIOUS
    <2>1. Registered(s) /\ inflight[s] \in Flights \cup {NoFlight}
      BY DEF Course, Types
    <2> QED
      BY <2>1, <1>1 DEF Registered
  <1>5. \A g \in Flights : Landing(g)'
    <2> SUFFICES ASSUME NEW g \in Flights PROVE Landing(g)'
      OBVIOUS
    <2>1. Landing(g) /\ Landing(f)
      BY DEF Course
    <2> QED
      BY <2>1, <1>1 DEF Landing
  <1> QED
    BY <1>2, <1>3, <1>4, <1>5 DEF Course

LEMMA BeginStep ==
  ASSUME Types, Course, NEW f \in Flights, Begin(f)
  PROVE  Types' /\ Course'
  <1> DEFINE x == [flight[f] EXCEPT !.phase = "calling", !.began = now]
  <1>1. flight[f] \in FlightRecords /\ flight[f].phase = "created" /\ now \in Nat
    BY DEF Begin, Types
  <1>2. /\ x \in FlightRecords
        /\ x.phase = "calling" /\ x.symbol = flight[f].symbol
    BY <1>1 DEF FlightRecords, Flying
  <1>3. flight' = [flight EXCEPT ![f] = x]
    BY DEF Begin
  <1>4. \A s \in Symbols : Entry(s)'
    BY DEF Begin, Course, Entry
  <1>5. UNCHANGED <<now, inflight, call, page>> /\ entry' \in [Symbols -> Result]
    BY DEF Begin, Types
  <1> HIDE DEF x
  <1> QED
    BY <1>1, <1>2, <1>3, <1>4, <1>5, FlightChanges

LEMMA UnwindStep ==
  ASSUME Types, Course, NEW f \in Flights, Unwinds(f)
  PROVE  Types' /\ Course'
  <1> DEFINE x == [flight[f] EXCEPT !.phase = "cancelled", !.began = 0]
  <1>1. flight[f] \in FlightRecords /\ flight[f].phase = "cancelling"
    BY DEF Unwinds, Types
  <1>2. /\ x \in FlightRecords
        /\ x.phase = "cancelled" /\ x.symbol = flight[f].symbol
    BY <1>1 DEF FlightRecords, Over
  <1>3. flight' = [flight EXCEPT ![f] = x]
    BY DEF Unwinds
  <1>4. \A s \in Symbols : Entry(s)'
    BY DEF Unwinds, Course, Entry
  <1>5. UNCHANGED <<now, inflight, call, page>> /\ entry' \in [Symbols -> Result]
    BY DEF Unwinds, Types
  <1> HIDE DEF x
  <1> QED
    BY <1>1, <1>2, <1>3, <1>4, <1>5, FlightChanges

LEMMA LandStep ==
  ASSUME Types, Course, NEW f \in Flights, NEW status \in Fetched,
         NEW rows \in BOOLEAN, Land(f, status, rows)
  PROVE  Types' /\ Course'
  <1> DEFINE value == [status |-> status, rows |-> rows, at |-> now]
             x == [flight[f] EXCEPT !.phase = "landed", !.value = value,
                                    !.began = 0]
  <1>1. /\ flight[f] \in FlightRecords /\ flight[f].phase = "calling"
        /\ now \in Nat /\ now < now + Ttl
    BY DEF Land, Types
  <1>2. value \in Result /\ value.at = now /\ value.status = status
    BY <1>1 DEF Result
  <1>3. /\ flight' = [flight EXCEPT ![f] = x]
        /\ entry' = [entry EXCEPT ![flight[f].symbol] = value]
        /\ UNCHANGED <<now, inflight, call, page>>
    BY DEF Land
  <1> HIDE DEF value
  <1>4. /\ x \in FlightRecords /\ x.value = value
        /\ x.phase = "landed" /\ x.symbol = flight[f].symbol
    BY <1>1, <1>2 DEF FlightRecords, Over
  <1> HIDE DEF x
  <1>5. entry' \in [Symbols -> Result]
    BY <1>2, <1>3 DEF Types
  <1>6. \A s \in Symbols : Entry(s)'
    BY <1>2, <1>3 DEF Course, Entry, Types
  <1> QED
    BY <1>1, <1>2, <1>3, <1>4, <1>5, <1>6, FlightChanges

LEMMA OpenStep ==
  ASSUME Types, Course, NEW p \in Pages, OpenPage(p),
         \A c \in Workers(p) : call[c].phase = "idle"
  PROVE  Types' /\ Course'
  <1>1. \A c \in Calls : LET x == [call[c] EXCEPT !.phase = "queued"] IN
          call[c] \in CallRecords /\ x \in CallRecords /\ x.phase = "queued"
          /\ x.result = call[c].result
    BY DEF Types, CallRecords
  <1>2. call' = [c \in Calls |-> IF PageOf[c] = p
                   THEN [call[c] EXCEPT !.phase = "queued"] ELSE call[c]]
    BY DEF OpenPage
  <1>3. /\ page[p] \in PageRecords /\ now \in Nat
        /\ page' = [page EXCEPT ![p] = [page[p] EXCEPT !.phase = "open",
                                                      !.since = now]]
    BY DEF OpenPage, Types
  <1>4. page' \in [Pages -> PageRecords]
    BY <1>3 DEF Types, PageRecords
  <1>5. UNCHANGED <<now, entry, inflight, flight>>
    BY DEF OpenPage
  <1>6. Types'
    BY <1>1, <1>2, <1>4, <1>5 DEF Types
  <1>7. \A c \in Calls : Waits(c)' /\ HasResult(c)'
    <2> SUFFICES ASSUME NEW c \in Calls PROVE Waits(c)' /\ HasResult(c)'
      OBVIOUS
    <2>1. Waits(c) /\ HasResult(c)
      BY DEF Course
    <2>2. CASE PageOf[c] = p
      <3>1. call[c].phase = "idle"
        BY <2>2 DEF Workers
      <3>2. call'[c].phase = "queued" /\ call'[c].result = call[c].result
        BY <2>2, <1>1, <1>2
      <3> QED
        BY <2>1, <3>1, <3>2 DEF Waits, HasResult, Ended
    <2>3. CASE PageOf[c] # p
      BY <2>1, <2>3, <1>2, <1>5 DEF Waits, HasResult, Ended
    <2> QED
      BY <2>2, <2>3
  <1>8. /\ \A s \in Symbols : Registered(s)' /\ Entry(s)'
        /\ \A g \in Flights : Landing(g)'
    BY <1>5 DEF Course, Registered, Entry, Landing
  <1> QED
    BY <1>6, <1>7, <1>8 DEF Course

LEMMA ExpireCalls ==
  ASSUME Types, NEW p \in Pages, Expire(p)
  PROVE  /\ call' \in [Calls -> CallRecords]
         /\ \A c \in Calls :
              /\ PageOf[c] # p => call'[c] = call[c]
              /\ PageOf[c] = p /\ call[c].phase = "queued" =>
                   /\ call'[c].phase = "ended" /\ ~call'[c].doomed
                   /\ call'[c].result.status = "lost"
                   /\ ~call'[c].result.rows
              /\ PageOf[c] = p /\ call[c].phase # "queued" =>
                   /\ call'[c].phase = call[c].phase
                   /\ call'[c].flight = call[c].flight
                   /\ call'[c].asked = call[c].asked
                   /\ call'[c].stale = call[c].stale
                   /\ call'[c].result = call[c].result
                   /\ call'[c].doomed <=> call[c].phase = "waiting" /\
                                           flight[call[c].flight].phase \in Over
  <1> DEFINE lost == [Idle EXCEPT !.phase = "ended", !.result = Verdict("lost")]
             doomed(c) == call[c].phase = "waiting" /\
                          flight[call[c].flight].phase \in Over
  <1>1. /\ lost \in CallRecords /\ lost.phase = "ended"
        /\ ~lost.doomed /\ lost.result.status = "lost" /\ ~lost.result.rows
    BY VerdictResults, StartTypes, ResultTypes DEF Idle, CallRecords
  <1>2. call' = [c \in Calls |->
                   IF PageOf[c] # p THEN call[c]
                   ELSE IF call[c].phase = "queued" THEN lost
                   ELSE [call[c] EXCEPT !.doomed = doomed(c)]]
    BY DEF Expire
  <1>3. ASSUME NEW x \in CallRecords, NEW b \in BOOLEAN
        PROVE  LET y == [x EXCEPT !.doomed = b] IN
               /\ y \in CallRecords /\ y.phase = x.phase /\ y.flight = x.flight
               /\ y.asked = x.asked /\ y.stale = x.stale /\ y.result = x.result
               /\ y.doomed = b
    BY DEF CallRecords
  <1>4. \A c \in Calls : call[c] \in CallRecords /\ doomed(c) \in BOOLEAN
    BY DEF Types
  <1> HIDE DEF lost, doomed
  <1>5. \A c \in Calls :
          LET y == [call[c] EXCEPT !.doomed = doomed(c)] IN
          /\ y \in CallRecords
          /\ y.phase = call[c].phase /\ y.flight = call[c].flight
          /\ y.asked = call[c].asked /\ y.stale = call[c].stale
          /\ y.result = call[c].result /\ y.doomed = doomed(c)
    BY <1>3, <1>4
  <1>6. call' \in [Calls -> CallRecords]
    BY <1>1, <1>2, <1>4, <1>5
  <1>7. \A c \in Calls :
          call'[c] = IF PageOf[c] # p THEN call[c]
                     ELSE IF call[c].phase = "queued" THEN lost
                     ELSE [call[c] EXCEPT !.doomed = doomed(c)]
    BY <1>2
  <1> QED
    BY <1>1, <1>5, <1>6, <1>7 DEF doomed

LEMMA ExpireFlights ==
  ASSUME Types, NEW p \in Pages, Expire(p)
  PROVE  /\ flight' \in [Flights -> FlightRecords]
         /\ \A f \in Flights :
              IF flight[f].phase \in Flying /\ Waiters(f) \cap Workers(p) # {}
              THEN /\ flight'[f].phase = "cancelling"
                   /\ flight'[f].symbol = flight[f].symbol
              ELSE flight'[f] = flight[f]
  <1>1. ASSUME NEW x \in FlightRecords
        PROVE  LET y == [x EXCEPT !.phase = "cancelling"] IN
               /\ y \in FlightRecords /\ y.phase = "cancelling"
               /\ y.symbol = x.symbol
    BY DEF FlightRecords, Flying
  <1>2. flight' = [f \in Flights |->
          IF flight[f].phase \in Flying /\ Waiters(f) \cap Workers(p) # {}
          THEN [flight[f] EXCEPT !.phase = "cancelling"] ELSE flight[f]]
    BY DEF Expire
  <1>3. \A f \in Flights : flight[f] \in FlightRecords
    BY DEF Types
  <1>4. \A f \in Flights :
          LET y == [flight[f] EXCEPT !.phase = "cancelling"] IN
          /\ y \in FlightRecords /\ y.phase = "cancelling"
          /\ y.symbol = flight[f].symbol
    BY <1>1, <1>3
  <1> QED
    BY <1>2, <1>3, <1>4

LEMMA ExpirePages ==
  ASSUME Types, NEW p \in Pages, Expire(p)
  PROVE  /\ page' \in [Pages -> PageRecords]
         /\ page'[p].phase = "expired" /\ page'[p].cut # NoCut
         /\ \A q \in Pages : q # p => page'[q] = page[q]
  <1> DEFINE x == [page[p] EXCEPT !.phase = "expired", !.cut = now]
  <1>1. page[p] \in PageRecords /\ now \in Nat
    BY DEF Types
  <1>2. x \in PageRecords /\ x.phase = "expired" /\ x.cut # NoCut
    <2>1. \A t \in Nat : t # NoCut
      BY DEF NoCut
    <2>2. x.phase = "expired" /\ x.cut = now
      BY <1>1 DEF PageRecords
    <2> QED
      BY <1>1, <2>1, <2>2 DEF PageRecords
  <1>3. page' = [page EXCEPT ![p] = x]
    BY DEF Expire
  <1> HIDE DEF x
  <1> QED
    BY <1>2, <1>3 DEF Types

LEMMA ExpireStep ==
  ASSUME Types, Course, NEW p \in Pages, Expire(p)
  PROVE  Types' /\ Course'
  <1>1. UNCHANGED <<now, entry, inflight>>
    BY DEF Expire
  <1>2. Types'
    BY <1>1, ExpireCalls, ExpireFlights, ExpirePages DEF Types
  <1>3. \A f \in Flights :
          \/ flight'[f] = flight[f]
          \/ /\ flight[f].phase # "free" /\ flight'[f].phase = "cancelling"
             /\ flight'[f].symbol = flight[f].symbol
    BY ExpireFlights DEF Flying
  <1>4. \A c \in Calls : Waits(c)' /\ HasResult(c)'
    <2> SUFFICES ASSUME NEW c \in Calls PROVE Waits(c)' /\ HasResult(c)'
      OBVIOUS
    <2>1. Waits(c) /\ HasResult(c)
      BY DEF Course
    <2>2. CASE PageOf[c] = p /\ call[c].phase = "queued"
      BY <2>2, ExpireCalls DEF Waits, HasResult, Ended
    <2>3. CASE ~(PageOf[c] = p /\ call[c].phase = "queued")
      <3>1. /\ call'[c].phase = call[c].phase /\ call'[c].asked = call[c].asked
            /\ call'[c].flight = call[c].flight /\ call'[c].result = call[c].result
        BY <2>3, ExpireCalls
      <3> QED
        BY <2>1, <3>1, <1>1, <1>3 DEF Waits, HasResult, Ended
    <2> QED
      BY <2>2, <2>3
  <1>5. \A s \in Symbols : Registered(s)' /\ Entry(s)'
    <2> SUFFICES ASSUME NEW s \in Symbols PROVE Registered(s)' /\ Entry(s)'
      OBVIOUS
    <2>1. Registered(s) /\ Entry(s) /\ inflight[s] \in Flights \cup {NoFlight}
      BY DEF Course, Types
    <2> QED
      BY <2>1, <1>1, <1>3 DEF Registered, Entry
  <1>6. \A f \in Flights : Landing(f)'
    <2> SUFFICES ASSUME NEW f \in Flights PROVE Landing(f)'
      OBVIOUS
    <2>1. Landing(f)
      BY DEF Course
    <2> QED
      BY <2>1, <1>1, <1>3 DEF Landing
  <1> QED
    BY <1>2, <1>4, <1>5, <1>6 DEF Course

\* What closing a page leaves: its status is one of the worst it was given.
LEMMA ClosePages ==
  ASSUME Types, NEW p \in Pages, Close(p)
  PROVE  /\ page' \in [Pages -> PageRecords]
         /\ page'[p].phase = "closed" /\ page'[p].cut = page[p].cut
         /\ page'[p].status \in PageStatuses(p)
         /\ \A q \in Pages : q # p => page'[q] = page[q]
  <1>1. PICK status \in PageStatuses(p) :
          page' = [page EXCEPT ![p] = [page[p] EXCEPT !.phase = "closed",
                                 !.status = status, !.since = 0]]
    BY DEF Close
  <1>2. status \in Fetched \cup {"none", "cached"}
    <2>1. \A c \in Calls : call[c].result.status
                            \in Fetched \cup {"none", "cached", "lost"}
      BY DEF Types, CallRecords, Result
    <2> QED
      BY <2>1 DEF PageStatuses, Statuses, Workers, Fetched, Failing
  <1>3. page[p] \in PageRecords
    BY DEF Types
  <1>4. LET x == [page[p] EXCEPT !.phase = "closed", !.status = status,
                                 !.since = 0]
        IN /\ x \in PageRecords /\ x.phase = "closed" /\ x.status = status
           /\ x.cut = page[p].cut
    BY <1>2, <1>3 DEF PageRecords
  <1> QED
    BY <1>1, <1>4 DEF Types

LEMMA CloseStep ==
  ASSUME Types, Course, NEW p \in Pages, Close(p)
  PROVE  Types' /\ Course'
  <1>1. UNCHANGED <<now, entry, inflight, flight, call>>
    BY DEF Close
  <1> QED
    BY <1>1, ClosePages
    DEF Types, Course, Waits, HasResult, Ended, Registered, Entry, Landing

LEMMA TickStep ==
  ASSUME Types, Course, Tick
  PROVE  Types' /\ Course'
  <1>1. /\ UNCHANGED <<entry, inflight, flight, call, page>>
        /\ now' = now + 1 /\ now \in Nat
        /\ \A f \in Flights :
             flight[f].phase = "landed" => now' < flight[f].value.at + Ttl
    BY DEF Tick, Types
  <1>2. Types'
    BY <1>1 DEF Types
  <1>3. \A c \in Calls : Waits(c)' /\ HasResult(c)'
    <2> SUFFICES ASSUME NEW c \in Calls PROVE Waits(c)' /\ HasResult(c)'
      OBVIOUS
    <2>1. Waits(c) /\ HasResult(c) /\ call[c].asked \in Nat
      BY DEF Course, Types, CallRecords
    <2>2. call[c].asked <= now => call[c].asked <= now'
      BY <2>1, <1>1
    <2> QED
      BY <2>1, <2>2, <1>1 DEF Waits, HasResult, Ended
  <1>4. /\ \A s \in Symbols : Registered(s)' /\ Entry(s)'
        /\ \A f \in Flights : Landing(f)'
    BY <1>1 DEF Course, Registered, Entry, Landing
  <1> QED
    BY <1>2, <1>3, <1>4 DEF Course

-----------------------------------------------------------------------------
(* Pages and the answers they take away.                                   *)

\* A page has workers at work only while it is open or after it was cut.
Stage(p) ==
  /\ \A c \in Workers(p) : page[p].phase = "idle" <=> call[c].phase = "idle"
  /\ page[p].phase = "closed" => \A c \in Workers(p) : Ended(c)
  /\ page[p].cut # NoCut =>
       /\ page[p].phase \in {"expired", "closed"}
       /\ \A c \in Workers(p) : call[c].phase \in {"waiting", "ended"}

\* A worker whose page was cut, and which gets or will get no answer.
CutOff(c) ==
  /\ PageOf[c] # NoPage /\ page[PageOf[c]].cut # NoCut
  /\ call[c].phase = "waiting" \/ call[c].result.status = "lost"

Culprit(s) == \E c \in Calls : SymbolOf[c] = s /\ CutOff(c)

Losing(f) ==
  flight[f].phase \in {"cancelling", "cancelled"} => Culprit(flight[f].symbol)

\* Who lost its answer has a culprit; who is about to, because its page was
\* cut, will lose it.
Loss(c) ==
  /\ call[c].result.status = "lost" => Culprit(SymbolOf[c])
  /\ call[c].doomed => PageOf[c] # NoPage /\ page[PageOf[c]].cut # NoCut
  /\ call[c].phase = "waiting" /\ CutOff(c) =>
       \/ call[c].doomed
       \/ flight[call[c].flight].phase \in {"cancelling", "cancelled"}

\* A page that closed with no failure to report has had none.
Honest(p) ==
  page[p].phase = "closed" /\ page[p].status \in {"ok", "cached"} =>
    \A c \in Workers(p) : call[c].result.status \in {"ok", "cached", "lost"}

Account ==
  /\ \A p \in Pages : Stage(p) /\ Honest(p)
  /\ \A f \in Flights : Losing(f)
  /\ \A c \in Calls : Loss(c)

Inv == Types /\ Course /\ Account

LEMMA PageOfType == \A c \in Calls : PageOf[c] \in Pages \cup {NoPage}
  OBVIOUS

\* A call at work belongs to no idle, closed or cut page, unless it waits.
LEMMA AtWork ==
  ASSUME Types, Course, Account, NEW c \in Calls, PageOf[c] # NoPage
  PROVE  /\ call[c].phase \in {"queued", "waiting"} =>
              page[PageOf[c]].phase \notin {"idle", "closed"}
         /\ call[c].phase = "queued" => page[PageOf[c]].cut = NoCut
  <1>1. PageOf[c] \in Pages /\ c \in Workers(PageOf[c])
    BY PageOfType DEF Workers
  <1>2. Stage(PageOf[c])
    BY <1>1 DEF Account
  <1> QED
    BY <1>1, <1>2 DEF Stage, Ended

\* Steps that keep the culprits keep the blame.
LEMMA CulpritsStay ==
  ASSUME NEW s, \A c \in Calls : CutOff(c) => CutOff(c)', Culprit(s)
  PROVE  Culprit(s)'
  BY DEF Culprit

\* One call moves on, its page being neither idle nor closed; what it must
\* satisfy itself is left to each step.
LEMMA OneCallMoves ==
  ASSUME Types, Course, Account, NEW c \in Calls,
         PageOf[c] # NoPage => page[PageOf[c]].phase \notin {"idle", "closed"},
         \A d \in Calls : d # c => call'[d] = call[d],
         call'[c].phase \in {"waiting", "ended"},
         \A p \in Pages : /\ page'[p].phase = page[p].phase
                         /\ page'[p].cut = page[p].cut
                         /\ page'[p].status = page[p].status
  PROVE  /\ \A p \in Pages : Stage(p)' /\ Honest(p)'
         /\ \A d \in Calls : d # c => (CutOff(d)' <=> CutOff(d))
  <1>1. ASSUME NEW p \in Pages PROVE Stage(p)' /\ Honest(p)'
    <2>1. Stage(p) /\ Honest(p)
      BY DEF Account
    <2>2. CASE PageOf[c] = p
      <3>1. page[p].phase \notin {"idle", "closed"} /\ PageOf[c] # NoPage
        BY <2>2
      <3>2. Honest(p)'
        BY <3>1 DEF Honest
      <3>3. page'[p].cut # NoCut =>
              \A d \in Workers(p) : call'[d].phase \in {"waiting", "ended"}
        BY <2>1, <2>2, <3>1 DEF Stage, Workers
      <3> QED
        BY <2>1, <3>1, <3>2, <3>3 DEF Stage, Workers
    <2>3. CASE PageOf[c] # p
      <3>1. \A d \in Workers(p) : d \in Calls /\ d # c /\ call'[d] = call[d]
        BY <2>3 DEF Workers
      <3> QED
        BY <2>1, <3>1 DEF Stage, Honest, Ended, Workers
    <2> QED
      BY <2>2, <2>3
  <1>2. ASSUME NEW d \in Calls, d # c PROVE CutOff(d)' <=> CutOff(d)
    BY <1>2, PageOfType DEF CutOff
  <1> QED
    BY <1>1, <1>2

LEMMA EndsAtOnceAccount ==
  ASSUME Types, Course, Account, NEW c \in Calls, NEW r \in Result,
         r.status \in Fetched, call[c].phase \in {"idle", "queued"},
         PageOf[c] # NoPage => call[c].phase = "queued",
         EndWith(c, r), UNCHANGED <<now, entry, inflight, flight>>
  PROVE  Account'
  <1>1. /\ call'[c].phase = "ended" /\ call'[c].result.status = r.status
        /\ call'[c].doomed = FALSE
        /\ \A d \in Calls : d # c => call'[d] = call[d]
        /\ \A p \in Pages : /\ page'[p].phase = page[p].phase
                           /\ page'[p].cut = page[p].cut
                           /\ page'[p].status = page[p].status
    BY EndingACall, ToldType
  <1>2. r.status # "lost"
    BY DEF Fetched, Failing
  <1>3. PageOf[c] # NoPage => page[PageOf[c]].phase \notin {"idle", "closed"}
    BY AtWork
  <1>4. /\ \A p \in Pages : Stage(p)' /\ Honest(p)'
        /\ \A d \in Calls : d # c => (CutOff(d)' <=> CutOff(d))
    BY <1>1, <1>3, OneCallMoves
  <1>5. ~CutOff(c)
    <2>1. HasResult(c)
      BY DEF Course
    <2> QED
      BY <2>1 DEF CutOff, HasResult, Ended
  <1>6. \A s : Culprit(s) => Culprit(s)'
    BY <1>4, <1>5 DEF Culprit
  <1>7. \A f \in Flights : Losing(f)'
    BY <1>6 DEF Account, Losing
  <1>8. ASSUME NEW d \in Calls PROVE Loss(d)'
    <2>1. CASE d = c
      BY <2>1, <1>1, <1>2 DEF Loss
    <2>2. CASE d # c
      <3>1. Loss(d) /\ call'[d] = call[d] /\ (CutOff(d)' <=> CutOff(d))
        BY <2>2, <1>1, <1>4 DEF Account
      <3>2. PageOf[d] # NoPage => page'[PageOf[d]].cut = page[PageOf[d]].cut
        BY <1>1, PageOfType
      <3> QED
        BY <3>1, <3>2, <1>6 DEF Loss
    <2> QED
      BY <2>1, <2>2
  <1> QED
    BY <1>4, <1>7, <1>8 DEF Account

LEMMA SkipAccount ==
  ASSUME Types, Course, Account, NEW c \in Calls, Skip(c)
  PROVE  Account'
  <1> Verdict("unavailable").status \in Fetched /\ Verdict("timeout").status \in Fetched
    BY VerdictResults DEF Fetched, Failing
  <1>1. CASE SkipBlocked(c)
    BY <1>1, EndsAtOnceAccount, VerdictResults DEF SkipBlocked
  <1>2. CASE SkipLate(c)
    BY <1>2, EndsAtOnceAccount, VerdictResults DEF SkipLate
  <1> QED
    BY <1>1, <1>2 DEF Skip

LEMMA CacheAccount ==
  ASSUME Types, Course, Account, NEW c \in Calls, AnswerFromCache(c)
  PROVE  Account'
  <1>1. entry[SymbolOf[c]] \in Result /\ entry[SymbolOf[c]] # NoResult
    BY DEF AnswerFromCache, Within, Types
  <1>2. entry[SymbolOf[c]].status \in Fetched
    BY <1>1 DEF Course, Entry
  <1>3. /\ call[c].phase \in {"idle", "queued"}
        /\ PageOf[c] # NoPage => call[c].phase = "queued"
    BY DEF AnswerFromCache, MayAsk
  <1> QED
    BY <1>1, <1>2, <1>3, EndsAtOnceAccount DEF AnswerFromCache

\* Starting to wait, for a flight that exists or is made for it.
LEMMA WaitAccount ==
  ASSUME Types, Course, Account, NEW c \in Calls, NEW f \in Flights,
         WaitFor(c, f),
         \A g \in Flights : flight'[g] = flight[g] \/
           (flight[g].phase = "free" /\ flight'[g].phase = "created")
  PROVE  Account'
  <1>1. /\ call'[c].phase = "waiting" /\ call'[c].result.status = "none"
        /\ call'[c].doomed = FALSE
        /\ \A d \in Calls : d # c => call'[d] = call[d]
        /\ UNCHANGED page
    BY WaitingCall DEF WaitFor
  <1>2. /\ call[c].phase \in {"idle", "queued"}
        /\ PageOf[c] # NoPage => call[c].phase = "queued"
    BY DEF WaitFor, MayAsk
  <1>3. PageOf[c] # NoPage => /\ page[PageOf[c]].phase \notin {"idle", "closed"}
                              /\ page[PageOf[c]].cut = NoCut
    BY <1>2, AtWork
  <1>4. /\ \A p \in Pages : Stage(p)' /\ Honest(p)'
        /\ \A d \in Calls : d # c => (CutOff(d)' <=> CutOff(d))
    BY <1>1, <1>3, OneCallMoves
  <1>5. ~CutOff(c) /\ ~CutOff(c)'
    BY <1>1, <1>3 DEF CutOff
  <1>6. \A s : Culprit(s) => Culprit(s)'
    BY <1>4, <1>5 DEF Culprit
  <1>7. ASSUME NEW g \in Flights PROVE Losing(g)'
    <2>1. Losing(g)
      BY DEF Account
    <2> QED
      BY <2>1, <1>6 DEF Losing
  <1>8. ASSUME NEW d \in Calls PROVE Loss(d)'
    <2>1. CASE d = c
      BY <2>1, <1>1, <1>5 DEF Loss
    <2>2. CASE d # c
      <3>1. /\ Loss(d) /\ Waits(d) /\ call'[d] = call[d]
            /\ (CutOff(d)' <=> CutOff(d))
        BY <2>2, <1>1, <1>4 DEF Account, Course
      <3>2. call[d].phase = "waiting" =>
              flight'[call[d].flight] = flight[call[d].flight]
        BY <3>1 DEF Waits
      <3> QED
        BY <3>1, <3>2, <1>1, <1>6 DEF Loss
    <2> QED
      BY <2>1, <2>2
  <1> QED
    BY <1>4, <1>7, <1>8 DEF Account

LEMMA LookAccount ==
  ASSUME Types, Course, Account, NEW c \in Calls, Look(c)
  PROVE  Account'
  <1>1. CASE AnswerFromCache(c)
    BY <1>1, CacheAccount
  <1>2. CASE Join(c)
    <2> DEFINE f == inflight[SymbolOf[c]]
    <2>1. f \in Flights /\ WaitFor(c, f) /\ UNCHANGED flight
      BY <1>2 DEF Join, Types
    <2> HIDE DEF f
    <2> QED
      BY <2>1, WaitAccount
  <1>3. ASSUME NEW f \in Flights, Launch(c, f) PROVE Account'
    <2> DEFINE created == [flight[f] EXCEPT !.phase = "created",
                                            !.symbol = SymbolOf[c]]
    <2>1. /\ WaitFor(c, f) /\ flight[f].phase = "free"
          /\ flight' = [flight EXCEPT ![f] = created]
          /\ flight[f] \in FlightRecords
      BY <1>3 DEF Launch, Free, Types
    <2>2. created.phase = "created"
      BY <2>1 DEF FlightRecords
    <2> HIDE DEF created
    <2>3. \A g \in Flights : flight'[g] = IF g = f THEN created ELSE flight[g]
      BY <2>1 DEF Types
    <2>4. \A g \in Flights : flight'[g] = flight[g] \/
            (flight[g].phase = "free" /\ flight'[g].phase = "created")
      BY <2>1, <2>2, <2>3
    <2> QED
      BY <2>1, <2>4, WaitAccount
  <1> QED
    BY <1>1, <1>2, <1>3 DEF Look

LEMMA WakeAccount ==
  ASSUME Types, Course, Account, NEW c \in Calls, Wake(c)
  PROVE  Account'
  <1> DEFINE f == call[c].flight
             r == Outcome(c)
  <1>1. /\ call[c].phase = "waiting" /\ flight[f].phase \in Over
        /\ flight' = IF Waiters(f) = {c} THEN [flight EXCEPT ![f] = Free]
                     ELSE flight
    BY DEF Wake
  <1>2. EndWith(c, r)
    BY DEF Wake, Outcome
  <1>3. f \in Flights /\ flight[f].symbol = SymbolOf[c]
    BY <1>1 DEF Course, Waits
  <1>4. r \in Result
    BY <1>1, <1>3, OutcomeType
  <1>5. r.status = "lost" <=> flight[f].phase = "cancelled" \/ call[c].doomed
    <2>1. CASE flight[f].phase = "cancelled" \/ call[c].doomed
      BY <2>1, VerdictResults DEF Outcome
    <2>2. CASE ~(flight[f].phase = "cancelled" \/ call[c].doomed)
      <3>1. flight[f].phase = "landed" /\ flight[f].value.status \in Fetched
        BY <2>2, <1>1, <1>3 DEF Over, Course, Landing
      <3>2. call[c].stale \in Result /\ flight[f].value \in Result
        BY <1>3 DEF Types, CallRecords, FlightRecords
      <3>3. Fallback(call[c].stale, flight[f].value).status
              \in {flight[f].value.status, "cached"}
        BY <3>2, FallbackType
      <3> QED
        BY <2>2, <3>1, <3>3 DEF Outcome, Fetched, Failing
    <2> QED
      BY <2>1, <2>2
  <1> HIDE DEF r
  <1>6. /\ call'[c].phase = "ended" /\ call'[c].result.status = r.status
        /\ call'[c].doomed = FALSE
        /\ \A d \in Calls : d # c => call'[d] = call[d]
        /\ \A p \in Pages : /\ page'[p].phase = page[p].phase
                           /\ page'[p].cut = page[p].cut
                           /\ page'[p].status = page[p].status
    BY <1>2, <1>4, EndingACall, ToldType
  <1>7. PageOf[c] # NoPage => page[PageOf[c]].phase \notin {"idle", "closed"}
    BY <1>1, AtWork
  <1>8. /\ \A p \in Pages : Stage(p)' /\ Honest(p)'
        /\ \A d \in Calls : d # c => (CutOff(d)' <=> CutOff(d))
    BY <1>6, <1>7, OneCallMoves
  <1>9. CutOff(c) => CutOff(c)'
    <2>1. SUFFICES ASSUME CutOff(c) PROVE CutOff(c)'
      OBVIOUS
    <2>2. call[c].doomed \/ flight[f].phase \in {"cancelling", "cancelled"}
      BY <2>1, <1>1 DEF Account, Loss
    <2>3. r.status = "lost"
      BY <2>2, <1>1, <1>5 DEF Over
    <2> QED
      BY <2>1, <2>3, <1>6, PageOfType DEF CutOff
  <1>10. \A s : Culprit(s) => Culprit(s)'
    BY <1>8, <1>9 DEF Culprit
  <1>11. \A g \in Flights : flight'[g] = flight[g] \/
           (g = f /\ Waiters(f) = {c} /\ flight'[g] = Free)
    BY <1>1 DEF Types
  <1>12. \A g \in Flights : Losing(g)'
    <2>1. Free.phase = "free"
      BY DEF Free
    <2>2. ASSUME NEW g \in Flights PROVE Losing(g)'
      <3>1. Losing(g)
        BY DEF Account
      <3> QED
        BY <2>1, <3>1, <1>10, <1>11 DEF Losing
    <2> QED
      BY <2>2
  <1>13. ASSUME NEW d \in Calls PROVE Loss(d)'
    <2>1. CASE d = c
      <3>1. r.status = "lost" => Culprit(SymbolOf[c])'
        <4>1. SUFFICES ASSUME r.status = "lost" PROVE Culprit(SymbolOf[c])'
          OBVIOUS
        <4>2. CASE flight[f].phase = "cancelled"
          BY <4>2, <1>3, <1>10 DEF Account, Losing
        <4>3. CASE call[c].doomed
          <5>1. CutOff(c)
            BY <4>3, <1>1 DEF Account, Loss, CutOff
          <5> QED
            BY <5>1, <1>9 DEF Culprit
        <4> QED
          BY <4>1, <4>2, <4>3, <1>5
      <3> QED
        BY <2>1, <3>1, <1>6 DEF Loss
    <2>2. CASE d # c
      <3>1. /\ Loss(d) /\ Waits(d) /\ call'[d] = call[d]
            /\ (CutOff(d)' <=> CutOff(d))
        BY <2>2, <1>6, <1>8 DEF Account, Course
      <3>2. call[d].phase = "waiting" =>
              flight'[call[d].flight] = flight[call[d].flight]
        <4>1. call[d].phase = "waiting" /\ call[d].flight = f => d \in Waiters(f)
          BY DEF Waiters
        <4> QED
          BY <2>2, <3>1, <4>1, <1>11 DEF Waits
      <3>3. PageOf[d] # NoPage => page'[PageOf[d]].cut = page[PageOf[d]].cut
        BY <1>6, PageOfType
      <3> QED
        BY <3>1, <3>2, <3>3, <1>10 DEF Loss
    <2> QED
      BY <2>1, <2>2
  <1> QED
    BY <1>8, <1>12, <1>13 DEF Account

\* A flight moves on without becoming one that is being cancelled.
LEMMA FlightAccount ==
  ASSUME Types, Course, Account, NEW f \in Flights,
         \A g \in Flights : g # f => flight'[g] = flight[g],
         flight'[f].symbol = flight[f].symbol,
         flight'[f].phase \in {"cancelling", "cancelled"} <=>
           flight[f].phase \in {"cancelling", "cancelled"},
         UNCHANGED <<call, page>>
  PROVE  Account'
  <1>1. \A p \in Pages : Stage(p)' /\ Honest(p)'
    BY DEF Account, Stage, Honest, Ended
  <1>2. \A c \in Calls : CutOff(c)' <=> CutOff(c)
    BY DEF CutOff
  <1>3. \A s : Culprit(s)' <=> Culprit(s)
    BY <1>2 DEF Culprit
  <1>4. ASSUME NEW g \in Flights PROVE Losing(g)'
    <2>1. Losing(g)
      BY DEF Account
    <2>2. CASE g = f
      BY <2>1, <2>2, <1>3 DEF Losing
    <2>3. CASE g # f
      BY <2>1, <2>3, <1>3 DEF Losing
    <2> QED
      BY <2>2, <2>3
  <1>5. ASSUME NEW c \in Calls PROVE Loss(c)'
    <2>1. Loss(c) /\ Waits(c)
      BY DEF Account, Course
    <2>2. call[c].phase = "waiting" =>
            (flight'[call[c].flight].phase \in {"cancelling", "cancelled"} <=>
             flight[call[c].flight].phase \in {"cancelling", "cancelled"})
      BY <2>1 DEF Waits
    <2> QED
      BY <2>1, <2>2, <1>2, <1>3 DEF Loss
  <1> QED
    BY <1>1, <1>4, <1>5 DEF Account

LEMMA BeginAccount ==
  ASSUME Types, Course, Account, NEW f \in Flights, Begin(f)
  PROVE  Account'
  <1> DEFINE x == [flight[f] EXCEPT !.phase = "calling", !.began = now]
  <1>1. flight[f] \in FlightRecords /\ flight[f].phase = "created"
    BY DEF Begin, Types
  <1>2. x.phase = "calling" /\ x.symbol = flight[f].symbol
    BY <1>1 DEF FlightRecords
  <1>3. flight' = [flight EXCEPT ![f] = x] /\ UNCHANGED <<call, page>>
    BY DEF Begin
  <1> HIDE DEF x
  <1>4. flight'[f] = x /\ \A g \in Flights : g # f => flight'[g] = flight[g]
    BY <1>3 DEF Types
  <1> QED
    BY <1>1, <1>2, <1>3, <1>4, FlightAccount

LEMMA UnwindAccount ==
  ASSUME Types, Course, Account, NEW f \in Flights, Unwinds(f)
  PROVE  Account'
  <1> DEFINE x == [flight[f] EXCEPT !.phase = "cancelled", !.began = 0]
  <1>1. flight[f] \in FlightRecords /\ flight[f].phase = "cancelling"
    BY DEF Unwinds, Types
  <1>2. x.phase = "cancelled" /\ x.symbol = flight[f].symbol
    BY <1>1 DEF FlightRecords
  <1>3. flight' = [flight EXCEPT ![f] = x] /\ UNCHANGED <<call, page>>
    BY DEF Unwinds
  <1> HIDE DEF x
  <1>4. flight'[f] = x /\ \A g \in Flights : g # f => flight'[g] = flight[g]
    BY <1>3 DEF Types
  <1> QED
    BY <1>1, <1>2, <1>3, <1>4, FlightAccount

LEMMA LandAccount ==
  ASSUME Types, Course, Account, NEW f \in Flights, NEW status, NEW rows,
         Land(f, status, rows)
  PROVE  Account'
  <1> DEFINE value == [status |-> status, rows |-> rows, at |-> now]
             x == [flight[f] EXCEPT !.phase = "landed", !.value = value,
                                    !.began = 0]
  <1>1. flight[f] \in FlightRecords /\ flight[f].phase = "calling"
    BY DEF Land, Types
  <1>2. flight' = [flight EXCEPT ![f] = x] /\ UNCHANGED <<call, page>>
    BY DEF Land
  <1> HIDE DEF value
  <1>3. x.phase = "landed" /\ x.symbol = flight[f].symbol
    BY <1>1 DEF FlightRecords
  <1> HIDE DEF x
  <1>4. flight'[f] = x /\ \A g \in Flights : g # f => flight'[g] = flight[g]
    BY <1>2 DEF Types
  <1> QED
    BY <1>1, <1>2, <1>3, <1>4, FlightAccount

\* The workers of an idle page are idle, and it was not cut.
LEMMA IdlePage ==
  ASSUME Types, Account, NEW p \in Pages, page[p].phase = "idle"
  PROVE  page[p].cut = NoCut /\ \A c \in Workers(p) : call[c].phase = "idle"
  BY DEF Account, Stage

LEMMA OpenAccount ==
  ASSUME Types, Course, Account, NEW p \in Pages, OpenPage(p)
  PROVE  Account'
  <1>1. page[p].phase = "idle" /\ UNCHANGED flight
    BY DEF OpenPage
  <1>2. page[p].cut = NoCut /\ \A c \in Workers(p) : call[c].phase = "idle"
    BY <1>1, IdlePage
  <1>3. ASSUME NEW x \in PageRecords, NEW t \in Nat
        PROVE  LET y == [x EXCEPT !.phase = "open", !.since = t] IN
               y.phase = "open" /\ y.cut = x.cut
    BY DEF PageRecords
  <1>4. /\ page'[p].phase = "open" /\ page'[p].cut = NoCut
        /\ \A q \in Pages : q # p => page'[q] = page[q]
    <2>1. page[p] \in PageRecords /\ now \in Nat
      BY DEF Types
    <2>2. page' = [page EXCEPT ![p] = [page[p] EXCEPT !.phase = "open",
                                                      !.since = now]]
      BY DEF OpenPage
    <2> QED
      BY <2>1, <2>2, <1>2, <1>3 DEF Types
  <1>5. \A c \in Calls :
          LET y == [call[c] EXCEPT !.phase = "queued"] IN
          /\ call'[c] = IF PageOf[c] = p THEN y ELSE call[c]
          /\ y.phase = "queued" /\ y.result = call[c].result
          /\ y.doomed = call[c].doomed
    BY DEF OpenPage, Types, CallRecords
  <1>6. ASSUME NEW q \in Pages PROVE Stage(q)' /\ Honest(q)'
    <2>1. CASE q = p
      <3>1. \A c \in Workers(p) : call'[c].phase = "queued"
        BY <1>5 DEF Workers
      <3> QED
        BY <2>1, <3>1, <1>4 DEF Stage, Honest, Workers
    <2>2. CASE q # p
      <3>1. \A c \in Workers(q) : c \in Calls /\ call'[c] = call[c]
        BY <2>2, <1>5 DEF Workers
      <3>2. Stage(q) /\ Honest(q) /\ page'[q] = page[q]
        BY <2>2, <1>4 DEF Account
      <3> QED
        BY <3>1, <3>2 DEF Stage, Honest, Ended, Workers
    <2> QED
      BY <2>1, <2>2
  <1>7. ASSUME NEW c \in Calls
        PROVE  /\ CutOff(c)' <=> CutOff(c)
               /\ CutOff(c) => PageOf[c] # p
    <2>1. CASE PageOf[c] = p
      BY <2>1, <1>2, <1>4 DEF CutOff
    <2>2. CASE PageOf[c] # p
      BY <2>2, <1>4, <1>5, PageOfType DEF CutOff
    <2> QED
      BY <2>1, <2>2
  <1>8. \A s : Culprit(s)' <=> Culprit(s)
    BY <1>7 DEF Culprit
  <1>9. \A f \in Flights : Losing(f)'
    BY <1>1, <1>8 DEF Account, Losing
  <1>10. ASSUME NEW c \in Calls PROVE Loss(c)'
    <2>1. Loss(c)
      BY DEF Account
    <2>2. CASE PageOf[c] = p
      <3>1. /\ call'[c].phase = "queued" /\ call'[c].result = call[c].result
            /\ call'[c].doomed = call[c].doomed
        BY <2>2, <1>5
      <3> QED
        BY <2>1, <2>2, <3>1, <1>2, <1>8 DEF Loss
    <2>3. CASE PageOf[c] # p
      <3>1. call'[c] = call[c]
        BY <2>3, <1>5
      <3>2. PageOf[c] # NoPage => page'[PageOf[c]] = page[PageOf[c]]
        BY <2>3, <1>4, PageOfType
      <3> QED
        BY <2>1, <3>1, <3>2, <1>1, <1>7, <1>8 DEF Loss
    <2> QED
      BY <2>2, <2>3
  <1> QED
    BY <1>6, <1>9, <1>10 DEF Account

LEMMA ExpireAccount ==
  ASSUME Types, Course, Account, NEW p \in Pages, Expire(p)
  PROVE  Account'
  <1>1. page[p].phase = "open" /\ p # NoPage
    BY DEF Expire
  <1>2. page[p].cut = NoCut
    BY <1>1 DEF Account, Stage
  <1>3. ASSUME NEW c \in Calls, PageOf[c] = p
        PROVE  \/ /\ call[c].phase = "queued" /\ call'[c].phase = "ended"
                  /\ ~call'[c].doomed /\ call'[c].result.status = "lost"
               \/ /\ call[c].phase # "queued"
                  /\ call'[c].phase = call[c].phase
                  /\ call'[c].flight = call[c].flight
                  /\ call'[c].result = call[c].result
                  /\ call'[c].doomed <=> call[c].phase = "waiting" /\
                                          flight[call[c].flight].phase \in Over
    BY <1>3, ExpireCalls
  <1>4. \A c \in Calls : PageOf[c] # p => call'[c] = call[c]
    BY ExpireCalls
  <1>5. /\ page'[p].phase = "expired" /\ page'[p].cut # NoCut
        /\ \A q \in Pages : q # p => page'[q] = page[q]
    BY ExpirePages
  <1>6. ASSUME NEW q \in Pages PROVE Stage(q)' /\ Honest(q)'
    <2>1. CASE q = p
      <3>1. \A c \in Workers(p) : call[c].phase # "idle"
        BY <1>1 DEF Account, Stage
      <3>2. \A c \in Workers(p) :
              c \in Calls /\ PageOf[c] = p /\ call[c] \in CallRecords
        BY DEF Workers, Types
      <3>3. ASSUME NEW c \in Workers(p)
            PROVE  call'[c].phase \in {"waiting", "ended"}
        <4>1. call[c].phase \in {"queued", "waiting", "ended"}
          BY <3>1, <3>2 DEF CallRecords
        <4> QED
          BY <4>1, <3>2, <1>3
      <3> QED
        BY <2>1, <3>3, <1>5 DEF Stage, Honest, Workers
    <2>2. CASE q # p
      <3>1. \A c \in Workers(q) : c \in Calls /\ call'[c] = call[c]
        BY <2>2, <1>4 DEF Workers
      <3>2. Stage(q) /\ Honest(q) /\ page'[q] = page[q]
        BY <2>2, <1>5 DEF Account
      <3> QED
        BY <3>1, <3>2 DEF Stage, Honest, Ended, Workers
    <2> QED
      BY <2>1, <2>2
  <1>7. \A c \in Calls : PageOf[c] # p => (CutOff(c)' <=> CutOff(c))
    BY <1>4, <1>5, PageOfType DEF CutOff
  <1>8. \A c \in Calls : PageOf[c] = p => ~CutOff(c)
    BY <1>2 DEF CutOff
  <1>9. \A s : Culprit(s) => Culprit(s)'
    BY <1>7, <1>8 DEF Culprit
  <1>10. ASSUME NEW c \in Calls, PageOf[c] = p,
                call[c].phase \in {"queued", "waiting"}
         PROVE  CutOff(c)'
    <2>1. call'[c].phase = "waiting" \/ call'[c].result.status = "lost"
      BY <1>3, <1>10
    <2> QED
      BY <2>1, <1>1, <1>5, <1>10 DEF CutOff
  <1>11. ASSUME NEW f \in Flights PROVE Losing(f)'
    <2>1. Losing(f)
      BY DEF Account
    <2>2. CASE flight[f].phase \in Flying /\ Waiters(f) \cap Workers(p) # {}
      <3>1. PICK c \in Waiters(f) : c \in Workers(p)
        BY <2>2
      <3>2. /\ c \in Calls /\ call[c].phase = "waiting"
            /\ call[c].flight = f /\ PageOf[c] = p
        BY <3>1 DEF Waiters, Workers
      <3>3. flight[f].symbol = SymbolOf[c]
        BY <3>2 DEF Course, Waits
      <3>4. Culprit(SymbolOf[c])'
        BY <3>2, <1>10 DEF Culprit
      <3>5. flight'[f].symbol = SymbolOf[c]
        BY <2>2, <3>3, ExpireFlights
      <3> QED
        BY <3>4, <3>5 DEF Losing
    <2>3. CASE ~(flight[f].phase \in Flying /\ Waiters(f) \cap Workers(p) # {})
      <3>1. flight'[f] = flight[f]
        BY <2>3, ExpireFlights
      <3> QED
        BY <2>1, <3>1, <1>9 DEF Losing
    <2> QED
      BY <2>2, <2>3
  <1>12. ASSUME NEW c \in Calls PROVE Loss(c)'
    <2>1. Loss(c) /\ Waits(c)
      BY DEF Account, Course
    <2>2. ASSUME NEW f \in Flights,
                 flight[f].phase \in {"cancelling", "cancelled"}
          PROVE  flight'[f].phase \in {"cancelling", "cancelled"}
      BY <2>2, ExpireFlights
    <2>3. CASE PageOf[c] # p
      <3>1. call'[c] = call[c] /\ (CutOff(c)' <=> CutOff(c))
        BY <2>3, <1>4, <1>7
      <3>2. PageOf[c] # NoPage => page'[PageOf[c]] = page[PageOf[c]]
        BY <2>3, <1>5, PageOfType
      <3>3. call[c].phase = "waiting" => call[c].flight \in Flights
        BY <2>1 DEF Waits
      <3> QED
        BY <2>1, <2>2, <3>1, <3>2, <3>3, <1>9 DEF Loss
    <2>4. CASE PageOf[c] = p /\ call[c].phase = "queued"
      <3>1. /\ call'[c].phase = "ended" /\ ~call'[c].doomed
        BY <2>4, <1>3
      <3>2. Culprit(SymbolOf[c])'
        BY <2>4, <1>10 DEF Culprit
      <3> QED
        BY <3>1, <3>2 DEF Loss
    <2>5. CASE PageOf[c] = p /\ call[c].phase # "queued"
      <3>1. /\ call'[c].phase = call[c].phase
            /\ call'[c].flight = call[c].flight
            /\ call'[c].result = call[c].result
            /\ call'[c].doomed <=> call[c].phase = "waiting" /\
                                    flight[call[c].flight].phase \in Over
        BY <2>5, <1>3
      <3>2. call'[c].result.status = "lost" => Culprit(SymbolOf[c])'
        BY <2>1, <3>1, <1>9 DEF Loss
      <3>3. ASSUME call[c].phase = "waiting"
            PROVE  \/ call'[c].doomed
                   \/ flight'[call[c].flight].phase \in {"cancelling", "cancelled"}
        <4>1. call[c].flight \in Flights /\ flight[call[c].flight].phase # "free"
          BY <2>1, <3>3 DEF Waits
        <4>2. flight[call[c].flight].phase \in Flying \cup Over
          BY <4>1 DEF Types, FlightRecords
        <4>3. CASE flight[call[c].flight].phase \in Over
          BY <4>3, <3>1, <3>3
        <4>4. CASE flight[call[c].flight].phase \in Flying
          <5>1. c \in Waiters(call[c].flight) \cap Workers(p)
            BY <2>5, <3>3 DEF Waiters, Workers
          <5> QED
            BY <4>1, <4>4, <5>1, ExpireFlights
        <4> QED
          BY <4>2, <4>3, <4>4
      <3> QED
        BY <2>5, <3>1, <3>2, <3>3, <1>1, <1>5 DEF Loss
    <2> QED
      BY <2>3, <2>4, <2>5
  <1> QED
    BY <1>6, <1>11, <1>12 DEF Account

\* The verdict: the worst status is a good one only if they all are.
LEMMA CloseAccount ==
  ASSUME Types, Course, Account, NEW p \in Pages, Close(p)
  PROVE  Account'
  <1>1. /\ UNCHANGED <<flight, call>> /\ \A c \in Workers(p) : Ended(c)
        /\ page[p].phase \in {"open", "expired"}
    BY DEF Close
  <1>2. /\ page'[p].phase = "closed" /\ page'[p].cut = page[p].cut
        /\ page'[p].status \in PageStatuses(p)
        /\ \A q \in Pages : q # p => page'[q] = page[q]
    BY ClosePages
  <1>3. Honest(p)'
    <2>1. SUFFICES ASSUME page'[p].status \in {"ok", "cached"}, NEW c \in Workers(p)
                   PROVE  call[c].result.status \in {"ok", "cached", "lost"}
      BY <1>1 DEF Honest, Workers
    <2>2. /\ call[c].result.status \in Fetched \cup {"none", "cached", "lost"}
          /\ call[c].result.status # "none"
      BY <1>1 DEF Workers, Types, CallRecords, Result, Course, HasResult
    <2>3. SUFFICES ASSUME call[c].result.status # "lost"
                   PROVE  call[c].result.status \in {"ok", "cached"}
      OBVIOUS
    <2>4. call[c].result.status \in Statuses(p)
      BY <2>2, <2>3 DEF Statuses
    <2>5. Priority(call[c].result.status) <= Priority(page'[p].status)
      BY <2>4, <1>2 DEF PageStatuses
    <2>6. Priority(page'[p].status) = 0
      BY <2>1 DEF Priority
    <2>7. call[c].result.status \notin {"unavailable", "timeout", "error"}
      BY <2>5, <2>6 DEF Priority
    <2> QED
      BY <2>2, <2>3, <2>7 DEF Fetched, Failing
  <1>4. Stage(p)'
    <2>1. Stage(p)
      BY DEF Account
    <2> QED
      BY <2>1, <1>1, <1>2 DEF Stage, Ended, Workers
  <1>5. ASSUME NEW q \in Pages PROVE Stage(q)' /\ Honest(q)'
    <2>1. CASE q = p
      BY <2>1, <1>3, <1>4
    <2>2. CASE q # p
      <3>1. Stage(q) /\ Honest(q) /\ page'[q] = page[q]
        BY <2>2, <1>2 DEF Account
      <3> QED
        BY <3>1, <1>1 DEF Stage, Honest, Ended, Workers
    <2> QED
      BY <2>1, <2>2
  <1>6. \A q \in Pages : page'[q].cut = page[q].cut
    BY <1>2
  <1>7. \A c \in Calls : CutOff(c)' <=> CutOff(c)
    BY <1>1, <1>6, PageOfType DEF CutOff
  <1>8. \A s : Culprit(s)' <=> Culprit(s)
    BY <1>7 DEF Culprit
  <1>9. \A f \in Flights : Losing(f)'
    BY <1>1, <1>8 DEF Account, Losing
  <1>10. \A c \in Calls : Loss(c)'
    BY <1>1, <1>6, <1>7, <1>8, PageOfType DEF Account, Loss
  <1> QED
    BY <1>5, <1>9, <1>10 DEF Account

-----------------------------------------------------------------------------
(* The invariant and what follows from it.                                 *)

LEMMA InitInv == Init => Inv
  <1> SUFFICES ASSUME Init PROVE Inv
    OBVIOUS
  <1>1. Types /\ Course
    BY InitCourse
  <1>2. /\ \A p \in Pages : page[p].phase = "idle" /\ page[p].cut = NoCut
        /\ \A c \in Calls : /\ call[c].phase = "idle" /\ ~call[c].doomed
                           /\ call[c].result.status = "none"
        /\ \A f \in Flights : flight[f].phase = "free"
    BY DEF Init, Idle, Free, NoResult
  <1>3. Account
    BY <1>2 DEF Account, Stage, Honest, Losing, Loss, Workers
  <1> QED
    BY <1>1, <1>3 DEF Inv

LEMMA StepInv == Inv /\ [Next]_vars => Inv'
  <1> SUFFICES ASSUME Types, Course, Account, [Next]_vars
               PROVE  Types' /\ Course' /\ Account'
    BY DEF Inv
  <1>1. ASSUME NEW p \in Pages, OpenPage(p) PROVE Types' /\ Course' /\ Account'
    <2>1. page[p].phase = "idle"
      BY <1>1 DEF OpenPage
    <2> QED
      BY <1>1, <2>1, IdlePage, OpenStep, OpenAccount
  <1>2. ASSUME NEW p \in Pages, Expire(p) PROVE Types' /\ Course' /\ Account'
    BY <1>2, ExpireStep, ExpireAccount
  <1>3. ASSUME NEW p \in Pages, Close(p) PROVE Types' /\ Course' /\ Account'
    BY <1>3, CloseStep, CloseAccount
  <1>4. ASSUME NEW c \in Calls, Look(c) PROVE Types' /\ Course' /\ Account'
    <2>1. Types' /\ Course'
      BY <1>4, CacheStep, JoinStep, LaunchStep DEF Look
    <2> QED
      BY <1>4, <2>1, LookAccount
  <1>5. ASSUME NEW c \in Calls, Skip(c) PROVE Types' /\ Course' /\ Account'
    BY <1>5, SkipStep, SkipAccount
  <1>6. ASSUME NEW c \in Calls, Wake(c) PROVE Types' /\ Course' /\ Account'
    BY <1>6, WakeStep, WakeAccount
  <1>7. ASSUME NEW f \in Flights, Begin(f) PROVE Types' /\ Course' /\ Account'
    BY <1>7, BeginStep, BeginAccount
  <1>8. ASSUME NEW f \in Flights, Unwinds(f) PROVE Types' /\ Course' /\ Account'
    BY <1>8, UnwindStep, UnwindAccount
  <1>9. ASSUME NEW f \in Flights, NEW status \in Fetched, NEW rows \in BOOLEAN,
               Land(f, status, rows)
        PROVE  Types' /\ Course' /\ Account'
    BY <1>9, LandStep, LandAccount
  <1>10. ASSUME NEW f \in Flights, Answered(f) \/ Fails(f) \/ TimesOut(f)
         PROVE  Types' /\ Course' /\ Account'
    <2>1. \E status \in Fetched, rows \in BOOLEAN : Land(f, status, rows)
      BY <1>10 DEF Answered, Fails, TimesOut, Fetched, Failing
    <2> QED
      BY <2>1, <1>9
  <1>11. ASSUME Tick PROVE Types' /\ Course' /\ Account'
    <2>1. UNCHANGED <<flight, call, page>>
      BY <1>11 DEF Tick
    <2>2. \A c \in Calls : CutOff(c)' <=> CutOff(c)
      BY <2>1 DEF CutOff
    <2>3. \A s : Culprit(s)' <=> Culprit(s)
      BY <2>2 DEF Culprit
    <2>4. Account'
      BY <2>1, <2>2, <2>3 DEF Account, Stage, Honest, Ended, Losing, Loss
    <2> QED
      BY <1>11, <2>4, TickStep
  <1>12. ASSUME UNCHANGED vars PROVE Types' /\ Course' /\ Account'
    <2>1. UNCHANGED <<now, entry, inflight, flight, call, page>>
      BY <1>12 DEF vars
    <2>2. Types'
      BY <2>1 DEF Types
    <2>3. Course'
      BY <2>1 DEF Course, Waits, HasResult, Ended, Registered, Entry, Landing
    <2>4. \A c \in Calls : CutOff(c)' <=> CutOff(c)
      BY <2>1 DEF CutOff
    <2>5. \A s : Culprit(s)' <=> Culprit(s)
      BY <2>4 DEF Culprit
    <2>6. Account'
      BY <2>1, <2>4, <2>5 DEF Account, Stage, Honest, Ended, Losing, Loss
    <2> QED
      BY <2>2, <2>3, <2>6
  <1> QED
    BY <1>1, <1>2, <1>3, <1>4, <1>5, <1>6, <1>7, <1>8, <1>10, <1>11, <1>12
    DEF Next, Loop

LEMMA Invariance == Spec => []Inv
  BY InitInv, StepInv, PTL DEF Spec

(* Every reachable state of the earnings cache is well typed.              *)
THEOREM TypeCorrect == Spec => []TypeOK
  <1>1. Inv => TypeOK
    BY DEF Inv, Types, Course, HasResult, TypeOK, FlightRecords, CallRecords,
           PageRecords
  <1> QED
    BY <1>1, Invariance, PTL

(* Only pages that spend their budget take answers away, and a worker of   *)
(* theirs on the same symbol loses its own                                 *)
(* (get_upcoming_earnings_for_tickers and the unshielded await).           *)
THEOREM LossesAreCaused == Spec => []LossHasCause
  <1>1. Inv => LossHasCause
    BY DEF Inv, Account, Loss, Culprit, CutOff, LossHasCause
  <1> QED
    BY <1>1, Invariance, PTL

(* A page reports "ok" only when each of its tickers was asked for and     *)
(* answered, or taken away by a spent budget.                              *)
THEOREM OkMeansComplete == Spec => []CompleteOrMarked
  <1>1. Inv => CompleteOrMarked
    BY DEF Inv, Account, Honest, CompleteOrMarked
  <1> QED
    BY <1>1, Invariance, PTL

-----------------------------------------------------------------------------
(* What a step may hand out.                                               *)

\* The steps that end a call.
LEMMA EndingSteps ==
  ASSUME Inv, [Next]_vars, NEW c \in Calls, ~Ended(c), Ended(c)'
  PROVE  \/ AnswerFromCache(c)
         \/ Wake(c)
         \/ call[c].phase # "waiting" /\ ~call'[c].result.rows
  <1> USE DEF Ended
  <1>1. Types /\ Course /\ Account
    BY DEF Inv
  <1>2. ASSUME NEW p \in Pages, OpenPage(p) PROVE FALSE
    <2>1. call[c] \in CallRecords
      BY <1>1 DEF Types
    <2>2. [call[c] EXCEPT !.phase = "queued"].phase = "queued"
      BY <2>1 DEF CallRecords
    <2>3. call'[c] \in {call[c], [call[c] EXCEPT !.phase = "queued"]}
      BY <1>2 DEF OpenPage
    <2> QED
      BY <2>2, <2>3
  <1>3. ASSUME NEW p \in Pages, Expire(p)
        PROVE  call[c].phase # "waiting" /\ ~call'[c].result.rows
    BY <1>1, <1>3, ExpireCalls
  <1>4. ASSUME NEW d \in Calls, Skip(d)
        PROVE  call[c].phase # "waiting" /\ ~call'[c].result.rows
    <2>1. PICK r \in {Verdict("unavailable"), Verdict("timeout")} :
             EndWith(d, r) /\ call[d].phase = "queued"
      BY <1>4 DEF Skip, SkipBlocked, SkipLate
    <2>2. r \in Result /\ ~r.rows
      BY VerdictResults
    <2>3. call'[d].result = Told(r) /\ \A e \in Calls : e # d => call'[e] = call[e]
      BY <1>1, <2>1, <2>2, EndingACall
    <2>4. ~Told(r).rows
      BY <2>2, ToldType
    <2> QED
      BY <2>1, <2>3, <2>4
  <1>5. ASSUME NEW d \in Calls, Look(d) PROVE AnswerFromCache(c)
    <2>1. CASE AnswerFromCache(d)
      <3>1. EndWith(d, entry[SymbolOf[d]]) /\ entry[SymbolOf[d]] \in Result
        BY <1>1, <2>1 DEF AnswerFromCache, Types
      <3>2. \A e \in Calls : e # d => call'[e] = call[e]
        BY <1>1, <3>1, EndingACall
      <3> QED
        BY <2>1, <3>2
    <2>2. ASSUME NEW f \in Flights, WaitFor(d, f) PROVE FALSE
      BY <1>1, <2>2, WaitingCall
    <2>3. CASE Join(d)
      <3>1. inflight[SymbolOf[d]] \in Flights /\ WaitFor(d, inflight[SymbolOf[d]])
        BY <1>1, <2>3 DEF Join, Types
      <3> QED
        BY <3>1, <2>2
    <2>4. ASSUME NEW f \in Flights, Launch(d, f) PROVE FALSE
      BY <2>2, <2>4 DEF Launch
    <2> QED
      BY <1>5, <2>1, <2>3, <2>4 DEF Look
  <1>6. ASSUME NEW d \in Calls, Wake(d) PROVE Wake(c)
    <2>1. EndWith(d, Outcome(d)) /\ call[d].phase = "waiting"
      BY <1>6 DEF Wake, Outcome
    <2>2. call[d].flight \in Flights
      BY <1>1, <2>1 DEF Course, Waits
    <2>3. \A e \in Calls : e # d => call'[e] = call[e]
      BY <1>1, <2>1, <2>2, OutcomeType, EndingACall
    <2> QED
      BY <1>6, <2>3
  <1>7. ASSUME UNCHANGED call PROVE FALSE
    BY <1>7
  <1>8. ASSUME NEW p \in Pages, Close(p) PROVE FALSE
    BY <1>7, <1>8 DEF Close
  <1>9. ASSUME NEW f \in Flights, Begin(f) \/ TimesOut(f) \/ Unwinds(f) \/
                                 Answered(f) \/ Fails(f) PROVE FALSE
    BY <1>7, <1>9 DEF Begin, TimesOut, Unwinds, Answered, Fails, Land
  <1>10. Tick => FALSE
    BY <1>7 DEF Tick
  <1>11. UNCHANGED vars => FALSE
    BY <1>7 DEF vars
  <1> QED
    BY <1>2, <1>3, <1>4, <1>5, <1>6, <1>8, <1>9, <1>10, <1>11 DEF Next, Loop

\* What a resumed waiter is given.
LEMMA WakeGives ==
  ASSUME Inv, NEW c \in Calls, Wake(c)
  PROVE  LET f == call[c].flight
             result == call'[c].result
         IN \/ ~result.rows /\ result.status = "lost"
            \/ /\ flight[f].phase = "landed" /\ f \in Flights
               /\ result = Told(Fallback(call[c].stale, flight[f].value))
               /\ call[c].stale \in Result /\ flight[f].value \in Result
  <1> DEFINE f == call[c].flight
  <1>1. /\ Types /\ Course
        /\ call[c].phase = "waiting" /\ flight[f].phase \in Over
        /\ EndWith(c, Outcome(c))
    BY DEF Inv, Wake, Outcome
  <1>2. f \in Flights
    BY <1>1 DEF Course, Waits
  <1>3. Outcome(c) \in Result
    BY <1>1, <1>2, OutcomeType
  <1>4. call'[c].result = Told(Outcome(c))
    BY <1>1, <1>3, EndingACall
  <1>5. CASE flight[f].phase = "cancelled" \/ call[c].doomed
    <2>1. Outcome(c) = Verdict("lost")
      BY <1>5 DEF Outcome
    <2> QED
      BY <2>1, <1>4, VerdictResults, ToldType
  <1>6. CASE ~(flight[f].phase = "cancelled" \/ call[c].doomed)
    <2>1. flight[f].phase = "landed"
      BY <1>1, <1>6 DEF Over
    <2>2. Outcome(c) = Fallback(call[c].stale, flight[f].value)
      BY <1>6 DEF Outcome
    <2>3. call[c].stale \in Result /\ flight[f].value \in Result
      BY <1>1, <1>2 DEF Types, CallRecords, FlightRecords
    <2> QED
      BY <2>1, <2>2, <2>3, <1>2, <1>4
  <1> QED
    BY <1>5, <1>6

(* Rows not marked "cached" are younger than the TTL at the moment they    *)
(* were asked for (TTLCache.peek, and the fallback of                      *)
(* get_per_symbol_upcoming_earnings).                                      *)
THEOREM AnswersAreFresh == Spec => FreshOrMarked
  <1> DEFINE A(c) ==
        LET result == call'[c].result
            asked == IF call[c].phase = "waiting" THEN call[c].asked ELSE now
        IN ~Ended(c) /\ Ended(c)' /\ result.rows /\ result.status # "cached" =>
             asked < result.at + Ttl
  <1>1. Inv /\ [Next]_vars => \A c \in Calls : A(c)
    <2> SUFFICES ASSUME Inv, [Next]_vars, NEW c \in Calls,
                        ~Ended(c), Ended(c)', call'[c].result.rows,
                        call'[c].result.status # "cached"
                 PROVE  A(c)
      OBVIOUS
    <2>1. AnswerFromCache(c) \/ Wake(c)
      BY EndingSteps
    <2>2. CASE AnswerFromCache(c)
      <3> DEFINE r == entry[SymbolOf[c]]
      <3>1. r \in Result /\ now - r.at < Ttl /\ EndWith(c, r)
        BY <2>2 DEF AnswerFromCache, Within, Inv, Types
      <3>2. call[c].phase # "waiting"
        BY <2>2 DEF AnswerFromCache, MayAsk
      <3>3. call'[c].result = Told(r)
        BY <3>1, EndingACall DEF Inv
      <3> HIDE DEF r
      <3>4. call'[c].result = r
        BY <3>1, <3>3, ToldType
      <3>5. r.at \in Nat /\ now \in Nat
        BY <3>1 DEF Result, Inv, Types
      <3>6. now < r.at + Ttl
        BY <3>1, <3>5
      <3> QED
        BY <3>2, <3>4, <3>6
    <2>3. CASE Wake(c)
      <3> DEFINE f == call[c].flight
                 v == flight[f].value
      <3>1. /\ flight[f].phase = "landed" /\ f \in Flights
            /\ call'[c].result = Told(Fallback(call[c].stale, v))
            /\ call[c].stale \in Result /\ v \in Result
        BY <2>3, WakeGives
      <3>2. call[c].phase = "waiting" /\ call[c].asked <= now /\ now < v.at + Ttl
        BY <2>3, <3>1 DEF Wake, Inv, Course, Waits, Landing
      <3> HIDE DEF v
      <3>3. call'[c].result = v
        BY <3>1, FallbackType, ToldType
      <3>4. call[c].asked \in Nat /\ now \in Nat /\ v.at \in Nat
        BY <3>1 DEF Result, Inv, Types, CallRecords
      <3>5. call[c].asked < v.at + Ttl
        BY <3>2, <3>4
      <3> QED
        BY <3>2, <3>3, <3>5
    <2> QED
      BY <2>1, <2>2, <2>3
  <1>2. FreshOrMarked <=> [][\A c \in Calls : A(c)]_vars
    BY DEF FreshOrMarked
  <1> QED
    BY <1>1, <1>2, Invariance, PTL DEF Spec

(* A lookup that found rows is not sent back with an empty failure         *)
(* ("Stale-on-refresh-fail").                                              *)
THEOREM StaleStandsIn == Spec => StaleWins
  <1> DEFINE A(c) ==
        call[c].phase = "waiting" /\ call[c].stale.rows /\ Ended(c)' =>
          call'[c].result.status \notin Failing
  <1>1. Inv /\ [Next]_vars => \A c \in Calls : A(c)
    <2> SUFFICES ASSUME Inv, [Next]_vars, NEW c \in Calls,
                        call[c].phase = "waiting", call[c].stale.rows, Ended(c)'
                 PROVE  call'[c].result.status \notin Failing
      OBVIOUS
    <2>1. ~Ended(c) /\ ~AnswerFromCache(c)
      BY DEF Ended, AnswerFromCache, MayAsk
    <2>2. Wake(c)
      BY <2>1, EndingSteps
    <2> DEFINE v == flight[call[c].flight].value
    <2>3. CASE call'[c].result.status = "lost"
      BY <2>3 DEF Failing
    <2>4. CASE call'[c].result.status # "lost"
      <3>1. /\ call'[c].result = Told(Fallback(call[c].stale, v))
            /\ call[c].stale \in Result /\ v \in Result
        BY <2>2, <2>4, WakeGives
      <3> HIDE DEF v
      <3> QED
        BY <3>1, FallbackType, ToldType
    <2> QED
      BY <2>3, <2>4
  <1>2. StaleWins <=> [][\A c \in Calls : A(c)]_vars
    BY DEF StaleWins
  <1> QED
    BY <1>1, <1>2, Invariance, PTL DEF Spec
=============================================================================
