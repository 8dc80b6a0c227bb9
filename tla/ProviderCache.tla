---------------------------- MODULE ProviderCache ----------------------------
(***************************************************************************)
(* Upcoming earnings of one API process (libs/market_events/providers.py): *)
(* the per-symbol TTL cache, the fan-out of a page over its tickers, and   *)
(* the ticker-detail request, which reads the cache directly.              *)
(*                                                                         *)
(* One asyncio event loop: what a coroutine does between two awaits is     *)
(* atomic.  A lookup reaches its first real await when it waits for the    *)
(* flight (the fetch task) of its symbol.  Cancelling a worker that waits  *)
(* for a flight cancels the flight itself, whoever else waits for it: the  *)
(* task is awaited without a shield.                                       *)
(*                                                                         *)
(* A payload is represented by when it was fetched; "error" stands for the *)
(* code's error and partial, which it never tells apart here.  At MaxTime  *)
(* the clock stops: later moments are not told apart and every timer that  *)
(* runs is due.  An operator whose name ends in Bug is used only by the    *)
(* mutation checks: a plausible slip in the operator that follows it.      *)
(***************************************************************************)
EXTENDS Integers, FiniteSets

CONSTANTS
  Calls,        \* lookups of one symbol: a page's workers and detail requests
  Pages,        \* requests that fan out over tickers
  Symbols,
  NumFlights,   \* names for flights, reused once their waiters have resumed
  PageOf,       \* the page a call works for, or NoPage: a detail request
  SymbolOf,
  NoPage, NoSymbol,
  Permits,      \* NEWS_CONCURRENCY, per page
  Ttl,          \* PER_SYMBOL_EARNINGS_TTL_SECONDS
  CallLimit,    \* EARNINGS_CALL_TIMEOUT_SECONDS
  Budget,       \* NEWS_SECTION_BUDGET_SECONDS
  MaxTime       \* bound on the clock

ASSUME ConstantsAssumption ==
  /\ NoPage \notin Pages /\ NoSymbol \notin Symbols
  /\ PageOf \in [Calls -> Pages \cup {NoPage}]
  /\ SymbolOf \in [Calls -> Symbols]
  /\ Ttl \in Nat \ {0}
  /\ {NumFlights, Permits, CallLimit, Budget, MaxTime} \subseteq Nat

VARIABLES
  now,        \* time.time()
  entry,      \* _entries: per symbol the stored result
  inflight,   \* _inflight: per symbol the registered flight
  flight,     \* the fetch tasks
  call,       \* the lookups
  page        \* the fan-outs

vars == <<now, entry, inflight, flight, call, page>>

Flights == 1 .. NumFlights
NoFlight == 0
NoCut == -1

Failing == {"timeout", "error"}             \* what stale data stands in for
Fetched == {"ok", "unavailable"} \cup Failing

\* A ProviderResult: rows tells whether data is non-empty, at is fetched_at.
NoResult == [status |-> "none", rows |-> FALSE, at |-> 0]
Idle == [phase |-> "idle", flight |-> NoFlight, asked |-> 0, stale |-> NoResult,
         result |-> NoResult, doomed |-> FALSE]
Free == [phase |-> "free", symbol |-> NoSymbol, began |-> 0, value |-> NoResult]

Flying == {"created", "calling", "cancelling"}
Over == {"landed", "cancelled"}

Init ==
  /\ now = 0
  /\ entry = [s \in Symbols |-> NoResult]
  /\ inflight = [s \in Symbols |-> NoFlight]
  /\ flight = [f \in Flights |-> Free]
  /\ call = [c \in Calls |-> Idle]
  /\ page = [p \in Pages |-> [phase |-> "idle", since |-> 0, blocked |-> FALSE,
                              cut |-> NoCut, status |-> "none"]]

Workers(p) == {c \in Calls : PageOf[c] = p}
Ended(c) == call[c].phase = "ended"
Waiters(f) == {c \in Calls : call[c].phase = "waiting" /\ call[c].flight = f}

\* A timer started at t has run out.
Due(t, limit) == now >= t + limit \/ now = MaxTime

-------------------------------------------------------------------------------
(* The page: get_upcoming_earnings_for_tickers.                            *)

OpenPage(p) ==
  /\ page[p].phase = "idle"
  /\ page' = [page EXCEPT ![p].phase = "open", ![p].since = now]
  /\ call' = [c \in Calls |-> IF PageOf[c] = p
                              THEN [call[c] EXCEPT !.phase = "queued"] ELSE call[c]]
  /\ UNCHANGED <<now, entry, inflight, flight>>

PermitFree(p) ==
  Cardinality({c \in Workers(p) : call[c].phase = "waiting"}) < Permits

Verdict(status) == [NoResult EXCEPT !.status = status]

\* Without rows only the status of a result says anything.
Told(result) == IF result.rows THEN result ELSE Verdict(result.status)

\* A call ends with a result and is otherwise forgotten; a page learns from the
\* result that its plan is blocked.
EndWith(c, result) ==
  /\ call' = [call EXCEPT ![c] = [Idle EXCEPT !.phase = "ended",
                                              !.result = Told(result)]]
  /\ page' = [p \in Pages |->
                IF PageOf[c] = p /\ result.status = "unavailable"
                THEN [page[p] EXCEPT !.blocked = TRUE] ELSE page[p]]

\* The worker of a blocked page asks for nothing.  (Behind the semaphore the
\* code calls this "timeout", which the page's "unavailable" outranks.)
SkipBlocked(c) ==
  /\ call[c].phase = "queued" /\ PageOf[c] # NoPage
  /\ page[PageOf[c]].blocked
  /\ EndWith(c, Verdict("unavailable"))
  /\ UNCHANGED <<now, entry, inflight, flight>>

SkipLateBug(c) ==               \* returns without a status
  /\ call[c].phase = "queued" /\ PageOf[c] # NoPage
  /\ ~page[PageOf[c]].blocked /\ PermitFree(PageOf[c])
  /\ Due(page[PageOf[c]].since, Budget)
  /\ EndWith(c, NoResult)
  /\ UNCHANGED <<now, entry, inflight, flight>>

SkipLate(c) ==
  /\ call[c].phase = "queued" /\ PageOf[c] # NoPage
  /\ ~page[PageOf[c]].blocked /\ PermitFree(PageOf[c])
  /\ Due(page[PageOf[c]].since, Budget)
  /\ EndWith(c, Verdict("timeout"))
  /\ UNCHANGED <<now, entry, inflight, flight>>

Skip(c) == SkipBlocked(c) \/ SkipLate(c)

-------------------------------------------------------------------------------
(* The lookup: get_per_symbol_upcoming_earnings over TTLCache.             *)

\* A detail request looks up at once, a worker when the semaphore lets it.
MayAsk(c) ==
  IF PageOf[c] = NoPage THEN call[c].phase = "idle"
  ELSE /\ call[c].phase = "queued" /\ ~page[PageOf[c]].blocked
       /\ PermitFree(PageOf[c]) /\ now < page[PageOf[c]].since + Budget

WithinBug(s) == entry[s] # NoResult     \* peek_entry in place of peek

Within(s) == entry[s] # NoResult /\ now - entry[s].at < Ttl

FallbackBug(stale, result) ==   \* a timeout is not taken for a failure
  IF result.status = "error" /\ stale.rows
  THEN [stale EXCEPT !.status = "cached"] ELSE result

\* Stale on a failed refresh: the entry read before the lookup stands in.
Fallback(stale, result) ==
  IF result.status \in Failing /\ stale.rows
  THEN [stale EXCEPT !.status = "cached"]
  ELSE result

AnswerFromCache(c) ==
  /\ MayAsk(c) /\ Within(SymbolOf[c])
  /\ EndWith(c, entry[SymbolOf[c]])
  /\ UNCHANGED <<now, entry, inflight, flight>>

\* The registered flight is joined even when it is over and its waiters have
\* not resumed yet.  The entry is noted before, whatever its age.
WaitFor(c, f) ==
  /\ MayAsk(c) /\ ~Within(SymbolOf[c])
  /\ call' = [call EXCEPT ![c] = [Idle EXCEPT !.phase = "waiting",
         !.flight = f, !.asked = now, !.stale = Told(entry[SymbolOf[c]])]]
  /\ UNCHANGED <<now, entry, page>>

Join(c) ==
  /\ inflight[SymbolOf[c]] # NoFlight
  /\ WaitFor(c, inflight[SymbolOf[c]])
  /\ UNCHANGED <<inflight, flight>>

Launch(c, f) ==
  /\ inflight[SymbolOf[c]] = NoFlight
  /\ flight[f] = Free /\ \A g \in Flights : g < f => flight[g] # Free
  /\ WaitFor(c, f)
  /\ flight' = [flight EXCEPT ![f].phase = "created", ![f].symbol = SymbolOf[c]]
  /\ inflight' = [inflight EXCEPT ![SymbolOf[c]] = f]

-------------------------------------------------------------------------------
(* The flight: _fetch_and_store and the fetcher it runs.                   *)

\* Waiters of an earlier flight of the symbol were queued before this one.
Begin(f) ==
  /\ flight[f].phase = "created"
  /\ \A g \in Flights :
       flight[g].phase \in Over => flight[g].symbol # flight[f].symbol
  /\ flight' = [flight EXCEPT ![f].phase = "calling", ![f].began = now]
  /\ UNCHANGED <<now, entry, inflight, call, page>>

\* Whatever the fetcher makes of the call is stored, a failure too.
Land(f, status, rows) ==
  LET value == [status |-> status, rows |-> rows, at |-> now] IN
  /\ flight[f].phase = "calling"
  /\ flight' = [flight EXCEPT ![f].phase = "landed", ![f].value = value,
                              ![f].began = 0]
  /\ entry' = [entry EXCEPT ![flight[f].symbol] = value]
  /\ UNCHANGED <<now, inflight, call, page>>

Answered(f) ==
  \/ \E rows \in BOOLEAN : Land(f, "ok", rows)
  \/ Land(f, "unavailable", FALSE)

FailsBug(f) ==                  \* the exception leaves the fetcher
  /\ flight[f].phase = "calling"
  /\ flight' = [flight EXCEPT ![f].phase = "cancelled"]
  /\ UNCHANGED <<now, entry, inflight, call, page>>

Fails(f) == Land(f, "error", FALSE)

TimesOutBug(f) == FALSE         \* no wait_for around the call

TimesOut(f) == Due(flight[f].began, CallLimit) /\ Land(f, "timeout", FALSE)

\* The cancellation has unwound the flight: nothing is stored.
Unwinds(f) ==
  /\ flight[f].phase = "cancelling"
  /\ flight' = [flight EXCEPT ![f].phase = "cancelled",
                              ![f].began = 0]
  /\ UNCHANGED <<now, entry, inflight, call, page>>

-------------------------------------------------------------------------------
(* Resuming, running out of time, closing.                                 *)

\* A waiter of a flight that is over.  Every waiter takes the registration of
\* its symbol away, whichever flight it stands for by now.
Wake(c) ==
  LET f == call[c].flight IN
  /\ call[c].phase = "waiting" /\ flight[f].phase \in Over
  /\ inflight' = [inflight EXCEPT ![SymbolOf[c]] = NoFlight]
  /\ flight' = IF Waiters(f) = {c} THEN [flight EXCEPT ![f] = Free] ELSE flight
  /\ EndWith(c, IF flight[f].phase = "cancelled" \/ call[c].doomed
                THEN Verdict("lost")         \* CancelledError
                ELSE Fallback(call[c].stale, flight[f].value))
  /\ UNCHANGED <<now, entry>>

\* The budget is spent: wait_for cancels the gather and with it the workers,
\* those behind the semaphore at once, a waiting one through its flight or,
\* when that is over, on resuming.
Expire(p) ==
  /\ page[p].phase = "open" /\ Due(page[p].since, Budget)
  /\ \E c \in Workers(p) : ~Ended(c)
  /\ page' = [page EXCEPT ![p].phase = "expired", ![p].cut = now]
  /\ call' = [c \in Calls |->
       IF PageOf[c] # p THEN call[c]
       ELSE IF call[c].phase = "queued"
       THEN [Idle EXCEPT !.phase = "ended", !.result = Verdict("lost")]
       ELSE [call[c] EXCEPT !.doomed = call[c].phase = "waiting" /\
                                       flight[call[c].flight].phase \in Over]]
  /\ flight' = [f \in Flights |->
       IF flight[f].phase \in Flying /\ Waiters(f) \cap Workers(p) # {}
       THEN [flight[f] EXCEPT !.phase = "cancelling"] ELSE flight[f]]
  /\ UNCHANGED <<now, entry, inflight>>

Priority(status) ==
  CASE status = "unavailable" -> 4 [] status = "timeout" -> 3
    [] status = "error" -> 2 [] OTHER -> 0

\* Calls that were cancelled have appended no status.
Statuses(p) == {call[c].result.status : c \in Workers(p)} \ {"none", "lost"}

PageStatuses(p) ==
  IF Workers(p) = {} THEN {"ok"}
  ELSE IF Statuses(p) = {} THEN {"timeout"}
  ELSE {s \in Statuses(p) : \A t \in Statuses(p) : Priority(t) <= Priority(s)}

Close(p) ==
  /\ page[p].phase \in {"open", "expired"}
  /\ \A c \in Workers(p) : Ended(c)
  /\ \E status \in PageStatuses(p) :
       page' = [page EXCEPT ![p].phase = "closed", ![p].status = status,
                               ![p].since = 0]
  /\ UNCHANGED <<now, entry, inflight, flight, call>>

\* No waiter of a landed flight is kept from resuming for a whole TTL.
Tick ==
  /\ now < MaxTime
  /\ \A f \in Flights :
       flight[f].phase = "landed" => now + 1 < flight[f].value.at + Ttl
  /\ now' = now + 1
  /\ UNCHANGED <<entry, inflight, flight, call, page>>

Look(c) ==
  AnswerFromCache(c) \/ Join(c) \/ \E f \in Flights : Launch(c, f)

\* What the event loop runs by itself, timers included.
Loop ==
  \/ \E p \in Pages : Expire(p) \/ Close(p)
  \/ \E c \in Calls : Wake(c) \/ Skip(c) \/ (PageOf[c] # NoPage /\ Look(c))
  \/ \E f \in Flights : Begin(f) \/ TimesOut(f) \/ Unwinds(f)
  \/ Tick

Next ==
  \/ Loop
  \/ \E p \in Pages : OpenPage(p)
  \/ \E c \in Calls : PageOf[c] = NoPage /\ Look(c)
  \/ \E f \in Flights : Answered(f) \/ Fails(f)

\* The loop never rests while something is ready.  As every request here is
\* made once, that much is enough.  Nobody is obliged to open a page, nor the
\* provider to answer before the timeout.
Fairness == WF_vars(Loop)

Spec == Init /\ [][Next]_vars /\ Fairness

-------------------------------------------------------------------------------
Result == [status : Fetched \cup {"none", "cached", "lost"}, rows : BOOLEAN,
           at : Nat]

TypeOK ==
  /\ now \in Nat
  /\ entry \in [Symbols -> Result]
  /\ inflight \in [Symbols -> Flights \cup {NoFlight}]
  /\ flight \in [Flights -> [phase : {"free"} \cup Flying \cup Over,
                             symbol : Symbols \cup {NoSymbol}, began : Nat,
                             value : Result]]
  /\ call \in [Calls -> [phase : {"idle", "queued", "waiting", "ended"},
                         flight : Flights \cup {NoFlight}, asked : Nat,
                         stale : Result, result : Result, doomed : BOOLEAN]]
  /\ page \in [Pages -> [phase : {"idle", "open", "expired", "closed"},
                         since : Nat, blocked : BOOLEAN,
                         cut : Nat \cup {NoCut},
                         status : Fetched \cup {"none", "cached"}]]
  /\ \A c \in Calls : Ended(c) <=> call[c].result.status # "none"

(* An answer that does not say "cached" is no older than the TTL, counted   *)
(* from when it was asked for, whether it came from the cache, from a       *)
(* flight of another request or from the provider (TTLCache.peek and the    *)
(* stale fallback).                                                         *)
FreshOrMarked ==
  [][\A c \in Calls :
       LET result == call'[c].result
           asked == IF call[c].phase = "waiting" THEN call[c].asked ELSE now
       IN ~Ended(c) /\ Ended(c)' /\ result.rows /\ result.status # "cached" =>
            asked < result.at + Ttl]_vars

(* A lookup that found rows in the cache, of whatever age, is never sent    *)
(* back with an empty failure, however the refresh it shared with other     *)
(* requests failed ("Stale-on-refresh-fail").                               *)
StaleWins ==
  [][\A c \in Calls :
       call[c].phase = "waiting" /\ call[c].stale.rows /\ Ended(c)' =>
         call'[c].result.status \notin Failing]_vars

(* Only a page that spends its budget takes answers away: whoever gets a    *)
(* CancelledError shares its symbol with a worker of such a page, and that  *)
(* worker goes without an answer too.                                       *)
LossHasCause ==
  \A c \in Calls :
    Ended(c) /\ call[c].result.status = "lost" =>
      \E d \in Calls :
        /\ SymbolOf[d] = SymbolOf[c]
        /\ PageOf[d] # NoPage /\ page[PageOf[d]].cut # NoCut
        /\ call[d].phase = "waiting" \/ call[d].result.status = "lost"

(* A page that reports "ok" has asked for each of its tickers and been      *)
(* answered, but for those a spent budget took away: skipped workers count  *)
(* (get_upcoming_earnings_for_tickers, worst of the statuses).              *)
CompleteOrMarked ==
  \A p \in Pages :
    page[p].phase = "closed" /\ page[p].status \in {"ok", "cached"} =>
      \A c \in Workers(p) : call[c].result.status \in {"ok", "cached", "lost"}

(* Every lookup under way ends and every page closes: no waiter is left     *)
(* behind by a flight that was cancelled, joined late or displaced.         *)
EverythingEnds ==
  /\ \A c \in Calls : (call[c].phase = "waiting") ~> Ended(c)
  /\ \A p \in Pages : (page[p].phase = "open") ~> (page[p].phase = "closed")

(* apps/api/routers/market_events.py: when upstream fails, the routes       *)
(* return HTTP 200 with provider_status populated, "never 500".             *)
NeverRaises ==
  \A c \in Calls : PageOf[c] = NoPage => call[c].result.status # "lost"
===============================================================================
