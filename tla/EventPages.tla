------------------------------ MODULE EventPages ------------------------------
(***************************************************************************)
(* The pages of market events (libs/market_events): the feed of a scope    *)
(* and the detail of a ticker, composed of the earnings calendar with its  *)
(* fallback to lookups by symbol, the news of both providers with its      *)
(* wider retry, and the company profile, each answering or failing alone.  *)
(*                                                                         *)
(* One page after another, all for the same number of days.  What a news   *)
(* or symbol fan-out can come back with is worked out in NewsFeed and      *)
(* ProviderCache; here it is any of those answers.  The FMP key is set and *)
(* the database answers; nothing is left for a section's last except.      *)
(* Rows are well formed, and what matters of an answer is whether it has   *)
(* any.                                                                    *)
(***************************************************************************)
EXTENDS Integers

CONSTANTS
  DaySpans,     \* the days a page may ask for
  WideSpan      \* the 30 days of the news retry

ASSUME PagesAssumption == DaySpans \subseteq Nat \ {0} /\ WideSpan \in Nat

VARIABLES
  days,         \* the span asked for
  cache,        \* of the calendar and of the profile: the entry of the key
  page          \* the page under way

pageVars == <<days, cache, page>>

Sources == {"calendar", "profile"}
None == [status |-> "none", rows |-> FALSE]
NoPage == [scope |-> "none", shown |-> FALSE, calendar |-> None, symbols |-> None,
           earnings |-> None, news |-> None, retried |-> FALSE, profile |-> None]

PagesInit ==
  /\ days \in DaySpans
  /\ cache = [s \in Sources |-> [value |-> None, fresh |-> FALSE]]
  /\ page = NoPage

\* "listed" is a mirror, scanner or ticker scope with tickers; "unlisted" one without:
\* an empty mirror, or scope=ticker at /earnings and /news, which pass no ticker on.
FeedScopes == {"listed", "unlisted", "all_supported"}

OpenPage ==
  /\ page = NoPage \/ page.shown
  /\ \E old \in SUBSET Sources :
       cache' = [s \in Sources |-> [cache[s] EXCEPT !.fresh = cache[s].fresh /\ s \notin old]]
  /\ \E scope \in FeedScopes \cup {"detail"} : page' = [NoPage EXCEPT !.scope = scope]
  /\ UNCHANGED days

UnderWay == page.scope # "none" /\ ~page.shown
Listed == page.scope \in {"listed", "detail"}

-------------------------------------------------------------------------------
(* Earnings: get_earnings_calendar, then the lookups by symbol.            *)

\* A fresh entry is served whatever it says.  Otherwise the fetched value is stored
\* whatever it is, and rows noted before, of whatever age, stand in for a failure.
Lookup(s, fetched, answer) ==
  IF cache[s].fresh THEN answer = cache[s].value /\ UNCHANGED cache
  ELSE /\ cache' = [cache EXCEPT ![s] = [value |-> fetched, fresh |-> TRUE]]
       /\ answer = IF fetched.status = "failed" /\ cache[s].value.rows
                   THEN [status |-> "cached", rows |-> TRUE] ELSE fetched

\* A list, a plan that does not include it, or a failure: "failed" stands for timeout,
\* error and partial (no list), which nothing tells apart here.
CalendarReplies ==
  [status : {"ok"}, rows : BOOLEAN] \cup
  [status : {"failed", "unavailable"}, rows : {FALSE}]
Answers == CalendarReplies \cup [status : {"cached"}, rows : {TRUE}]

\* The filter for the tickers of the scope may leave nothing of the rows.
AskCalendar ==
  /\ UnderWay /\ page.earnings = None
  /\ page.scope = "detail" => page.profile # None
  /\ \E reply \in CalendarReplies, answer \in Answers :
       /\ Lookup("calendar", reply, answer)
       /\ \E left \in IF Listed THEN BOOLEAN ELSE {page.scope = "all_supported"} :
            LET told == [answer EXCEPT !.rows = answer.rows /\ left]
            IN  page' = [page EXCEPT !.calendar = told, !.earnings = told]
  /\ UNCHANGED days

FallsBack ==
  /\ UnderWay /\ Listed /\ page.earnings # None /\ page.symbols = None
  /\ ~page.earnings.rows /\ page.earnings.status \in {"ok", "cached", "unavailable"}

\* The fan-out of a feed has the worst status of its symbols beside whatever rows came.
SymbolReplies ==
  [status : {"ok", "cached"}, rows : BOOLEAN] \cup
  [status : {"failed", "unavailable"},
   rows : IF page.scope = "detail" THEN {FALSE} ELSE BOOLEAN]

SubstituteBug(primary, fallback) ==     \* the rows without their status
  [primary EXCEPT !.rows = fallback.rows]
Substitute(primary, fallback) == IF fallback.rows THEN fallback ELSE primary

AskSymbols ==
  /\ FallsBack
  /\ \E reply \in SymbolReplies :
       page' = [page EXCEPT !.symbols = reply,
                            !.earnings = Substitute(page.earnings, reply)]
  /\ UNCHANGED <<days, cache>>

-------------------------------------------------------------------------------
(* News: get_merged_news, asked again for the wide span by a detail page.  *)

NewsReplies ==
  [status : {"ok", "partial"}, rows : {TRUE}] \cup
  [status : {"unavailable", "rate_limited", "timeout", "empty", "partial"}, rows : {FALSE}]

OmitNews ==
  /\ UnderWay /\ ~Listed /\ page.news = None
  /\ page' = [page EXCEPT !.news = [status |-> "ok", rows |-> FALSE]]
  /\ UNCHANGED <<days, cache>>

AskNews ==
  /\ UnderWay /\ Listed /\ page.news = None
  /\ page.scope = "detail" => page.earnings # None /\ ~FallsBack
  /\ \E reply \in NewsReplies : page' = [page EXCEPT !.news = reply]
  /\ UNCHANGED <<days, cache>>

Widens ==
  /\ UnderWay /\ page.scope = "detail" /\ ~page.retried /\ days < WideSpan
  /\ ~page.news.rows /\ page.news.status \in {"ok", "empty", "partial"}

RetryWide ==
  /\ Widens
  /\ \E reply \in NewsReplies :
       page' = [page EXCEPT !.retried = TRUE,
                            !.news = IF reply.rows THEN reply ELSE page.news]
  /\ UNCHANGED <<days, cache>>

-------------------------------------------------------------------------------
(* The profile of a detail page, and what a page shows and says.           *)

ProfileReplies ==
  [status : {"ok"}, rows : {TRUE}] \cup
  [status : {"failed", "unavailable"}, rows : {FALSE}]

AskProfile ==
  /\ UnderWay /\ page.scope = "detail" /\ page.profile = None
  /\ \E reply \in ProfileReplies, answer \in Answers :
       Lookup("profile", reply, answer) /\ page' = [page EXCEPT !.profile = answer]
  /\ UNCHANGED days

\* The sections of a feed are gathered; a detail page awaits profile, earnings and
\* news in turn.
ShowFeed ==
  /\ UnderWay /\ page.scope \in FeedScopes
  /\ page.earnings # None /\ page.news # None /\ ~FallsBack
  /\ page' = [page EXCEPT !.shown = TRUE]
  /\ UNCHANGED <<days, cache>>

ShowDetail ==
  /\ UnderWay /\ page.scope = "detail" /\ page.news # None /\ ~Widens
  /\ page' = [page EXCEPT !.shown = TRUE]
  /\ UNCHANGED <<days, cache>>

Answered == {"ok", "cached"}

\* any_section_partial of a feed.
AnySectionPartial == page.earnings.status \notin Answered \/ page.news.status \notin Answered

\* empty_state_hints of a detail page.
EarningsHint ==
  IF page.earnings.rows THEN "none"
  ELSE IF page.earnings.status = "unavailable" THEN "not on this plan" ELSE "no upcoming earnings"

NewsHint ==
  IF page.news.rows THEN "none"
  ELSE IF page.news.status \in {"unavailable", "timeout"} THEN page.news.status
  ELSE IF days < WideSpan THEN "none in the wide span either" ELSE "no news"

PagesNext ==
  \/ OpenPage \/ AskCalendar \/ AskSymbols \/ OmitNews \/ AskNews \/ RetryWide
  \/ AskProfile \/ ShowFeed \/ ShowDetail

PagesSpec == PagesInit /\ [][PagesNext]_pageVars

-------------------------------------------------------------------------------
\* What a page leaves unsaid is so.  A feed without the flag any_section_partial shows
\* news if it asked for any; and every lookup of its earnings succeeded, save two: a
\* calendar that is blocked, or failed with nothing to stand in, when the lookups
\* by symbol brought rows and succeeded; and lookups by symbol that failed without
\* a row after a calendar that answered without one, whose "ok" is left standing.
\* A detail page says the plan lacks earnings only if the calendar is blocked
\* and the symbol brought none; that the wide span has no news either it says after
\* it looked, and also when both providers were limited and it did not look.
PagesOwnUp ==
  page.shown =>
    /\ page.scope \in FeedScopes /\ ~AnySectionPartial =>
         /\ page.scope = "listed" => page.news.rows
         /\ page.calendar.status \notin Answered =>
              page.symbols.rows /\ page.symbols.status \in Answered
         /\ page.symbols # None /\ page.symbols.status \notin Answered =>
              /\ page.calendar.status \in Answered
              /\ ~page.calendar.rows /\ ~page.symbols.rows
    /\ page.scope = "detail" =>
         /\ EarningsHint = "not on this plan" =>
              page.calendar.status = "unavailable" /\ ~page.symbols.rows
         /\ NewsHint = "none in the wide span either" =>
              page.retried \/ page.news.status = "rate_limited"
===============================================================================
