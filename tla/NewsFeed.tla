------------------------------- MODULE NewsFeed -------------------------------
(***************************************************************************)
(* News of a few tickers from two providers (libs/market_events): each     *)
(* provider's cache and its fan-out over the tickers, the merge of the two *)
(* answers, and what the market brief says of it.                          *)
(*                                                                         *)
(* One request after another; in a fan-out the workers run concurrently,   *)
(* and a row is the ticker asked for with an article, in order of arrival. *)
(* All the articles are of one day.  The keys of both providers are set.   *)
(***************************************************************************)
EXTENDS Integers, FiniteSets, Sequences, SequencesExt

CONSTANTS
  NewsTickers, Articles,
  Site,           \* source_domain of an article
  Sends,          \* per provider and ticker: the articles it may return
  NewsPermits,    \* NEWS_CONCURRENCY
  MaxRequests     \* bound on the requests

NewsProviders == {"fmp", "polygon"}

ASSUME NewsAssumption ==
  /\ DOMAIN Site = Articles
  /\ Sends \in [NewsProviders -> [NewsTickers -> SUBSET Articles]]
  /\ NewsPermits \in Nat \ {0} /\ MaxRequests \in Nat

VARIABLES
  requests,   \* requests begun
  entries,     \* per provider the cache entry of the one key
  fetched,    \* per provider the ProviderResult of the request
  fan         \* per provider the fan-out

newsVars == <<requests, entries, fetched, fan>>

NoNews == [status |-> "none", rows |-> <<>>, stale |-> FALSE, limited |-> FALSE]
NoFan == [worker |-> [t \in NewsTickers |-> "none"], rows |-> <<>>,
          blocked |-> FALSE, limited |-> FALSE]

NewsInit ==
  /\ requests = 0
  /\ entries = [p \in NewsProviders |-> [value |-> NoNews, fresh |-> FALSE]]
  /\ fetched = [p \in NewsProviders |-> NoNews]
  /\ fan = [p \in NewsProviders |-> NoFan]

\* The two share nothing, so the one is taken after the other.
Open(p) ==
  /\ requests > 0 /\ fetched[p].status = "none"
  /\ p = "polygon" => fetched["fmp"].status # "none"
Merged == \A p \in NewsProviders : fetched[p].status # "none"

\* Some entries have outlived their TTL since the last request.
BeginRequest ==
  /\ requests < MaxRequests /\ (requests = 0 \/ Merged)
  /\ requests' = requests + 1
  /\ \E old \in SUBSET NewsProviders :
       entries' = [p \in NewsProviders |->
                    [entries[p] EXCEPT !.fresh = entries[p].fresh /\ p \notin old]]
  /\ fetched' = [p \in NewsProviders |-> NoNews]
  /\ fan' = [p \in NewsProviders |-> NoFan]

-------------------------------------------------------------------------------
(* One provider: get_stock_news, get_polygon_news and their fan-outs.      *)

ServeCached(p) ==
  /\ Open(p) /\ fan[p] = NoFan /\ entries[p].fresh
  /\ fetched' = [fetched EXCEPT ![p] = entries[p].value]
  /\ UNCHANGED <<requests, entries, fan>>

FanOut(p) ==
  /\ Open(p) /\ fan[p] = NoFan /\ ~entries[p].fresh
  /\ fan' = [fan EXCEPT ![p].worker = [t \in NewsTickers |-> "queued"]]
  /\ UNCHANGED <<requests, entries, fetched>>

Barred(p) == fan[p].blocked \/ fan[p].limited

AskProvider(p, t) ==
  /\ Open(p) /\ fan[p].worker[t] = "queued" /\ ~Barred(p)
  /\ Cardinality({u \in NewsTickers : fan[p].worker[u] = "asking"}) < NewsPermits
  /\ fan' = [fan EXCEPT ![p].worker[t] = "asking"]
  /\ UNCHANGED <<requests, entries, fetched>>

SkipBarred(p, t) ==
  /\ Open(p) /\ fan[p].worker[t] = "queued" /\ Barred(p)
  /\ fan' = [fan EXCEPT ![p].worker[t] = "over"]
  /\ UNCHANGED <<requests, entries, fetched>>

\* An article, or none, or a failure that is swallowed: a timeout, an error.
ReturnRows(p, t) ==
  /\ Open(p) /\ fan[p].worker[t] = "asking"
  /\ \E rows \in {<<>>} \cup {<<<<t, a>>>> : a \in Sends[p][t]} :
       fan' = [fan EXCEPT ![p].worker[t] = "over", ![p].rows = fan[p].rows \o rows]
  /\ UNCHANGED <<requests, entries, fetched>>

\* 402 or 404, and 429: the first answer of either kind bars the workers to come.
ReturnBar(p, t) ==
  /\ Open(p) /\ fan[p].worker[t] = "asking"
  /\ \/ fan' = [fan EXCEPT ![p].worker[t] = "over", ![p].blocked = TRUE]
     \/ fan' = [fan EXCEPT ![p].worker[t] = "over", ![p].limited = TRUE]
  /\ UNCHANGED <<requests, entries, fetched>>

\* The section's budget is spent: what has arrived is all there is.
SpendBudget(p) ==
  /\ Open(p) /\ fan[p] # NoFan
  /\ \E t \in NewsTickers : fan[p].worker[t] # "over"
  /\ fan' = [fan EXCEPT ![p].worker = [t \in NewsTickers |-> "over"]]
  /\ UNCHANGED <<requests, entries, fetched>>

Failed == {"timeout", "error", "partial", "rate_limited"}

\* The fetcher's value is stored whatever it is; rows noted before the refresh,
\* of whatever age, stand in for a failure without rows.
StoreNews(p, value) ==
  LET old == entries[p].value
  IN  /\ entries' = [entries EXCEPT ![p] = [value |-> value, fresh |-> TRUE]]
      /\ fetched' = [fetched EXCEPT ![p] =
           IF value.status \in Failed /\ old.rows # <<>>
           THEN [status |-> "cached", rows |-> old.rows, stale |-> TRUE,
                 limited |-> value.status = "rate_limited"]
           ELSE value]
      /\ UNCHANGED <<requests, fan>>

\* The status says what barred the fan-out only when no row came before it.
FanStatus(p) ==
  CASE fan[p].rows # <<>> -> "ok"
    [] fan[p].rows = <<>> /\ fan[p].blocked -> "unavailable"
    [] fan[p].rows = <<>> /\ ~fan[p].blocked /\ fan[p].limited -> "rate_limited"
    [] fan[p].rows = <<>> /\ ~Barred(p) -> "empty"

EndFanOut(p) ==
  /\ Open(p) /\ \A t \in NewsTickers : fan[p].worker[t] = "over"
  /\ StoreNews(p, [NoNews EXCEPT !.status = FanStatus(p), !.rows = fan[p].rows])

\* A fetcher given by the caller fails as a whole.
FetcherFails(p) ==
  /\ Open(p) /\ fan[p] = NoFan /\ ~entries[p].fresh
  /\ \E status \in {"timeout", "error"} : StoreNews(p, [NoNews EXCEPT !.status = status])

NewsNext ==
  \/ BeginRequest
  \/ \E p \in NewsProviders :
       \/ ServeCached(p) \/ FanOut(p) \/ SpendBudget(p) \/ EndFanOut(p) \/ FetcherFails(p)
       \/ \E t \in NewsTickers :
            AskProvider(p, t) \/ SkipBarred(p, t) \/ ReturnRows(p, t) \/ ReturnBar(p, t)

NewsSpec == NewsInit /\ [][NewsNext]_newsVars

-------------------------------------------------------------------------------
(* Both providers: get_merged_news and the brief's section.                *)

\* The keys of two rows meet: the article's URL and title, or the ticker, day and
\* site.
SameNewsBug(x, y) == x[1] = y[1] /\ Site[x[2]] = Site[y[2]]
SameNews(x, y) == x[2] = y[2] \/ (x[1] = y[1] /\ Site[x[2]] = Site[y[2]])

Received == fetched["fmp"].rows \o fetched["polygon"].rows

\* The first of the rows whose keys meet.  A dropped row leaves no key behind.
Keep(kept, row) ==
  IF \E k \in DOMAIN kept : SameNews(kept[k], row) THEN kept ELSE Append(kept, row)
Items == FoldLeft(Keep, <<>>, Received)

Says(status) == \E p \in NewsProviders : fetched[p].status = status
BothSay(statuses) == \A p \in NewsProviders : fetched[p].status \in statuses

MergedStatus ==
  IF Items # <<>> /\ (Says("ok") \/ Says("cached"))
  THEN IF Says("timeout") \/ Says("error") THEN "partial" ELSE "ok"
  ELSE IF BothSay({"unavailable"}) THEN "unavailable"
  ELSE IF BothSay({"rate_limited"}) THEN "rate_limited"
  ELSE IF BothSay({"timeout"}) THEN "timeout"
  ELSE IF BothSay({"unavailable", "rate_limited", "empty"}) THEN "empty"
  ELSE "partial"

SectionStateBug ==      \* a good merge needs no further look
  IF MergedStatus = "ok" THEN "ok"
  ELSE IF Says("rate_limited") THEN "rate_limited_no_cache" ELSE MergedStatus

SectionState ==
  IF Says("rate_limited")
  THEN IF Items # <<>> THEN "rate_limited_cached" ELSE "rate_limited_no_cache"
  ELSE IF Items # <<>> /\ Says("cached")
       THEN IF \E p \in NewsProviders : fetched[p].status = "cached" /\ fetched[p].limited
            THEN "rate_limited_cached" ELSE "cached"
       ELSE MergedStatus

-------------------------------------------------------------------------------
(* Properties.                                                             *)

RateLimited == {"rate_limited_cached", "rate_limited_no_cache"}

\* A limit (429) that left a provider without a row of this request is in the state
\* the brief shows, unless a block of the plan outranks it, and a limit is not
\* made up: the fan-out met one, or the result it left in the cache is served.
\* Items older than the TTL are always called cached, never "ok"; a state of
\* absence stands over no items; and "empty" is said of a provider only when
\* no ticker was blocked or limited.  A limit behind rows of the same provider is not
\* told (OkMeansNoLimit), nor are ticker timeouts and a spent budget.
LimitsAreTold ==
  Merged =>
    /\ \A p \in NewsProviders :
         /\ fan[p].limited /\ ~fan[p].blocked /\ fan[p].rows = <<>> =>
              SectionState \in RateLimited
         /\ fan[p] # NoFan /\ fetched[p].status = "empty" => ~Barred(p)
    /\ SectionState \in RateLimited =>
         \E p \in NewsProviders : fan[p].limited \/ fan[p] = NoFan
    /\ SectionState = "ok" => Items # <<>>
    /\ Items # <<>> /\ (\E p \in NewsProviders : fetched[p].stale) =>
         SectionState \in {"cached", "rate_limited_cached"}
    /\ SectionState \in {"empty", "unavailable", "timeout", "rate_limited_no_cache"} =>
         Items = <<>>

\* The comment on the section's states: "ok" is "data present, no rate-limit anywhere".
OkMeansNoLimit ==
  Merged /\ SectionState = "ok" => \A p \in NewsProviders : ~fan[p].limited

\* An article is shown once, for one ticker, however many tickers and providers it
\* came for; and of one site a ticker shows one article a day.  A row is missing
\* only when its article is shown for some ticker or its site for its own:
\* which ticker of a shared article has news depends on who answered first.
ArticlesOnce ==
  Merged =>
    /\ \A j, k \in DOMAIN Items :
         j # k => Items[j][2] # Items[k][2]
                  /\ (Items[j][1] = Items[k][1] => Site[Items[j][2]] # Site[Items[k][2]])
    /\ \A j \in DOMAIN Received : \E k \in DOMAIN Items :
         \/ Items[k][2] = Received[j][2]
         \/ Items[k][1] = Received[j][1] /\ Site[Items[k][2]] = Site[Received[j][2]]
===============================================================================
