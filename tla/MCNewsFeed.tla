------------------------------- MODULE MCNewsFeed ------------------------------
(* NewsFeed alone, for the run about what "ok" means. *)
EXTENDS NewsFeed

CONSTANTS t, u, n1

OneSite == [a \in {n1} |-> 1]
SameNewsSent == [p \in NewsProviders |-> [s \in {t, u} |-> {n1}]]
===============================================================================
