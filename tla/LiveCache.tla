------------------------------ MODULE LiveCache ------------------------------
(***************************************************************************)
(* The live broker cache of one API process                                *)
(* (libs/portfolio/broker_live_cache.py) under the endpoints that use it.  *)
(*                                                                         *)
(* The process runs one asyncio event loop, so what a coroutine does       *)
(* between two awaits is atomic.  get_or_fetch reaches its first real      *)
(* await only when it waits for the fetch task: the TTL test, the rate-    *)
(* limit gate and the join-or-launch under the lock (which is never        *)
(* contended, its body having no await) are one step.  _fetch_and_store    *)
(* awaits only the fetcher, so taking the task out of _inflight and        *)
(* storing the entry are one step.  When a task lands, its waiters are     *)
(* queued together and resume back to back, before any task created in the *)
(* meantime starts.                                                        *)
(*                                                                         *)
(* A payload is represented by the moment the broker's answer describes.   *)
(* An operator whose name ends in Bug is used only by the mutation checks: *)
(* it is a plausible slip in the operator that follows it.                 *)
(***************************************************************************)
EXTENDS Integers, FiniteSets

CONSTANTS
  Clients,      \* browser tabs, each with at most one request in progress
  Keys,         \* endpoints: positions, summary
  Tasks,        \* names for fetch tasks, reused once their waiters are served
  Configured,   \* the TTL the cache is constructed with, per key
  Floor,        \* *_TTL_FLOOR_SECONDS, per key
  NoTask, NoKey,
  MaxTries,     \* stop_after_attempt of the adapter's retry
  MaxTime       \* bound on the clock

ASSUME ConstantsAssumption ==
  /\ NoTask \notin Tasks /\ NoKey \notin Keys
  /\ Configured \in [Keys -> Nat]
  /\ Floor \in [Keys -> Nat]
  /\ MaxTries \in Nat \ {0}
  /\ MaxTime \in Nat

VARIABLES
  now,        \* time.time()
  cache,      \* _cache: per key the last stored entry
  inflight,   \* _inflight: per key the registered task
  task,       \* the fetch tasks
  waits,      \* per client: the task its request awaits
  answer,     \* per client: its last result, beside what it must not predate
  shown       \* per key: the newest payload any client has been given

vars == <<now, cache, inflight, task, waits, answer, shown>>

None == -1
Forever == MaxTime + 1     \* remaining = 0 with no usable reset time

\* blocked_until: until when the rate-limit headers stored beside the payload
\* forbid a call; 0 when they do not.
NoEntry == [as_of |-> None, fetched_at |-> None, blocked_until |-> 0]
Free == [phase |-> "free", key |-> NoKey, began |-> 0, tries |-> 0,
         as_of |-> None]
NoAnswer == [status |-> "none", as_of |-> None, floor |-> None]

Flying == {"created", "calling"}
Landed == {"good", "limited", "failed"}
OptTime == Nat \cup {None}

Init ==
  /\ now = 0
  /\ cache = [k \in Keys |-> NoEntry]
  /\ inflight = [k \in Keys |-> NoTask]
  /\ task = [t \in Tasks |-> Free]
  /\ waits = [c \in Clients |-> NoTask]
  /\ answer = [c \in Clients |-> NoAnswer]
  /\ shown = [k \in Keys |-> None]

-------------------------------------------------------------------------------
(* The tests get_or_fetch makes before it awaits anything.                 *)

TTLBug(k) == Configured[k]      \* the constructor's floor is forgotten

\* __post_init__ raises a TTL below its floor.
TTL(k) == IF Configured[k] < Floor[k] THEN Floor[k] ELSE Configured[k]

Within(k) == cache[k] # NoEntry /\ now - cache[k].fetched_at < TTL(k)

Blocks(k) == cache[k].blocked_until > now

Later(s, t) == IF s > t THEN s ELSE t

\* A result assembled from the entry without waiting.
Serve(c, k, status) ==
  /\ waits[c] = NoTask
  /\ answer' = [answer EXCEPT ![c] =
       [status |-> status, as_of |-> cache[k].as_of, floor |-> shown[k]]]
  /\ shown' = [shown EXCEPT ![k] = Later(@, cache[k].as_of)]
  /\ UNCHANGED <<now, cache, inflight, task, waits>>

ServeCached(c, k) == Within(k) /\ Serve(c, k, "cached")

RefuseCall(c, k) == ~Within(k) /\ Blocks(k) /\ Serve(c, k, "rate_limited")

\* The request will wait for task t.
Await(c, k, t) ==
  /\ waits[c] = NoTask
  /\ ~Within(k) /\ ~Blocks(k)
  /\ waits' = [waits EXCEPT ![c] = t]
  /\ answer' = [answer EXCEPT ![c] = [NoAnswer EXCEPT !.floor = shown[k]]]
  /\ UNCHANGED <<now, cache, shown>>

JoinFlight(c, k) ==
  /\ inflight[k] # NoTask
  /\ Await(c, k, inflight[k])
  /\ UNCHANGED <<inflight, task>>

LaunchBug(c, k, t) ==           \* does not look for a task in flight
  /\ task[t].phase = "free"
  /\ Await(c, k, t)
  /\ task' = [task EXCEPT ![t] = [Free EXCEPT !.phase = "created", !.key = k]]
  /\ inflight' = [inflight EXCEPT ![k] = t]

Launch(c, k, t) ==
  /\ inflight[k] = NoTask
  /\ task[t].phase = "free"
  /\ Await(c, k, t)
  /\ task' = [task EXCEPT ![t] = [Free EXCEPT !.phase = "created", !.key = k]]
  /\ inflight' = [inflight EXCEPT ![k] = t]

-------------------------------------------------------------------------------
(* The fetch task.                                                         *)

\* One request upstream: the first when the task starts, the others when the
\* adapter retries.
Call(t) ==
  /\ task' = [task EXCEPT ![t].phase = "calling", ![t].began = now,
                          ![t].tries = @ + 1]
  /\ UNCHANGED <<now, cache, inflight, waits, answer, shown>>

\* Waiters of an earlier task of this key were queued before this task.
Begin(t) ==
  /\ task[t].phase = "created"
  /\ \A u \in Tasks : task[u].phase \in Landed => task[u].key # task[t].key
  /\ Call(t)

Retry(t) ==
  /\ task[t].phase = "calling"
  /\ task[t].tries < MaxTries
  /\ Call(t)

\* The task is over, one way or the other, and leaves _inflight.
Land(t, phase, as_of) ==
  /\ task[t].phase = "calling"
  /\ task' = [task EXCEPT ![t].phase = phase, ![t].as_of = as_of]
  /\ inflight' = [inflight EXCEPT ![task[t].key] = NoTask]
  /\ UNCHANGED <<now, waits, answer, shown>>

\* What the x-ratelimit headers of a good answer say of the next call:
\* nothing to forbid it, or wait for a reset that has a time or has none.
ResetTimesBug == {None, Forever} \cup now .. MaxTime   \* absent kept as null

ResetTimes == {0, Forever} \cup now .. MaxTime

\* The answer describes some moment between the request and its arrival.
Succeed(t) ==
  \E as_of \in task[t].began .. now, until \in ResetTimes :
    /\ Land(t, "good", as_of)
    /\ cache' = [cache EXCEPT ![task[t].key] =
         [as_of |-> as_of, fetched_at |-> now, blocked_until |-> until]]

\* A 429 is not retried, and its headers are not kept.
Limited(t) == Land(t, "limited", None) /\ UNCHANGED cache

FailBug(t) ==                   \* the failure is not passed on to the waiters
  /\ task[t].phase = "calling"
  /\ task' = [task EXCEPT ![t] = Free]
  /\ inflight' = [inflight EXCEPT ![task[t].key] = NoTask]
  /\ UNCHANGED <<now, waits, answer, shown, cache>>

\* A connection error, a timeout or an error status once the tries are used
\* up; any other exception at once.
Fail(t) == Land(t, "failed", None) /\ UNCHANGED cache

-------------------------------------------------------------------------------
(* The waiters of a landed task resume.                                    *)

\* What the except branches fall back to is the entry as it is on waking.
Given(t) == IF task[t].phase = "good" THEN task[t].as_of
            ELSE cache[task[t].key].as_of

Status(t) == CASE task[t].phase = "good" -> "fresh"
               [] task[t].phase = "limited" -> "rate_limited"
               [] OTHER -> IF cache[task[t].key] = NoEntry THEN "error"
                           ELSE "cached"

WakeAll(t) ==
  /\ task[t].phase \in Landed
  /\ LET woken == {c \in Clients : waits[c] = t} IN
     /\ answer' = [c \in Clients |->
          IF c \in woken
          THEN [answer[c] EXCEPT !.status = Status(t), !.as_of = Given(t)]
          ELSE answer[c]]
     /\ shown' = [shown EXCEPT ![task[t].key] =
                    IF woken = {} THEN @ ELSE Later(@, Given(t))]
     /\ waits' = [c \in Clients |-> IF c \in woken THEN NoTask ELSE waits[c]]
  /\ task' = [task EXCEPT ![t] = Free]
  /\ UNCHANGED <<now, cache, inflight>>

\* A deploy or a crash replaces the process: the cache was in its memory, and
\* its requests end without an answer.
Restart ==
  /\ cache' = [k \in Keys |-> NoEntry]
  /\ inflight' = [k \in Keys |-> NoTask]
  /\ task' = [t \in Tasks |-> Free]
  /\ waits' = [c \in Clients |-> NoTask]
  /\ answer' = [c \in Clients |->
                  IF waits[c] = NoTask THEN answer[c] ELSE NoAnswer]
  /\ UNCHANGED <<now, shown>>

Tick ==
  /\ now < MaxTime
  /\ now' = now + 1
  /\ UNCHANGED <<cache, inflight, task, waits, answer, shown>>

Next ==
  \/ \E c \in Clients, k \in Keys :
       \/ ServeCached(c, k) \/ RefuseCall(c, k) \/ JoinFlight(c, k)
       \/ \E t \in Tasks : Launch(c, k, t)
  \/ \E t \in Tasks : Begin(t) \/ Retry(t) \/ Succeed(t) \/ Limited(t)
                      \/ Fail(t) \/ WakeAll(t)
  \/ Restart
  \/ Tick

\* The event loop runs what is ready, and every attempt ends: httpx gives up
\* after 30 seconds.  Nobody is obliged to poll.
Fairness ==
  \A t \in Tasks :
    /\ WF_vars(Begin(t)) /\ WF_vars(WakeAll(t))
    /\ WF_vars(Succeed(t) \/ Limited(t) \/ Fail(t))

Spec == Init /\ [][Next]_vars /\ Fairness

-------------------------------------------------------------------------------
TypeOK ==
  /\ now \in Nat
  /\ cache \in [Keys -> [as_of : OptTime, fetched_at : OptTime,
                         blocked_until : Nat]]
  /\ inflight \in [Keys -> Tasks \cup {NoTask}]
  /\ task \in [Tasks -> [phase : {"free"} \cup Flying \cup Landed,
                         key : Keys \cup {NoKey}, began : Nat, tries : Nat,
                         as_of : OptTime]]
  /\ waits \in [Clients -> Tasks \cup {NoTask}]
  /\ answer \in [Clients ->
                   [status : {"none", "cached", "fresh", "rate_limited", "error"},
                    as_of : OptTime, floor : OptTime]]
  /\ shown \in [Keys -> OptTime]

(* Single flight: a key never has two fetches under way, and the one it    *)
(* has is the one registered, so every request that comes meanwhile joins  *)
(* it (get_or_fetch step 3, _fetch_and_store's finally).                   *)
SingleFlight ==
  \A t \in Tasks : task[t].phase \in Flying => inflight[task[t].key] = t

(* Upstream is called only when the last successful answer allows it: no   *)
(* request leaves within the floor TTL of that answer, whatever TTL was    *)
(* configured, nor before the reset time it announced.                     *)
CallsAllowed ==
  \A t \in Tasks :
    LET entry == cache[task[t].key] IN
    task[t].phase = "calling" /\ entry # NoEntry =>
      /\ task[t].began - entry.fetched_at >= Floor[task[t].key]
      /\ task[t].began >= entry.blocked_until

(* No tab travels back in time: a result with a payload is never older     *)
(* than what any tab had been shown for that endpoint when the request was *)
(* made, across joins, fallbacks to the last good payload, and restarts.   *)
NoTimeTravel ==
  \A c \in Clients : answer[c].as_of # None => answer[c].as_of >= answer[c].floor

(* Every request is answered (or dies with the process): no waiter is      *)
(* forgotten by a task that fails, is limited, or lands while others join. *)
EveryRequestEnds == \A c \in Clients : (waits[c] # NoTask) ~> (waits[c] = NoTask)
===============================================================================
