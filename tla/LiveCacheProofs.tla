--------------------------- MODULE LiveCacheProofs ---------------------------
(***************************************************************************)
(* What LiveCache guarantees for every set of tabs, endpoints and tasks,   *)
(* every configured TTL, and every number of retries.                      *)
(***************************************************************************)
EXTENDS LiveCache, TLAPS

TaskType == [phase : {"free"} \cup Flying \cup Landed, key : Keys \cup {NoKey},
             began : Nat, tries : Nat, as_of : OptTime]
EntryType == [as_of : OptTime, fetched_at : OptTime, blocked_until : Nat]
AnswerType == [status : {"none", "cached", "fresh", "rate_limited", "error"},
               as_of : OptTime, floor : OptTime]

LEMMA Defaults ==
  /\ NoEntry \in EntryType /\ Free \in TaskType /\ NoAnswer \in AnswerType
  /\ \A f \in OptTime : [NoAnswer EXCEPT !.floor = f] \in AnswerType
  BY DEF NoEntry, Free, NoAnswer, EntryType, TaskType, AnswerType, OptTime,
         Flying, Landed

LEMMA InitType == Init => TypeOK
  BY Defaults DEF Init, TypeOK, EntryType, TaskType, AnswerType, OptTime

\* A task in use has a key.
KeyKnown == \A t \in Tasks : task[t].phase # "free" => task[t].key \in Keys

LEMMA InitKnown == Init => KeyKnown
  BY DEF Init, KeyKnown, Free

LEMMA LaterType == \A s, t \in OptTime : Later(s, t) \in OptTime
  BY DEF Later

LEMMA ServeType ==
  ASSUME TypeOK, KeyKnown, NEW c \in Clients, NEW k \in Keys,
         NEW status \in {"cached", "rate_limited"}, Serve(c, k, status)
  PROVE  TypeOK' /\ KeyKnown'
  <1>1. [status |-> status, as_of |-> cache[k].as_of, floor |-> shown[k]]
          \in AnswerType
    BY DEF TypeOK, AnswerType
  <1>2. Later(shown[k], cache[k].as_of) \in OptTime
    BY LaterType DEF TypeOK
  <1> QED
    BY <1>1, <1>2 DEF Serve, TypeOK, AnswerType, KeyKnown

LEMMA AwaitType ==
  ASSUME TypeOK, NEW c \in Clients, NEW k \in Keys, NEW t \in Tasks,
         Await(c, k, t)
  PROVE  /\ waits' \in [Clients -> Tasks \cup {NoTask}]
         /\ answer' \in [Clients -> AnswerType]
  <1>1. [NoAnswer EXCEPT !.floor = shown[k]] \in AnswerType
    BY Defaults DEF TypeOK
  <1> QED
    BY <1>1 DEF Await, TypeOK, AnswerType

LEMMA LandType ==
  ASSUME TypeOK, KeyKnown, NEW t \in Tasks, NEW phase \in Landed,
         NEW as_of \in OptTime, Land(t, phase, as_of), cache' \in [Keys -> EntryType]
  PROVE  TypeOK' /\ KeyKnown'
  <1>1. task[t].key \in Keys
    BY DEF Land, KeyKnown
  <1>2. [task[t] EXCEPT !.phase = phase, !.as_of = as_of] \in TaskType
    BY DEF TypeOK, TaskType
  <1> QED
    BY <1>1, <1>2 DEF Land, TypeOK, TaskType, EntryType, KeyKnown

LEMMA StepType == TypeOK /\ KeyKnown /\ [Next]_vars => TypeOK' /\ KeyKnown'
  <1> SUFFICES ASSUME TypeOK, KeyKnown, [Next]_vars PROVE TypeOK' /\ KeyKnown'
    OBVIOUS
  <1> USE ConstantsAssumption
  <1>1. ASSUME NEW c \in Clients, NEW k \in Keys,
               ServeCached(c, k) \/ RefuseCall(c, k)
        PROVE  TypeOK' /\ KeyKnown'
    BY <1>1, ServeType DEF ServeCached, RefuseCall
  <1>2. ASSUME NEW c \in Clients, NEW k \in Keys, JoinFlight(c, k)
        PROVE  TypeOK' /\ KeyKnown'
    <2>1. inflight[k] \in Tasks
      BY <1>2 DEF JoinFlight, TypeOK
    <2> QED
      BY <1>2, <2>1, AwaitType
      DEF JoinFlight, Await, TypeOK, AnswerType, KeyKnown
  <1>3. ASSUME NEW c \in Clients, NEW k \in Keys, NEW t \in Tasks, Launch(c, k, t)
        PROVE  TypeOK' /\ KeyKnown'
    <2>1. [Free EXCEPT !.phase = "created", !.key = k] \in TaskType
      BY DEF Free, TaskType, OptTime, Flying
    <2>2. waits' \in [Clients -> Tasks \cup {NoTask}]
          /\ answer' \in [Clients -> AnswerType]
      BY <1>3, AwaitType DEF Launch
    <2> QED
      BY <1>3, <2>1, <2>2
      DEF Launch, Await, TypeOK, AnswerType, TaskType, KeyKnown, Free
  <1>4. ASSUME NEW t \in Tasks, Begin(t) \/ Retry(t) PROVE TypeOK' /\ KeyKnown'
    <2>1. Call(t) /\ task[t].phase # "free"
      BY <1>4 DEF Begin, Retry
    <2>2. [phase |-> "calling", key |-> task[t].key, began |-> now,
           tries |-> task[t].tries + 1, as_of |-> task[t].as_of] \in TaskType
      BY DEF TypeOK, TaskType, Flying
    <2>3. task[t].key \in Keys
      BY <2>1 DEF KeyKnown
    <2> QED
      BY <2>1, <2>2, <2>3 DEF Call, TypeOK, TaskType, KeyKnown, OptTime
  <1>5. ASSUME NEW t \in Tasks, Succeed(t) PROVE TypeOK' /\ KeyKnown'
    <2>1. PICK as_of \in task[t].began .. now, until \in ResetTimes :
            /\ Land(t, "good", as_of)
            /\ cache' = [cache EXCEPT ![task[t].key] =
                 [as_of |-> as_of, fetched_at |-> now, blocked_until |-> until]]
      BY <1>5 DEF Succeed
    <2>2. as_of \in Nat /\ until \in Nat
      BY DEF TypeOK, ResetTimes, Forever
    <2>3. [as_of |-> as_of, fetched_at |-> now, blocked_until |-> until]
            \in EntryType
      BY <2>2 DEF TypeOK, EntryType, OptTime
    <2>4. cache' \in [Keys -> EntryType]
      BY <2>1, <2>3 DEF TypeOK, EntryType
    <2> QED
      BY <2>1, <2>2, <2>4, LandType DEF OptTime, Landed
  <1>6. ASSUME NEW t \in Tasks, Limited(t) \/ Fail(t) PROVE TypeOK' /\ KeyKnown'
    <2>1. PICK phase \in Landed : Land(t, phase, None) /\ cache' = cache
      BY <1>6 DEF Limited, Fail, Landed
    <2>2. cache' \in [Keys -> EntryType]
      BY <2>1 DEF TypeOK, EntryType
    <2> QED
      BY <2>1, <2>2, LandType DEF OptTime
  <1>7. ASSUME NEW t \in Tasks, WakeAll(t) PROVE TypeOK' /\ KeyKnown'
    <2>1. task[t].key \in Keys
      BY <1>7 DEF WakeAll, KeyKnown, Landed
    <2>2. Given(t) \in OptTime
          /\ Status(t) \in {"cached", "fresh", "rate_limited", "error"}
      BY <2>1 DEF Given, Status, TypeOK
    <2>3. answer' \in [Clients -> AnswerType]
      BY <1>7, <2>2 DEF WakeAll, TypeOK, AnswerType
    <2>4. shown' \in [Keys -> OptTime]
      BY <1>7, <2>1, <2>2, LaterType DEF WakeAll, TypeOK
    <2> QED
      BY <1>7, <2>3, <2>4, Defaults
      DEF WakeAll, TypeOK, AnswerType, TaskType, KeyKnown, Free
  <1>8. CASE Restart
    BY <1>8, Defaults
    DEF Restart, TypeOK, AnswerType, TaskType, EntryType, KeyKnown, Free, OptTime
  <1>9. CASE Tick
    BY <1>9 DEF Tick, TypeOK, KeyKnown
  <1>10. CASE UNCHANGED vars
    BY <1>10 DEF vars, TypeOK, KeyKnown
  <1> QED
    BY <1>1, <1>2, <1>3, <1>4, <1>5, <1>6, <1>7, <1>8, <1>9, <1>10 DEF Next

(* Every reachable state of the cache is well typed.                       *)
THEOREM TypeCorrect == Spec => []TypeOK
  <1>1. Init => TypeOK /\ KeyKnown
    BY InitType, InitKnown
  <1>2. TypeOK /\ KeyKnown /\ [Next]_vars => (TypeOK /\ KeyKnown)'
    BY StepType
  <1> QED
    BY <1>1, <1>2, PTL DEF Spec

Typed == TypeOK /\ KeyKnown

-----------------------------------------------------------------------------
(* Single flight, and the calls upstream it allows.                        *)

\* What _inflight names is a task under way for that key.
Registered ==
  \A k \in Keys : inflight[k] # NoTask =>
    task[inflight[k]].phase \in Flying /\ task[inflight[k]].key = k

\* What get_or_fetch tested before it launched a task stays true while the
\* task is under way: nobody else can replace the entry.
LaunchAllowed ==
  \A t \in Tasks :
    LET entry == cache[task[t].key] IN
    task[t].phase \in Flying /\ entry # NoEntry =>
      now - entry.fetched_at >= Floor[task[t].key] /\ now >= entry.blocked_until

FlightInv ==
  Typed /\ Registered /\ SingleFlight /\ LaunchAllowed /\ CallsAllowed

LEMMA InitFlight == Init => FlightInv
  BY InitType, InitKnown
  DEF Init, FlightInv, Typed, Registered, SingleFlight, LaunchAllowed,
      CallsAllowed, Free, Flying

LEMMA EntryTimes ==
  TypeOK => \A k \in Keys : /\ cache[k].fetched_at \in Int
                           /\ cache[k].blocked_until \in Int
                           /\ cache[k].as_of \in Int
  BY DEF TypeOK, OptTime, None

\* Steps that leave tasks, registrations and entries alone.
LEMMA FlightStutter ==
  ASSUME FlightInv, Typed', UNCHANGED <<cache, inflight, task>>, now' >= now
  PROVE  FlightInv'
  <1> USE ConstantsAssumption DEF FlightInv, Typed
  <1>1. Registered' /\ SingleFlight' /\ CallsAllowed'
    BY DEF Registered, SingleFlight, CallsAllowed
  <1>2. ASSUME NEW t \in Tasks, task[t].phase \in Flying,
               cache[task[t].key] # NoEntry
        PROVE  /\ now' - cache[task[t].key].fetched_at >= Floor[task[t].key]
               /\ now' >= cache[task[t].key].blocked_until
    <2>1. task[t].key \in Keys
      BY <1>2 DEF KeyKnown, Flying
    <2>2. /\ cache[task[t].key].fetched_at \in Int
          /\ cache[task[t].key].blocked_until \in Int
          /\ Floor[task[t].key] \in Int /\ now \in Int /\ now' \in Int
      BY <2>1, EntryTimes DEF TypeOK
    <2>3. /\ now - cache[task[t].key].fetched_at >= Floor[task[t].key]
          /\ now >= cache[task[t].key].blocked_until
      BY <1>2 DEF LaunchAllowed
    <2> QED
      BY <2>2, <2>3
  <1>3. LaunchAllowed'
    BY <1>2 DEF LaunchAllowed
  <1> QED
    BY <1>1, <1>3

LEMMA LaunchFlight ==
  ASSUME FlightInv, Typed', NEW c \in Clients, NEW k \in Keys, NEW t \in Tasks,
         Launch(c, k, t)
  PROVE  FlightInv'
  <1> USE ConstantsAssumption DEF FlightInv, Typed
  <1>1. /\ task'[t].phase = "created" /\ task'[t].key = k
        /\ \A u \in Tasks \ {t} : task'[u] = task[u]
    BY DEF Launch, TypeOK, Free
  <1>2. /\ inflight' = [inflight EXCEPT ![k] = t] /\ inflight[k] = NoTask
        /\ task[t].phase = "free" /\ ~Within(k) /\ ~Blocks(k)
        /\ UNCHANGED <<now, cache>>
    BY DEF Launch, Await
  <1>3. \A j \in Keys : inflight[j] # t
    BY <1>2 DEF Registered, Flying
  <1>4. Registered'
    BY <1>1, <1>2, <1>3 DEF Registered, TypeOK, Flying
  <1>5. SingleFlight'
    <2> SUFFICES ASSUME NEW u \in Tasks, task'[u].phase \in Flying
                 PROVE  inflight'[task'[u].key] = u
      BY DEF SingleFlight
    <2>1. CASE u = t
      BY <1>1, <1>2, <2>1 DEF TypeOK
    <2>2. CASE u # t
      <3>1. inflight[task[u].key] = u /\ task[u].key \in Keys
        BY <1>1, <2>2 DEF SingleFlight, KeyKnown, Flying
      <3> QED
        BY <1>1, <1>2, <2>2, <3>1 DEF TypeOK
    <2> QED
      BY <2>1, <2>2
  <1>6. cache[k] # NoEntry =>
          now - cache[k].fetched_at >= Floor[k] /\ now >= cache[k].blocked_until
    <2>1. TTL(k) >= Floor[k] /\ TTL(k) \in Nat
      BY DEF TTL
    <2>2. /\ cache[k].fetched_at \in Int /\ cache[k].blocked_until \in Int
          /\ Floor[k] \in Int /\ now \in Int
      BY EntryTimes DEF TypeOK
    <2> QED
      BY <1>2, <2>1, <2>2 DEF Within, Blocks
  <1>7. LaunchAllowed' /\ CallsAllowed'
    BY <1>1, <1>2, <1>6 DEF LaunchAllowed, CallsAllowed, Flying
  <1> QED
    BY <1>4, <1>5, <1>7

LEMMA CallFlight ==
  ASSUME FlightInv, Typed', NEW t \in Tasks, Call(t), task[t].phase \in Flying
  PROVE  FlightInv'
  <1> USE DEF FlightInv, Typed
  <1>1. /\ task'[t].phase = "calling" /\ task'[t].key = task[t].key
        /\ task'[t].began = now
        /\ \A u \in Tasks \ {t} : task'[u] = task[u]
    BY DEF Call, TypeOK
  <1>2. UNCHANGED <<now, cache, inflight>>
    BY DEF Call
  <1>3. ASSUME NEW u \in Tasks
        PROVE  /\ task'[u].key = task[u].key
               /\ task'[u].phase \in Flying <=> task[u].phase \in Flying
    BY <1>1 DEF Flying
  <1>4. \A k \in Keys : inflight[k] # NoTask => inflight[k] \in Tasks
    BY DEF TypeOK
  <1>5. Registered'
    BY <1>2, <1>3, <1>4 DEF Registered
  <1>6. SingleFlight' /\ LaunchAllowed'
    BY <1>2, <1>3 DEF SingleFlight, LaunchAllowed
  <1>7. CallsAllowed'
    BY <1>1, <1>2 DEF CallsAllowed, LaunchAllowed, Flying
  <1> QED
    BY <1>5, <1>6, <1>7

\* A task that lands was the only one under way for its key, so the entry it
\* may store concerns no other task.
LEMMA LandFlight ==
  ASSUME FlightInv, Typed', NEW t \in Tasks, NEW phase \in Landed, NEW as_of,
         Land(t, phase, as_of),
         \A k \in Keys \ {task[t].key} : cache'[k] = cache[k]
  PROVE  FlightInv'
  <1> USE ConstantsAssumption DEF FlightInv, Typed
  <1>1. /\ task'[t].phase = phase /\ task'[t].key = task[t].key
        /\ \A u \in Tasks \ {t} : task'[u] = task[u]
    BY DEF Land, TypeOK
  <1>2. /\ inflight' = [inflight EXCEPT ![task[t].key] = NoTask]
        /\ now' = now /\ task[t].phase = "calling"
    BY DEF Land
  <1>3. task[t].key \in Keys /\ inflight[task[t].key] = t
    BY <1>2 DEF KeyKnown, SingleFlight, Flying
  <1>4. \A u \in Tasks : task'[u].phase \in Flying =>
          u # t /\ task[u].phase \in Flying /\ task[u].key \in Keys \ {task[t].key}
    BY <1>1, <1>3 DEF SingleFlight, Flying, Landed, KeyKnown
  <1>5. Registered'
    <2> SUFFICES ASSUME NEW k \in Keys, inflight'[k] # NoTask
                 PROVE  /\ task'[inflight'[k]].phase \in Flying
                        /\ task'[inflight'[k]].key = k
      BY DEF Registered
    <2>1. k # task[t].key /\ inflight'[k] = inflight[k]
      BY <1>2, <1>3 DEF TypeOK
    <2>2. inflight[k] \in Tasks /\ task[inflight[k]].key = k
          /\ task[inflight[k]].phase \in Flying
      BY <2>1 DEF TypeOK, Registered
    <2>3. inflight[k] # t
      BY <2>1, <2>2
    <2> QED
      BY <1>1, <2>1, <2>2, <2>3
  <1>6. SingleFlight'
    BY <1>1, <1>2, <1>4 DEF SingleFlight, TypeOK
  <1>7. LaunchAllowed' /\ CallsAllowed'
    BY <1>1, <1>2, <1>4 DEF LaunchAllowed, CallsAllowed, Flying
  <1> QED
    BY <1>5, <1>6, <1>7

LEMMA StepFlight == FlightInv /\ [Next]_vars => FlightInv'
  <1> SUFFICES ASSUME FlightInv, [Next]_vars PROVE FlightInv'
    OBVIOUS
  <1> USE ConstantsAssumption
  <1>t. Typed /\ Typed'
    BY StepType DEF FlightInv, Typed
  <1>1. ASSUME NEW c \in Clients, NEW k \in Keys,
               ServeCached(c, k) \/ RefuseCall(c, k) \/ JoinFlight(c, k)
        PROVE  FlightInv'
    BY <1>1, <1>t, FlightStutter
    DEF ServeCached, RefuseCall, JoinFlight, Serve, Await, Typed, TypeOK
  <1>2. ASSUME NEW c \in Clients, NEW k \in Keys, NEW t \in Tasks, Launch(c, k, t)
        PROVE  FlightInv'
    BY <1>2, <1>t, LaunchFlight
  <1>3. ASSUME NEW t \in Tasks, Begin(t) \/ Retry(t) PROVE FlightInv'
    BY <1>3, <1>t, CallFlight DEF Begin, Retry, Flying
  <1>4. ASSUME NEW t \in Tasks, Succeed(t) PROVE FlightInv'
    <2>1. PICK as_of \in task[t].began .. now, until \in ResetTimes :
            /\ Land(t, "good", as_of)
            /\ cache' = [cache EXCEPT ![task[t].key] =
                 [as_of |-> as_of, fetched_at |-> now, blocked_until |-> until]]
      BY <1>4 DEF Succeed
    <2>2. \A k \in Keys \ {task[t].key} : cache'[k] = cache[k]
      BY <2>1, <1>t DEF Typed, TypeOK
    <2> QED
      BY <1>t, <2>1, <2>2, LandFlight DEF Landed
  <1>5. ASSUME NEW t \in Tasks, Limited(t) \/ Fail(t) PROVE FlightInv'
    BY <1>5, <1>t, LandFlight DEF Limited, Fail, Landed
  <1>6. ASSUME NEW t \in Tasks, WakeAll(t) PROVE FlightInv'
    <2>1. /\ task'[t].phase = "free" /\ task[t].phase \in Landed
          /\ \A u \in Tasks \ {t} : task'[u] = task[u]
          /\ UNCHANGED <<now, cache, inflight>>
      BY <1>6, <1>t DEF WakeAll, Typed, TypeOK, Free
    <2>2. \A u \in Tasks : task'[u].phase \in Flying \/ task[u].phase \in Flying =>
                            task'[u] = task[u]
      BY <2>1 DEF Flying, Landed
    <2>3. \A k \in Keys : inflight[k] # NoTask => inflight[k] \in Tasks
      BY <1>t DEF Typed, TypeOK
    <2>4. Registered'
      BY <2>1, <2>2, <2>3 DEF FlightInv, Registered
    <2>5. SingleFlight' /\ LaunchAllowed'
      BY <2>1, <2>2 DEF FlightInv, SingleFlight, LaunchAllowed
    <2>6. CallsAllowed'
      BY <2>1, <2>2 DEF FlightInv, CallsAllowed, Flying
    <2> QED
      BY <1>t, <2>4, <2>5, <2>6 DEF FlightInv
  <1>7. CASE Restart
    BY <1>7, <1>t
    DEF Restart, FlightInv, Registered, SingleFlight, LaunchAllowed,
        CallsAllowed, Free, Flying
  <1>8. CASE Tick \/ UNCHANGED vars
    BY <1>8, <1>t, FlightStutter DEF Tick, vars, Typed, TypeOK
  <1> QED
    BY <1>1, <1>2, <1>3, <1>4, <1>5, <1>6, <1>7, <1>8 DEF Next

(* However many tabs poll and however fetches end, an endpoint never has   *)
(* two fetches under way.                                                  *)
THEOREM OneFetchPerKey == Spec => []SingleFlight
  <1>1. FlightInv => SingleFlight
    BY DEF FlightInv
  <1> QED
    BY InitFlight, StepFlight, <1>1, PTL DEF Spec

(* Whatever TTL is configured, no call leaves within the floor of the last *)
(* good answer, nor before the reset time that answer announced.           *)
THEOREM CallsSpaced == Spec => []CallsAllowed
  <1>1. FlightInv => CallsAllowed
    BY DEF FlightInv
  <1> QED
    BY InitFlight, StepFlight, <1>1, PTL DEF Spec

-----------------------------------------------------------------------------
(* Results never run backwards.                                            *)

\* Nothing shown or stored describes the future.
PastOnly == \A k \in Keys : shown[k] <= now /\ cache[k].as_of <= now

\* While an entry is stored, nothing newer has been shown.
EntryNewest ==
  \A k \in Keys : cache[k].as_of # None => shown[k] <= cache[k].as_of

\* An attempt upstream began after everything shown or stored for its key was
\* known, and no earlier task of that key still has waiters to serve.
CallNewest ==
  \A t \in Tasks : task[t].phase = "calling" =>
    /\ shown[task[t].key] <= task[t].began
    /\ cache[task[t].key].as_of <= task[t].began
    /\ task[t].began <= now
    /\ \A u \in Tasks : task[u].phase \in Landed => task[u].key # task[t].key

\* A good task's payload is the stored one, or an older one.
GoodStored ==
  \A t \in Tasks : task[t].phase = "good" =>
    /\ task[t].as_of \in Nat
    /\ task[t].as_of <= cache[task[t].key].as_of

\* A waiter waits for a task in use, and a good task can satisfy it.
WaiterServable ==
  \A c \in Clients : waits[c] # NoTask =>
    LET t == waits[c] IN
    /\ task[t].phase # "free" /\ answer[c].as_of = None
    /\ answer[c].floor <= shown[task[t].key]
    /\ task[t].phase = "good" => answer[c].floor <= task[t].as_of

TravelInv ==
  /\ FlightInv
  /\ PastOnly /\ EntryNewest /\ CallNewest /\ GoodStored /\ WaiterServable
  /\ NoTimeTravel

LEMMA InitTravel == Init => TravelInv
  BY InitFlight
  DEF Init, TravelInv, PastOnly, EntryNewest, CallNewest, GoodStored,
      WaiterServable, NoTimeTravel, Free, NoEntry, NoAnswer, None, Landed

LEMMA Numbers ==
  ASSUME TypeOK
  PROVE  /\ now \in Int
         /\ \A k \in Keys : shown[k] \in Int /\ cache[k].as_of \in Int
         /\ \A t \in Tasks : task[t].began \in Int /\ task[t].as_of \in Int
         /\ \A c \in Clients : answer[c].as_of \in Int /\ answer[c].floor \in Int
  BY DEF TypeOK, OptTime, None

LEMMA LaterInt ==
  ASSUME NEW s \in Int, NEW t \in Int
  PROVE  /\ Later(s, t) \in Int /\ Later(s, t) >= s /\ Later(s, t) >= t
         /\ \A x \in Int : s <= x /\ t <= x => Later(s, t) <= x
  BY DEF Later

\* A result straight from the entry.
LEMMA ServeTravel ==
  ASSUME TravelInv, FlightInv', NEW c \in Clients, NEW k \in Keys, NEW status,
         Serve(c, k, status)
  PROVE  TravelInv'
  <1> USE DEF TravelInv
  <1>t. TypeOK /\ TypeOK'
    BY DEF FlightInv, Typed
  <1>n. /\ now \in Int
        /\ \A j \in Keys : shown[j] \in Int /\ cache[j].as_of \in Int
        /\ \A t \in Tasks : task[t].began \in Int /\ task[t].as_of \in Int
        /\ \A d \in Clients : answer[d].as_of \in Int /\ answer[d].floor \in Int
    BY <1>t, Numbers
  <1>1. UNCHANGED <<now, cache, inflight, task, waits>>
    BY DEF Serve
  <1>2. /\ shown'[k] >= shown[k]
        /\ shown'[k] \in {shown[k], cache[k].as_of}
        /\ \A j \in Keys \ {k} : shown'[j] = shown[j]
    BY <1>t, <1>n DEF Serve, TypeOK, Later
  <1>3. /\ answer'[c].as_of = cache[k].as_of /\ answer'[c].floor = shown[k]
        /\ \A d \in Clients \ {c} : answer'[d] = answer[d]
        /\ waits[c] = NoTask
    BY <1>t DEF Serve, TypeOK
  <1>4. PastOnly' /\ EntryNewest'
    BY <1>1, <1>2, <1>n DEF PastOnly, EntryNewest
  <1>5. ASSUME NEW t \in Tasks, task[t].phase = "calling"
        PROVE  shown'[task[t].key] <= task[t].began
    <2>1. /\ shown[task[t].key] <= task[t].began
          /\ cache[task[t].key].as_of <= task[t].began
          /\ task[t].key \in Keys
      BY <1>5 DEF CallNewest, FlightInv, Typed, KeyKnown
    <2> QED
      BY <1>2, <2>1
  <1>6. CallNewest' /\ GoodStored'
    BY <1>1, <1>5 DEF CallNewest, GoodStored
  <1>7. WaiterServable'
    <2> SUFFICES ASSUME NEW d \in Clients, waits[d] # NoTask
                 PROVE  LET t == waits[d] IN
                        /\ task[t].phase # "free" /\ answer'[d].as_of = None
                        /\ answer'[d].floor <= shown'[task[t].key]
                        /\ task[t].phase = "good" =>
                             answer'[d].floor <= task[t].as_of
      BY <1>1 DEF WaiterServable
    <2>1. answer'[d] = answer[d] /\ waits[d] \in Tasks
      BY <1>3, <1>t DEF TypeOK
    <2>2. task[waits[d]].phase # "free" /\ task[waits[d]].key \in Keys
      BY <2>1 DEF WaiterServable, FlightInv, Typed, KeyKnown
    <2>3. shown[task[waits[d]].key] <= shown'[task[waits[d]].key]
      BY <1>2, <1>n, <2>2
    <2>4. shown'[task[waits[d]].key] \in Int
      BY <1>2, <1>n, <2>2
    <2> QED
      BY <1>n, <2>1, <2>2, <2>3, <2>4 DEF WaiterServable
  <1>8. NoTimeTravel'
    BY <1>3, <1>n DEF NoTimeTravel, EntryNewest
  <1> QED
    BY <1>4, <1>6, <1>7, <1>8

\* A request that joins a task under way, or launches one.
LEMMA AwaitTravel ==
  ASSUME TravelInv, FlightInv', NEW c \in Clients, NEW k \in Keys, NEW t \in Tasks,
         Await(c, k, t),
         task'[t].phase \in Flying, task'[t].key = k,
         \A u \in Tasks \ {t} : task'[u] = task[u],
         task'[t] = task[t] \/ (task[t].phase = "free" /\ task'[t].phase = "created")
  PROVE  TravelInv'
  <1> USE ConstantsAssumption DEF TravelInv
  <1>t. TypeOK /\ TypeOK'
    BY DEF FlightInv, Typed
  <1>n. /\ now \in Int
        /\ \A j \in Keys : shown[j] \in Int /\ cache[j].as_of \in Int
    BY <1>t, Numbers
  <1>1. UNCHANGED <<now, cache, shown>>
    BY DEF Await
  <1>2. /\ answer'[c].as_of = None /\ answer'[c].floor = shown[k]
        /\ \A d \in Clients \ {c} : answer'[d] = answer[d]
    BY <1>t DEF Await, TypeOK, NoAnswer
  <1>3. waits'[c] = t /\ \A d \in Clients \ {c} : waits'[d] = waits[d]
    BY <1>t DEF Await, TypeOK
  <1>4. PastOnly' /\ EntryNewest'
    BY <1>1 DEF PastOnly, EntryNewest
  \* The only task that may have changed is neither calling nor landed.
  <1>5. \A u \in Tasks : task'[u].phase \in Landed \cup {"calling"} =>
                           task'[u] = task[u]
    BY DEF Flying, Landed
  <1>6. CallNewest' /\ GoodStored'
    BY <1>1, <1>5 DEF CallNewest, GoodStored, Landed
  <1>7. WaiterServable'
    <2> SUFFICES ASSUME NEW d \in Clients, waits'[d] # NoTask
                 PROVE  LET u == waits'[d] IN
                        /\ task'[u].phase # "free" /\ answer'[d].as_of = None
                        /\ answer'[d].floor <= shown[task'[u].key]
                        /\ task'[u].phase = "good" =>
                             answer'[d].floor <= task'[u].as_of
      BY <1>1 DEF WaiterServable
    <2>1. CASE d = c
      BY <1>2, <1>3, <1>n, <2>1 DEF Flying
    <2>2. CASE d # c
      <3>1. waits'[d] = waits[d] /\ answer'[d] = answer[d] /\ waits[d] \in Tasks
        BY <1>2, <1>3, <1>t, <2>2 DEF TypeOK
      <3>2. task[waits[d]].phase # "free"
        BY <3>1 DEF WaiterServable
      <3>3. task'[waits[d]] = task[waits[d]]
        BY <3>1, <3>2
      <3> QED
        BY <3>1, <3>3 DEF WaiterServable
    <2> QED
      BY <2>1, <2>2
  <1>8. NoTimeTravel'
    BY <1>2 DEF NoTimeTravel
  <1> QED
    BY <1>4, <1>6, <1>7, <1>8

\* An attempt begins now, later than all that is shown or stored.
LEMMA CallTravel ==
  ASSUME TravelInv, FlightInv', NEW t \in Tasks, Call(t), task[t].phase \in Flying,
         \A u \in Tasks : task[u].phase \in Landed => task[u].key # task[t].key
  PROVE  TravelInv'
  <1> USE ConstantsAssumption DEF TravelInv
  <1>t. TypeOK /\ TypeOK' /\ KeyKnown
    BY DEF FlightInv, Typed
  <1>1. UNCHANGED <<now, cache, shown, waits, answer>>
    BY DEF Call
  <1>2. /\ task'[t].phase = "calling" /\ task'[t].began = now
        /\ \A u \in Tasks : task'[u].key = task[u].key
        /\ \A u \in Tasks \ {t} : task'[u] = task[u]
    BY <1>t DEF Call, TypeOK
  <1>3. \A u \in Tasks : task'[u].phase \in Landed => u # t /\ task'[u] = task[u]
    BY <1>2 DEF Landed
  <1>4. PastOnly' /\ EntryNewest' /\ NoTimeTravel'
    BY <1>1 DEF PastOnly, EntryNewest, NoTimeTravel
  <1>5. CallNewest'
    <2> SUFFICES ASSUME NEW u \in Tasks, task'[u].phase = "calling"
                 PROVE  /\ shown[task'[u].key] <= task'[u].began
                        /\ cache[task'[u].key].as_of <= task'[u].began
                        /\ task'[u].began <= now
                        /\ \A v \in Tasks : task'[v].phase \in Landed =>
                                              task'[v].key # task'[u].key
      BY <1>1 DEF CallNewest
    <2>1. CASE u = t
      <3>1. task[t].key \in Keys /\ now \in Int
        BY <1>t DEF KeyKnown, Flying, TypeOK
      <3> QED
        BY <1>2, <1>3, <2>1, <3>1 DEF PastOnly
    <2>2. CASE u # t
      BY <1>2, <1>3, <2>2 DEF CallNewest
    <2> QED
      BY <2>1, <2>2
  <1>6. GoodStored'
    BY <1>1, <1>3 DEF GoodStored, Landed
  <1>7. WaiterServable'
    <2> SUFFICES ASSUME NEW d \in Clients, waits[d] # NoTask
                 PROVE  LET u == waits[d] IN
                        /\ task'[u].phase # "free" /\ answer[d].as_of = None
                        /\ answer[d].floor <= shown[task'[u].key]
                        /\ task'[u].phase = "good" =>
                             answer[d].floor <= task'[u].as_of
      BY <1>1 DEF WaiterServable
    <2>1. waits[d] \in Tasks
      BY <1>t DEF TypeOK
    <2> QED
      BY <1>2, <2>1 DEF WaiterServable
  <1> QED
    BY <1>4, <1>5, <1>6, <1>7

\* A task lands: with a payload newer than all that was shown, or without one.
LEMMA LandTravel ==
  ASSUME TravelInv, FlightInv', NEW t \in Tasks, NEW phase \in Landed, NEW as_of,
         Land(t, phase, as_of),
         \A j \in Keys \ {task[t].key} : cache'[j] = cache[j],
         \/ /\ phase = "good" /\ as_of \in Nat
            /\ task[t].began <= as_of /\ as_of <= now
            /\ cache'[task[t].key].as_of = as_of
         \/ phase # "good" /\ cache' = cache
  PROVE  TravelInv'
  <1> USE ConstantsAssumption DEF TravelInv
  <1>t. TypeOK /\ TypeOK' /\ KeyKnown /\ SingleFlight
    BY DEF FlightInv, Typed
  <1>n. /\ now \in Int
        /\ \A j \in Keys : shown[j] \in Int /\ cache[j].as_of \in Int
        /\ \A u \in Tasks : task[u].began \in Int /\ task[u].as_of \in Int
        /\ \A d \in Clients : answer[d].floor \in Int
    BY <1>t, Numbers
  <1>1. UNCHANGED <<now, shown, waits, answer>> /\ task[t].phase = "calling"
    BY DEF Land
  <1>2. /\ task'[t].phase = phase /\ task'[t].as_of = as_of
        /\ task'[t].key = task[t].key
        /\ \A u \in Tasks \ {t} : task'[u] = task[u]
    BY <1>t DEF Land, TypeOK
  <1>3. /\ task[t].key \in Keys
        /\ shown[task[t].key] <= task[t].began
        /\ cache[task[t].key].as_of <= task[t].began
    BY <1>1, <1>t DEF KeyKnown, CallNewest
  <1>4. PastOnly' /\ EntryNewest'
    <2> SUFFICES ASSUME NEW j \in Keys
                 PROVE  /\ shown[j] <= now /\ cache'[j].as_of <= now
                        /\ cache'[j].as_of # None => shown[j] <= cache'[j].as_of
      BY <1>1 DEF PastOnly, EntryNewest
    <2>1. CASE j = task[t].key
      BY <1>3, <1>n, <2>1 DEF PastOnly, EntryNewest
    <2>2. CASE j # task[t].key
      BY <2>2 DEF PastOnly, EntryNewest
    <2> QED
      BY <2>1, <2>2
  <1>5. CallNewest'
    <2> SUFFICES ASSUME NEW u \in Tasks, task'[u].phase = "calling"
                 PROVE  /\ shown[task'[u].key] <= task'[u].began
                        /\ cache'[task'[u].key].as_of <= task'[u].began
                        /\ task'[u].began <= now
                        /\ \A v \in Tasks : task'[v].phase \in Landed =>
                                              task'[v].key # task'[u].key
      BY <1>1 DEF CallNewest
    <2>1. u # t /\ task'[u] = task[u]
      BY <1>2 DEF Landed
    <2>2. task[u].key # task[t].key /\ task[u].key \in Keys
      BY <1>1, <1>t, <2>1 DEF SingleFlight, Flying, KeyKnown
    <2> QED
      BY <1>2, <2>1, <2>2 DEF CallNewest
  <1>6. GoodStored'
    <2> SUFFICES ASSUME NEW u \in Tasks, task'[u].phase = "good"
                 PROVE  /\ task'[u].as_of \in Nat
                        /\ task'[u].as_of <= cache'[task'[u].key].as_of
      BY DEF GoodStored
    <2>1. CASE u = t
      BY <1>2, <2>1
    <2>2. CASE u # t
      <3>1. task[u].key \in Keys \ {task[t].key}
        BY <1>1, <1>2, <1>t, <2>2 DEF CallNewest, Landed, KeyKnown
      <3> QED
        BY <1>2, <2>2, <3>1 DEF GoodStored
    <2> QED
      BY <2>1, <2>2
  <1>7. WaiterServable'
    <2> SUFFICES ASSUME NEW d \in Clients, waits[d] # NoTask
                 PROVE  LET u == waits[d] IN
                        /\ task'[u].phase # "free" /\ answer[d].as_of = None
                        /\ answer[d].floor <= shown[task'[u].key]
                        /\ task'[u].phase = "good" =>
                             answer[d].floor <= task'[u].as_of
      BY <1>1 DEF WaiterServable
    <2>1. CASE waits[d] = t
      <3>1. answer[d].as_of = None /\ answer[d].floor <= shown[task[t].key]
        BY <2>1 DEF WaiterServable
      <3> QED
        BY <1>2, <1>3, <1>n, <2>1, <3>1 DEF Landed
    <2>2. CASE waits[d] # t
      <3>1. waits[d] \in Tasks
        BY <1>t DEF TypeOK
      <3> QED
        BY <1>2, <2>2, <3>1 DEF WaiterServable
    <2> QED
      BY <2>1, <2>2
  <1>8. NoTimeTravel'
    BY <1>1 DEF NoTimeTravel
  <1> QED
    BY <1>4, <1>5, <1>6, <1>7, <1>8

\* The waiters of a landed task are answered together.
LEMMA WakeTravel ==
  ASSUME TravelInv, FlightInv', NEW t \in Tasks, WakeAll(t)
  PROVE  TravelInv'
  <1> USE ConstantsAssumption DEF TravelInv
  <1> DEFINE k == task[t].key
             given == Given(t)
  <1>t. TypeOK /\ TypeOK' /\ KeyKnown
    BY DEF FlightInv, Typed
  <1>n. /\ now \in Int
        /\ \A j \in Keys : shown[j] \in Int /\ cache[j].as_of \in Int
        /\ \A u \in Tasks : task[u].began \in Int /\ task[u].as_of \in Int
        /\ \A d \in Clients : answer[d].floor \in Int
    BY <1>t, Numbers
  <1>1. UNCHANGED <<now, cache>> /\ task[t].phase \in Landed /\ k \in Keys
    BY <1>t DEF WakeAll, KeyKnown, Landed
  <1>2. task'[t].phase = "free" /\ \A u \in Tasks \ {t} : task'[u] = task[u]
    BY <1>t DEF WakeAll, TypeOK, Free
  <1>3. given \in Int /\ given <= cache[k].as_of
    BY <1>1, <1>n DEF GoodStored, Given
  <1>4. /\ shown'[k] \in Int /\ shown[k] <= shown'[k]
        /\ shown'[k] \in {shown[k], given}
        /\ \A j \in Keys \ {k} : shown'[j] = shown[j]
    <2>1. /\ shown'[k] \in {shown[k], Later(shown[k], given)}
          /\ \A j \in Keys \ {k} : shown'[j] = shown[j]
      <3>1. shown' = [shown EXCEPT ![k] =
                        IF {c \in Clients : waits[c] = t} = {} THEN shown[k]
                        ELSE Later(shown[k], given)]
        BY DEF WakeAll
      <3> QED
        BY <1>1, <1>t, <3>1 DEF TypeOK
    <2> QED
      BY <1>1, <1>3, <1>n, <2>1 DEF Later
  <1>5. ASSUME NEW d \in Clients
        PROVE  IF waits[d] = t
               THEN /\ waits'[d] = NoTask
                    /\ answer'[d].as_of = given
                    /\ answer'[d].floor = answer[d].floor
               ELSE waits'[d] = waits[d] /\ answer'[d] = answer[d]
    <2>1. answer[d] \in AnswerType
      BY <1>t DEF TypeOK, AnswerType
    <2>2. IF waits[d] = t
          THEN /\ waits'[d] = NoTask
               /\ answer'[d] = [answer[d] EXCEPT !.status = Status(t),
                                                !.as_of = Given(t)]
          ELSE waits'[d] = waits[d] /\ answer'[d] = answer[d]
      BY DEF WakeAll
    <2> QED
      BY <2>1, <2>2 DEF AnswerType
  <1>6. PastOnly' /\ EntryNewest'
    <2> SUFFICES ASSUME NEW j \in Keys
                 PROVE  /\ shown'[j] <= now /\ cache[j].as_of <= now
                        /\ cache[j].as_of # None => shown'[j] <= cache[j].as_of
      BY <1>1 DEF PastOnly, EntryNewest
    <2>1. CASE j = k
      BY <1>3, <1>4, <1>n, <2>1 DEF PastOnly, EntryNewest
    <2>2. CASE j # k
      BY <1>4, <2>2 DEF PastOnly, EntryNewest
    <2> QED
      BY <2>1, <2>2
  <1>7. \A u \in Tasks : task'[u].phase # "free" => u # t /\ task'[u] = task[u]
    BY <1>2
  <1>8. CallNewest'
    <2> SUFFICES ASSUME NEW u \in Tasks, task'[u].phase = "calling"
                 PROVE  /\ shown'[task'[u].key] <= task'[u].began
                        /\ cache[task'[u].key].as_of <= task'[u].began
                        /\ task'[u].began <= now
                        /\ \A v \in Tasks : task'[v].phase \in Landed =>
                                              task'[v].key # task'[u].key
      BY <1>1 DEF CallNewest
    <2>1. task'[u] = task[u] /\ task[u].key \in Keys
      BY <1>7, <1>t DEF KeyKnown
    <2>2. task[u].key # k
      BY <1>1, <2>1 DEF CallNewest
    <2>3. \A v \in Tasks : task'[v].phase \in Landed => task'[v] = task[v]
      BY <1>7 DEF Landed
    <2> QED
      BY <1>4, <2>1, <2>2, <2>3 DEF CallNewest
  <1>9. GoodStored'
    BY <1>1, <1>7 DEF GoodStored
  <1>10. WaiterServable'
    <2> SUFFICES ASSUME NEW d \in Clients, waits'[d] # NoTask
                 PROVE  LET u == waits'[d] IN
                        /\ task'[u].phase # "free" /\ answer'[d].as_of = None
                        /\ answer'[d].floor <= shown'[task'[u].key]
                        /\ task'[u].phase = "good" =>
                             answer'[d].floor <= task'[u].as_of
      BY DEF WaiterServable
    <2>1. /\ waits[d] # t /\ waits'[d] = waits[d] /\ answer'[d] = answer[d]
          /\ waits[d] \in Tasks
      BY <1>5, <1>t DEF TypeOK
    <2>2. task'[waits[d]] = task[waits[d]]
      BY <1>2, <2>1
    <2>3. /\ task[waits[d]].phase # "free" /\ answer[d].as_of = None
          /\ answer[d].floor <= shown[task[waits[d]].key]
          /\ task[waits[d]].phase = "good" =>
               answer[d].floor <= task[waits[d]].as_of
      BY <2>1 DEF WaiterServable
    <2>4. task[waits[d]].key \in Keys
      BY <2>1, <2>3, <1>t DEF KeyKnown
    <2>5. answer[d].floor <= shown'[task[waits[d]].key]
      BY <1>4, <1>n, <2>3, <2>4
    <2> QED
      BY <2>1, <2>2, <2>3, <2>5
  <1>11. NoTimeTravel'
    <2> SUFFICES ASSUME NEW d \in Clients, answer'[d].as_of # None
                 PROVE  answer'[d].as_of >= answer'[d].floor
      BY DEF NoTimeTravel
    <2>1. CASE waits[d] = t
      <3>1. /\ answer[d].floor <= shown[k]
            /\ task[t].phase = "good" => answer[d].floor <= task[t].as_of
        BY <2>1, <1>t DEF WaiterServable, TypeOK
      <3>2. answer'[d].floor = answer[d].floor /\ answer'[d].as_of = given
        BY <1>5, <2>1
      <3> QED
        BY <1>1, <1>n, <3>1, <3>2 DEF EntryNewest, Given
    <2>2. CASE waits[d] # t
      BY <1>5, <2>2 DEF NoTimeTravel
    <2> QED
      BY <2>1, <2>2
  <1> QED
    BY <1>6, <1>8, <1>9, <1>10, <1>11

LEMMA StepTravel == TravelInv /\ [Next]_vars => TravelInv'
  <1> SUFFICES ASSUME TravelInv, [Next]_vars PROVE TravelInv'
    OBVIOUS
  <1> USE ConstantsAssumption
  <1>t. FlightInv /\ FlightInv' /\ TypeOK /\ SingleFlight /\ Registered
    BY StepFlight DEF TravelInv, FlightInv, Typed
  <1>1. ASSUME NEW c \in Clients, NEW k \in Keys,
               ServeCached(c, k) \/ RefuseCall(c, k)
        PROVE  TravelInv'
    BY <1>1, <1>t, ServeTravel DEF ServeCached, RefuseCall
  <1>2. ASSUME NEW c \in Clients, NEW k \in Keys, JoinFlight(c, k)
        PROVE  TravelInv'
    <2>1. /\ inflight[k] \in Tasks /\ task' = task
          /\ Await(c, k, inflight[k])
          /\ task[inflight[k]].phase \in Flying /\ task[inflight[k]].key = k
      BY <1>2, <1>t DEF JoinFlight, TypeOK, Registered
    <2> QED
      BY <1>t, <2>1, AwaitTravel
  <1>3. ASSUME NEW c \in Clients, NEW k \in Keys, NEW t \in Tasks, Launch(c, k, t)
        PROVE  TravelInv'
    <2>1. /\ task[t].phase = "free"
          /\ task'[t].phase = "created" /\ task'[t].key = k
          /\ \A u \in Tasks \ {t} : task'[u] = task[u]
          /\ Await(c, k, t)
      BY <1>3, <1>t DEF Launch, TypeOK, Free
    <2> QED
      BY <1>t, <2>1, AwaitTravel DEF Flying
  <1>4. ASSUME NEW t \in Tasks, Begin(t) PROVE TravelInv'
    BY <1>4, <1>t, CallTravel DEF Begin, Flying
  <1>5. ASSUME NEW t \in Tasks, Retry(t) PROVE TravelInv'
    <2>1. \A u \in Tasks : task[u].phase \in Landed => task[u].key # task[t].key
      BY <1>5 DEF Retry, TravelInv, CallNewest
    <2> QED
      BY <1>5, <1>t, <2>1, CallTravel DEF Retry, Flying
  <1>6. ASSUME NEW t \in Tasks, Succeed(t) PROVE TravelInv'
    <2>1. PICK as_of \in task[t].began .. now, until \in ResetTimes :
            /\ Land(t, "good", as_of)
            /\ cache' = [cache EXCEPT ![task[t].key] =
                 [as_of |-> as_of, fetched_at |-> now, blocked_until |-> until]]
      BY <1>6 DEF Succeed
    <2>2. task[t].key \in Keys
      BY <2>1, <1>t DEF Land, FlightInv, Typed, KeyKnown
    <2>3. /\ \A j \in Keys \ {task[t].key} : cache'[j] = cache[j]
          /\ cache'[task[t].key].as_of = as_of
          /\ as_of \in Nat /\ task[t].began <= as_of /\ as_of <= now
      BY <2>1, <2>2, <1>t DEF TypeOK
    <2> QED
      BY <1>t, <2>1, <2>3, LandTravel DEF Landed
  <1>7. ASSUME NEW t \in Tasks, Limited(t) \/ Fail(t) PROVE TravelInv'
    BY <1>7, <1>t, LandTravel DEF Limited, Fail, Landed
  <1>8. ASSUME NEW t \in Tasks, WakeAll(t) PROVE TravelInv'
    BY <1>8, <1>t, WakeTravel
  <1>9. CASE Restart
    <2>1. /\ \A k \in Keys : cache'[k].as_of = None
          /\ \A t \in Tasks : task'[t].phase = "free"
          /\ \A c \in Clients : waits'[c] = NoTask
          /\ UNCHANGED <<now, shown>>
      BY <1>9 DEF Restart, NoEntry, Free
    <2>2. PastOnly' /\ EntryNewest'
      BY <1>t, <2>1 DEF TravelInv, PastOnly, EntryNewest, TypeOK, None
    <2>3. CallNewest' /\ GoodStored' /\ WaiterServable'
      BY <2>1 DEF CallNewest, GoodStored, WaiterServable
    <2>4. NoTimeTravel'
      BY <1>9 DEF Restart, TravelInv, NoTimeTravel, NoAnswer
    <2> QED
      BY <1>t, <2>2, <2>3, <2>4 DEF TravelInv
  <1>10. ASSUME UNCHANGED <<cache, inflight, task, waits, answer, shown>>,
                now' >= now, now' \in Nat
         PROVE  TravelInv'
    <2>1. PastOnly'
      BY <1>10, <1>t, Numbers DEF TravelInv, PastOnly
    <2>2. CallNewest'
      BY <1>10, <1>t, Numbers DEF TravelInv, CallNewest
    <2> QED
      BY <1>10, <1>t, <2>1, <2>2
      DEF TravelInv, EntryNewest, GoodStored, WaiterServable, NoTimeTravel
  <1>11. CASE Tick \/ UNCHANGED vars
    BY <1>10, <1>11, <1>t DEF Tick, vars, TypeOK
  <1> QED
    BY <1>1, <1>2, <1>3, <1>4, <1>5, <1>6, <1>7, <1>8, <1>9, <1>11 DEF Next

(* No tab is ever given a payload older than one any tab had been shown    *)
(* when it asked: across joined fetches, fallbacks after an error or a     *)
(* 429, and restarts of the process.                                       *)
THEOREM ResultsNeverRunBackwards == Spec => []NoTimeTravel
  <1>1. TravelInv => NoTimeTravel
    BY DEF TravelInv
  <1> QED
    BY InitTravel, StepTravel, <1>1, PTL DEF Spec
=============================================================================
