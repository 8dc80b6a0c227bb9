---------------------------- MODULE OrderExecution ----------------------------
(***************************************************************************)
(* The controlled-execution pipeline: order intents, order drafts, the     *)
(* approval endpoints and the submit path (libs/execution, the execution   *)
(* router, the OrderIntent and OrderDraft tables).                         *)
(*                                                                         *)
(* FastAPI runs the synchronous endpoints in a thread pool, every request  *)
(* with a database session of its own.  approve, reject and expire-stale   *)
(* first SELECT the rows and test their status, and only later UPDATE and  *)
(* commit; nothing locks the row in between and the UPDATE does not repeat *)
(* the test.  Each is therefore two steps here: a Load that tests the      *)
(* guard on the committed rows, and a Commit that writes whatever the rows *)
(* have become.  A request can die between the two (Abort).                *)
(*                                                                         *)
(* A worker is one request in progress.  A request refused by its guard    *)
(* changes nothing and is not an action.                                   *)
(*                                                                         *)
(* An operator whose name ends in Bug is never used by Spec: it is what a  *)
(* plausible slip would make of the operator that follows it, and the      *)
(* mutation checks put it in that operator's place.                        *)
(***************************************************************************)
EXTENDS Integers, FiniteSets

CONSTANTS
  Intents,        \* ids new_id() may give to order_intent rows
  Drafts,         \* ids new_id() may give to order_draft rows
  Workers,        \* concurrent requests
  Shapes,         \* order parameters a client may post: see OrderShape
  TargetQtys,     \* target_qty a client may post, 0 standing for NULL (or: 0)
  MaxQty,         \* max_qty of pre_submit_risk_check (10000)
  MaxNotional,    \* max_notional of pre_submit_risk_check (1,000,000)
  IntentMaxAge,   \* max_intent_age_hours of pre_submit_risk_check (24)
  ExpireAges,     \* max_age_hours a client may pass to expire-stale (48)
  MaxTime,        \* bound on the clock
  NoIntent        \* intent_id of a draft row that does not exist yet

Null == -1        \* NULL in a price or timestamp column

OrderShape ==
  [order_type : {"limit", "market", "stop"}, qty : Int,
   limit_price : Nat \cup {Null}, stop_price : Nat \cup {Null}]

ASSUME ConstantsAssumption ==
  /\ NoIntent \notin Intents
  /\ Shapes \subseteq OrderShape
  /\ TargetQtys \subseteq Int
  /\ MaxTime \in Nat
  /\ ExpireAges \subseteq Nat
  /\ IntentMaxAge \in Nat /\ MaxQty \in Nat /\ MaxNotional \in Nat

VARIABLES
  intents,   \* the committed order_intent rows
  drafts,    \* the committed order_draft rows
  now,       \* the clock, in units of the ages above
  calls,     \* per worker: the request in progress and the rows it loaded
  report,    \* per draft: the last verdict GET risk-check gave the operator
  attempt,   \* per draft: how the last submit_draft call ended
  revived    \* ghost: drafts a commit brought back from an end since that verdict

vars == <<intents, drafts, now, calls, report, attempt, revived>>

NoShape == [order_type |-> "market", qty |-> 0, limit_price |-> Null,
            stop_price |-> Null]
NoIntentRow == [status |-> "absent", target_qty |-> 0, created_at |-> 0]
NoDraftRow == [status |-> "absent", intent |-> NoIntent, shape |-> NoShape,
               created_at |-> 0, approved_at |-> Null, submitted_at |-> Null]
Idle == [op |-> "idle", ids |-> {}]

DraftStatuses == {"absent", "pending_approval", "approved", "submitted",
                  "rejected", "cancelled"}
Active == {"pending_approval", "approved", "submitted"}
Ended == {"rejected", "cancelled"}
IntentRows == [status : {"absent", "pending", "drafted"}, target_qty : Int,
               created_at : Nat]
DraftRows == [status : DraftStatuses, intent : Intents \cup {NoIntent},
              shape : OrderShape, created_at : Nat,
              approved_at : Nat \cup {Null},
              submitted_at : Nat \cup {Null}]
Calls == [op : {"idle", "approve", "reject", "expire"}, ids : SUBSET Drafts]

Init ==
  /\ intents = [i \in Intents |-> NoIntentRow]
  /\ drafts = [d \in Drafts |-> NoDraftRow]
  /\ now = 0
  /\ calls = [w \in Workers |-> Idle]
  /\ report = [d \in Drafts |-> "none"]
  /\ attempt = [d \in Drafts |-> "none"]
  /\ revived = {}

-------------------------------------------------------------------------------
(* Intents and new drafts.                                                 *)

CreateIntent(i) ==
  /\ intents[i].status = "absent"
  /\ \E q \in TargetQtys :
       intents' = [intents EXCEPT ![i] =
         [status |-> "pending", target_qty |-> q, created_at |-> now]]
  /\ UNCHANGED <<drafts, now, calls, report, attempt, revived>>

\* qty or intent.target_qty or 0
DraftQty(s, i) == IF s.qty # 0 THEN s.qty ELSE intents[i].target_qty

CreateDraftBug(d, i) ==    \* forgets intent.status = "drafted"
  /\ drafts[d].status = "absent"
  /\ intents[i].status # "absent"
  /\ \E s \in Shapes :
       drafts' = [drafts EXCEPT ![d] =
         [NoDraftRow EXCEPT !.status = "pending_approval", !.intent = i,
                            !.shape = s, !.created_at = now]]
  /\ UNCHANGED <<intents, now, calls, report, attempt, revived>>

\* The intent's own status is not tested: an intent may get many drafts.
\* The new row and the intent's status are one transaction.
CreateDraft(d, i) ==
  /\ drafts[d].status = "absent"
  /\ intents[i].status # "absent"
  /\ \E s \in Shapes :
       drafts' = [drafts EXCEPT ![d] =
         [status |-> "pending_approval", intent |-> i,
          shape |-> [s EXCEPT !.qty = DraftQty(s, i)],
          created_at |-> now, approved_at |-> Null, submitted_at |-> Null]]
  /\ intents' = [intents EXCEPT ![i].status = "drafted"]
  /\ UNCHANGED <<now, calls, report, attempt, revived>>

-------------------------------------------------------------------------------
(* The decisions on a draft: load and test, then write and commit.         *)

Load(w, op, ids) ==
  /\ calls[w].op = "idle"
  /\ calls' = [calls EXCEPT ![w] = [op |-> op, ids |-> ids]]
  /\ UNCHANGED <<intents, drafts, now, report, attempt, revived>>

LoadApproveBug(w, d) ==    \* approves rejected drafts too
  /\ drafts[d].status \in {"pending_approval", "rejected"}
  /\ Load(w, "approve", {d})

LoadApprove(w, d) ==
  /\ drafts[d].status = "pending_approval"
  /\ Load(w, "approve", {d})

LoadRejectBug(w, d) ==     \* rejects what has been cancelled
  /\ drafts[d].status \notin {"absent", "submitted"}
  /\ Load(w, "reject", {d})

LoadReject(w, d) ==
  /\ drafts[d].status \in {"pending_approval", "approved"}
  /\ Load(w, "reject", {d})

StaleBug(d, age) ==        \* forgets the status filter
  drafts[d].status # "absent" /\ drafts[d].created_at < now - age

\* created_at < now - max_age_hours
Stale(d, age) ==
  /\ drafts[d].status = "pending_approval"
  /\ drafts[d].created_at < now - age

LoadExpire(w) ==
  \E age \in ExpireAges :
    /\ \E d \in Drafts : Stale(d, age)
    /\ Load(w, "expire", {d \in Drafts : Stale(d, age)})

\* Each UPDATE carries only the columns the handler assigned.
Commit(w, op, Written(_)) ==
  /\ calls[w].op = op
  /\ drafts' = [d \in Drafts |->
                  IF d \in calls[w].ids THEN Written(drafts[d]) ELSE drafts[d]]
  /\ calls' = [calls EXCEPT ![w] = Idle]
  /\ revived' = revived \cup {d \in Drafts : /\ drafts[d].status \in Ended
                                             /\ drafts'[d].status \notin Ended}
  /\ UNCHANGED <<intents, now, report, attempt>>

ApprovedBug(row)  == [row EXCEPT !.status = "approved"]
CancelledBug(row) == [row EXCEPT !.status = "expired"]

Approved(row)  == [row EXCEPT !.status = "approved", !.approved_at = now]
Rejected(row)  == [row EXCEPT !.status = "rejected"]
Cancelled(row) == [row EXCEPT !.status = "cancelled"]

CommitApprove(w) == Commit(w, "approve", Approved)
CommitReject(w)  == Commit(w, "reject", Rejected)
CommitExpire(w)  == Commit(w, "expire", Cancelled)

\* The request or its process dies before the commit: the session's
\* transaction is rolled back.
Abort(w) ==
  /\ calls[w].op # "idle"
  /\ calls' = [calls EXCEPT ![w] = Idle]
  /\ UNCHANGED <<intents, drafts, now, report, attempt, revived>>

-------------------------------------------------------------------------------
(* The seven pre-submit checks, on the committed rows.                     *)

PositiveQuantity(s) == s.qty > 0

\* One check covers limit and stop prices.
PricePresent(s) ==
  /\ s.order_type = "limit" => s.limit_price # Null
  /\ s.order_type = "stop" => s.stop_price # Null

WithinMaxQty(s) == s.qty <= MaxQty

\* limit_price or 0: without a limit price there is nothing to bound.
WithinMaxNotional(s) ==
  s.limit_price \in {Null, 0} \/ s.qty * s.limit_price <= MaxNotional

NoDuplicateBug(d) ==       \* counts only drafts already decided
  \A e \in Drafts \ {d} :
    drafts[e].intent = drafts[d].intent =>
      drafts[e].status \notin {"approved", "submitted"}

NoDuplicate(d) ==
  \A e \in Drafts \ {d} :
    drafts[e].intent = drafts[d].intent => drafts[e].status \notin Active

IntentFresh(d) ==
  /\ drafts[d].intent \in Intents
  /\ now - intents[drafts[d].intent].created_at <= IntentMaxAge

AllPassed(d, isOpen) ==
  LET s == drafts[d].shape IN
  /\ PositiveQuantity(s) /\ PricePresent(s)
  /\ WithinMaxQty(s) /\ WithinMaxNotional(s)
  /\ NoDuplicate(d) /\ IntentFresh(d) /\ isOpen

\* GET /drafts/{id}/risk-check: every status is accepted, nothing is written.
\* The one query on rows that change, the duplicate count, is one statement.
RiskCheck(d) ==
  /\ drafts[d].status # "absent"
  /\ \E isOpen \in BOOLEAN :
       report' = [report EXCEPT ![d] =
                    IF AllPassed(d, isOpen) THEN "pass" ELSE "fail"]
  /\ revived' = revived \ {d}
  /\ UNCHANGED <<intents, drafts, now, calls, attempt>>

ValidApproval(d) ==
  /\ drafts[d].status = "approved"
  /\ drafts[d].approved_at # Null
  /\ drafts[d].shape.qty > 0

\* submit_draft calls pre_submit_risk_check(draft), whose signature is
\* (session, draft, ...): once the approval is validated the call raises
\* TypeError, and neither the broker nor the row is reached.
SubmitDraft(d) ==
  /\ drafts[d].status # "absent"
  /\ attempt' = [attempt EXCEPT ![d] =
                   IF ValidApproval(d) THEN "type_error" ELSE "policy_error"]
  /\ UNCHANGED <<intents, drafts, now, calls, report, revived>>

Tick ==
  /\ now < MaxTime
  /\ now' = now + 1
  /\ UNCHANGED <<intents, drafts, calls, report, attempt, revived>>

Next ==
  \/ \E i \in Intents : CreateIntent(i)
  \/ \E d \in Drafts, i \in Intents : CreateDraft(d, i)
  \/ \E w \in Workers, d \in Drafts : LoadApprove(w, d) \/ LoadReject(w, d)
  \/ \E w \in Workers : LoadExpire(w) \/ CommitApprove(w) \/ CommitReject(w)
                        \/ CommitExpire(w) \/ Abort(w)
  \/ \E d \in Drafts : RiskCheck(d) \/ SubmitDraft(d)
  \/ Tick

Spec == Init /\ [][Next]_vars

-------------------------------------------------------------------------------
TypeOK ==
  /\ intents \in [Intents -> IntentRows]
  /\ drafts \in [Drafts -> DraftRows]
  /\ now \in Nat
  /\ calls \in [Workers -> Calls]
  /\ report \in [Drafts -> {"none", "pass", "fail"}]
  /\ attempt \in [Drafts -> {"none", "policy_error", "type_error"}]
  /\ revived \subseteq Drafts

(* The approval gate's two tests agree: whatever requests overlap, an      *)
(* approved row carries the time of its approval, which is not before its  *)
(* creation, so validate_approval's null test never turns away a draft a   *)
(* person approved (docs/execution_policy.md, "All drafts require human    *)
(* approval").                                                             *)
ApprovedHasTimestamp ==
  \A d \in Drafts :
    drafts[d].status = "approved" =>
      drafts[d].approved_at >= drafts[d].created_at

(* create_draft_from_intent writes two tables in one transaction: an       *)
(* intent reads "drafted" exactly when some draft row points at it, and no *)
(* draft points at an intent that does not exist.                          *)
DraftedIffHasDraft ==
  /\ \A i \in Intents : intents[i].status = "drafted" <=>
                          \E d \in Drafts : drafts[d].intent = i
  /\ \A d \in Drafts : drafts[d].status # "absent" =>
                          drafts[d].intent \in Intents

(* Duplicate-order protection as the operator sees it, whatever requests   *)
(* overlap: two active drafts of one intent that were both reported clean  *)
(* are the work of a late commit that brought one of them back from its    *)
(* end after its verdict (check_duplicate_order looks at the others'       *)
(* statuses when it is asked, and nobody asks again when they change).     *)
OneCleanActiveDraft ==
  \A d, e \in Drafts :
    /\ drafts[d].status \in Active /\ report[d] = "pass"
    /\ drafts[e].status \in Active /\ report[e] = "pass"
    /\ drafts[d].intent = drafts[e].intent
    => d = e \/ d \in revived \/ e \in revived

(* The race can only reach a request already in flight: once an ended      *)
(* draft is held by no request it stays ended and unheld, so no decision   *)
(* that starts after the end can undo it.                                  *)
Settled(d) ==
  /\ drafts[d].status \in Ended
  /\ \A w \in Workers : d \notin calls[w].ids

SettledStaysSettled == [][\A d \in Drafts : Settled(d) => Settled(d)']_vars

\* The status a request in progress is about to write.
Decision == [approve |-> "approved", reject |-> "rejected", expire |-> "cancelled"]

Lifecycle == INSTANCE DraftLifecycle
  WITH status <- [d \in Drafts |-> drafts[d].status],
       open <- [d \in Drafts |-> {Decision[calls[w].op] :
                                    w \in {v \in Workers : d \in calls[v].ids}}]

(* However requests overlap and die, the tables implement the abstract     *)
(* lifecycle: a status is written only by a decision that some request     *)
(* tested against the guard of drafts.py and then kept open.               *)
LifecycleSpec == Lifecycle!Spec

(* approve_draft refuses a draft that is not pending ("cannot approve"):   *)
(* a draft a person has rejected is never approved afterwards.             *)
RejectionIsFinal ==
  [][\A d \in Drafts : drafts[d].status = "rejected" =>
       drafts'[d].status # "approved"]_vars

(* The submit path the policy describes: submitting a draft that is        *)
(* approved and passes all seven checks gets past the checks.              *)
CleanApprovedSubmits ==
  [][\A d \in Drafts :
       attempt'[d] # attempt[d] /\ ValidApproval(d) /\ AllPassed(d, TRUE) =>
         drafts'[d].status = "submitted"]_vars
===============================================================================
