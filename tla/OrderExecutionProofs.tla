------------------------ MODULE OrderExecutionProofs ------------------------
(***************************************************************************)
(* What OrderExecution guarantees for every set of intents, drafts and     *)
(* concurrent requests.                                                    *)
(***************************************************************************)
EXTENDS OrderExecution, TLAPS

-----------------------------------------------------------------------------
(* The shapes of rows the actions build.                                   *)

LEMMA NoIntentFresh == NoIntent \notin Intents
  BY ConstantsAssumption

LEMMA ShapeWithQty ==
  ASSUME NEW s \in OrderShape, NEW q \in Int
  PROVE  [s EXCEPT !.qty = q] \in OrderShape
  BY DEF OrderShape

\* Init is in the type.
LEMMA InitType == Init => TypeOK
  <1> SUFFICES ASSUME Init PROVE TypeOK
    OBVIOUS
  <1>1. NoShape \in OrderShape
    BY DEF NoShape, OrderShape, Null
  <1>2. NoIntentRow \in IntentRows
    BY DEF NoIntentRow, IntentRows
  <1>3. NoDraftRow \in DraftRows
    BY <1>1 DEF NoDraftRow, DraftRows, DraftStatuses, Null
  <1>4. Idle \in Calls
    BY DEF Idle, Calls
  <1> QED
    BY <1>2, <1>3, <1>4 DEF Init, TypeOK

\* A decision's commit rewrites rows without leaving the type.
LEMMA CommitType ==
  ASSUME TypeOK, NEW w \in Workers,
         CommitApprove(w) \/ CommitReject(w) \/ CommitExpire(w)
  PROVE  TypeOK'
  <1>1. Idle \in Calls
    BY DEF Idle, Calls
  <1>2. ASSUME NEW row \in DraftRows
        PROVE  /\ Approved(row) \in DraftRows
               /\ Rejected(row) \in DraftRows
               /\ Cancelled(row) \in DraftRows
    BY <1>2 DEF TypeOK, DraftRows, DraftStatuses, Approved, Rejected, Cancelled
  <1>3. CASE CommitApprove(w)
    BY <1>1, <1>2, <1>3 DEF CommitApprove, Commit, TypeOK
  <1>4. CASE CommitReject(w)
    BY <1>1, <1>2, <1>4 DEF CommitReject, Commit, TypeOK
  <1>5. CASE CommitExpire(w)
    BY <1>1, <1>2, <1>5 DEF CommitExpire, Commit, TypeOK
  <1> QED
    BY <1>3, <1>4, <1>5

\* Every other step, one action at a time.
LEMMA StepType == TypeOK /\ [Next]_vars => TypeOK'
  <1> SUFFICES ASSUME TypeOK, [Next]_vars PROVE TypeOK'
    OBVIOUS
  <1> USE ConstantsAssumption
  <1>1. ASSUME NEW i \in Intents, CreateIntent(i) PROVE TypeOK'
    <2>1. PICK q \in TargetQtys :
            intents' = [intents EXCEPT ![i] =
              [status |-> "pending", target_qty |-> q, created_at |-> now]]
      BY <1>1 DEF CreateIntent
    <2>2. [status |-> "pending", target_qty |-> q, created_at |-> now]
            \in IntentRows
      BY DEF TypeOK, IntentRows
    <2> QED
      BY <1>1, <2>1, <2>2 DEF CreateIntent, TypeOK
  <1>2. ASSUME NEW d \in Drafts, NEW i \in Intents, CreateDraft(d, i)
        PROVE  TypeOK'
    <2>1. PICK s \in Shapes :
            drafts' = [drafts EXCEPT ![d] =
              [status |-> "pending_approval", intent |-> i,
               shape |-> [s EXCEPT !.qty = DraftQty(s, i)],
               created_at |-> now, approved_at |-> Null,
               submitted_at |-> Null]]
      BY <1>2 DEF CreateDraft
    <2>2. DraftQty(s, i) \in Int
      BY DEF DraftQty, TypeOK, IntentRows, OrderShape
    <2>3. [s EXCEPT !.qty = DraftQty(s, i)] \in OrderShape
      BY <2>2, ShapeWithQty
    <2>4. [status |-> "pending_approval", intent |-> i,
           shape |-> [s EXCEPT !.qty = DraftQty(s, i)],
           created_at |-> now, approved_at |-> Null, submitted_at |-> Null]
             \in DraftRows
      BY <2>3 DEF DraftRows, DraftStatuses, TypeOK
    <2>5. intents' \in [Intents -> IntentRows]
      BY <1>2 DEF CreateDraft, TypeOK, IntentRows
    <2> QED
      BY <1>2, <2>1, <2>4, <2>5 DEF CreateDraft, TypeOK
  <1>3. ASSUME NEW w \in Workers, NEW d \in Drafts,
               LoadApprove(w, d) \/ LoadReject(w, d)
        PROVE  TypeOK'
    <2>1. PICK op \in {"approve", "reject"} : Load(w, op, {d})
      BY <1>3 DEF LoadApprove, LoadReject
    <2>2. [op |-> op, ids |-> {d}] \in Calls
      BY DEF Calls
    <2> QED
      BY <2>1, <2>2 DEF Load, TypeOK
  <1>4. ASSUME NEW w \in Workers, LoadExpire(w) PROVE TypeOK'
    <2>1. PICK age \in ExpireAges :
            Load(w, "expire", {d \in Drafts : Stale(d, age)})
      BY <1>4 DEF LoadExpire
    <2>2. {d \in Drafts : Stale(d, age)} \in SUBSET Drafts
      OBVIOUS
    <2> QED
      BY <2>1, <2>2 DEF Load, TypeOK, Calls
  <1>5. ASSUME NEW w \in Workers,
               CommitApprove(w) \/ CommitReject(w) \/ CommitExpire(w)
        PROVE  TypeOK'
    BY <1>5, CommitType
  <1>6. ASSUME NEW w \in Workers, Abort(w) PROVE TypeOK'
    BY <1>6 DEF Abort, TypeOK, Calls, Idle
  <1>7. ASSUME NEW d \in Drafts, RiskCheck(d) PROVE TypeOK'
    <2>1. PICK isOpen \in BOOLEAN :
            report' = [report EXCEPT ![d] =
                         IF AllPassed(d, isOpen) THEN "pass" ELSE "fail"]
      BY <1>7 DEF RiskCheck
    <2> QED
      BY <1>7, <2>1 DEF RiskCheck, TypeOK
  <1>8. ASSUME NEW d \in Drafts, SubmitDraft(d) PROVE TypeOK'
    BY <1>8 DEF SubmitDraft, TypeOK
  <1>9. CASE Tick
    BY <1>9 DEF Tick, TypeOK
  <1>10. CASE UNCHANGED vars
    BY <1>10 DEF vars, TypeOK
  <1> QED
    BY <1>1, <1>2, <1>3, <1>4, <1>5, <1>6, <1>7, <1>8, <1>9, <1>10 DEF Next

(* Every reachable state is well typed, whatever requests overlap and      *)
(* whenever they die: the handlers write only statuses the schema knows.   *)
THEOREM TypeCorrect == Spec => []TypeOK
  <1> QED
    BY InitType, StepType, PTL DEF Spec

-----------------------------------------------------------------------------
(* The approval gate and the intents' status.                              *)

CreatedInPast == \A d \in Drafts : drafts[d].created_at <= now

\* Only rows that exist are loaded, and only they have an intent.
LoadedExist ==
  \A w \in Workers : \A d \in calls[w].ids : drafts[d].status # "absent"
AbsentUnlinked ==
  \A d \in Drafts : drafts[d].status = "absent" <=> drafts[d].intent = NoIntent

\* Approval stamps the clock of its own commit, so the gate needs creation
\* times to be in the past; a commit reaches only rows that exist, so the
\* intents' status needs LoadedExist.
GateInv ==
  /\ TypeOK
  /\ CreatedInPast /\ ApprovedHasTimestamp
  /\ LoadedExist /\ AbsentUnlinked /\ DraftedIffHasDraft

LEMMA InitGate == Init => GateInv
  <1> SUFFICES ASSUME Init PROVE GateInv
    OBVIOUS
  <1> QED
    BY InitType, ConstantsAssumption
    DEF Init, GateInv, CreatedInPast, ApprovedHasTimestamp, LoadedExist,
        AbsentUnlinked, DraftedIffHasDraft, NoDraftRow, NoIntentRow, Idle

\* A commit moves rows that exist to another status that is not "absent",
\* keeps their intent and creation time, and stamps what it approves.
LEMMA CommitGate ==
  ASSUME GateInv, NEW w \in Workers,
         CommitApprove(w) \/ CommitReject(w) \/ CommitExpire(w)
  PROVE  GateInv'
  <1> USE ConstantsAssumption
  <1>1. TypeOK /\ TypeOK'
    BY CommitType DEF GateInv
  <1>2. calls' = [calls EXCEPT ![w] = Idle] /\ UNCHANGED <<intents, now>>
    BY DEF CommitApprove, CommitReject, CommitExpire, Commit
  <1>3. ASSUME NEW d \in Drafts, d \notin calls[w].ids
        PROVE  drafts'[d] = drafts[d]
    BY <1>3 DEF CommitApprove, CommitReject, CommitExpire, Commit
  <1>4. ASSUME NEW d \in Drafts, d \in calls[w].ids
        PROVE  /\ drafts'[d].status \in {"approved", "rejected", "cancelled"}
               /\ drafts'[d].status = "approved" => drafts'[d].approved_at = now
               /\ drafts'[d].intent = drafts[d].intent
               /\ drafts'[d].created_at = drafts[d].created_at
    <2>1. drafts[d] \in DraftRows
      BY <1>1 DEF TypeOK
    <2>2. drafts'[d] \in {Approved(drafts[d]), Rejected(drafts[d]),
                          Cancelled(drafts[d])}
      BY <1>4 DEF CommitApprove, CommitReject, CommitExpire, Commit
    <2> QED
      BY <2>1, <2>2 DEF DraftRows, Approved, Rejected, Cancelled
  <1>5. CreatedInPast' /\ ApprovedHasTimestamp'
    BY <1>1, <1>2, <1>3, <1>4
    DEF GateInv, CreatedInPast, ApprovedHasTimestamp, TypeOK, DraftRows
  <1>6. \A d \in Drafts : /\ drafts'[d].status = "absent" <=>
                              drafts[d].status = "absent"
                          /\ drafts'[d].intent = drafts[d].intent
    BY <1>3, <1>4 DEF GateInv, LoadedExist
  <1>7. LoadedExist'
    BY <1>1, <1>2, <1>6 DEF GateInv, LoadedExist, Idle, TypeOK, Calls
  <1>8. AbsentUnlinked' /\ DraftedIffHasDraft'
    BY <1>2, <1>6 DEF GateInv, AbsentUnlinked, DraftedIffHasDraft
  <1> QED
    BY <1>1, <1>5, <1>7, <1>8 DEF GateInv

LEMMA StepGate == GateInv /\ [Next]_vars => GateInv'
  <1> SUFFICES ASSUME GateInv, [Next]_vars PROVE GateInv'
    OBVIOUS
  <1> USE ConstantsAssumption
  <1>t. TypeOK /\ TypeOK'
    BY StepType DEF GateInv
  <1>1. ASSUME NEW i \in Intents, CreateIntent(i) PROVE GateInv'
    <2>1. PICK q \in TargetQtys :
            intents' = [intents EXCEPT ![i] =
              [status |-> "pending", target_qty |-> q, created_at |-> now]]
      BY <1>1 DEF CreateIntent
    <2>2. ~\E d \in Drafts : drafts[d].intent = i
      <3> SUFFICES ASSUME NEW d \in Drafts, drafts[d].intent = i PROVE FALSE
        OBVIOUS
      <3>1. intents[i].status = "drafted"
        BY DEF GateInv, DraftedIffHasDraft
      <3> QED
        BY <1>1, <3>1 DEF CreateIntent
    <2>3. DraftedIffHasDraft'
      BY <1>1, <1>t, <2>1, <2>2
      DEF CreateIntent, GateInv, DraftedIffHasDraft, TypeOK
    <2> QED
      BY <1>1, <1>t, <2>3
      DEF CreateIntent, GateInv, CreatedInPast, ApprovedHasTimestamp,
          LoadedExist, AbsentUnlinked
  <1>2. ASSUME NEW d \in Drafts, NEW i \in Intents, CreateDraft(d, i)
        PROVE  GateInv'
    <2>1. /\ drafts'[d].status = "pending_approval" /\ drafts'[d].intent = i
          /\ drafts'[d].created_at = now
          /\ \A e \in Drafts \ {d} : drafts'[e] = drafts[e]
      BY <1>2, <1>t DEF CreateDraft, TypeOK
    <2>2. /\ intents'[i].status = "drafted"
          /\ \A j \in Intents \ {i} : intents'[j] = intents[j]
      BY <1>2, <1>t DEF CreateDraft, TypeOK, IntentRows
    <2>3. UNCHANGED <<now, calls>> /\ drafts[d].status = "absent"
      BY <1>2 DEF CreateDraft
    <2>4. drafts[d].intent = NoIntent
      BY <2>3 DEF GateInv, AbsentUnlinked
    <2>5. CreatedInPast' /\ ApprovedHasTimestamp'
      BY <1>t, <2>1, <2>3
      DEF GateInv, CreatedInPast, ApprovedHasTimestamp, TypeOK
    <2>6. LoadedExist' /\ AbsentUnlinked'
      BY <1>t, <2>1, <2>3
      DEF GateInv, LoadedExist, AbsentUnlinked, TypeOK, Calls
    <2>7. \A j \in Intents : intents'[j].status = "drafted" <=>
                             \E e \in Drafts : drafts'[e].intent = j
      BY <2>1, <2>2, <2>4 DEF GateInv, DraftedIffHasDraft
    <2>8. \A e \in Drafts : drafts'[e].status # "absent" =>
                            drafts'[e].intent \in Intents
      BY <2>1 DEF GateInv, DraftedIffHasDraft
    <2> QED
      BY <1>t, <2>5, <2>6, <2>7, <2>8 DEF GateInv, DraftedIffHasDraft
  <1>3. ASSUME NEW w \in Workers, NEW op, NEW ids \in SUBSET Drafts,
               Load(w, op, ids), \A d \in ids : drafts[d].status # "absent"
        PROVE  GateInv'
    <2>1. UNCHANGED <<intents, drafts, now>>
      BY <1>3 DEF Load
    <2>2. \A v \in Workers : calls'[v].ids = IF v = w THEN ids ELSE calls[v].ids
      BY <1>3, <1>t DEF Load, TypeOK, Calls
    <2> QED
      BY <1>3, <1>t, <2>1, <2>2
      DEF GateInv, CreatedInPast, ApprovedHasTimestamp, LoadedExist,
          AbsentUnlinked, DraftedIffHasDraft
  <1>4. ASSUME NEW w \in Workers, NEW d \in Drafts,
               LoadApprove(w, d) \/ LoadReject(w, d)
        PROVE  GateInv'
    BY <1>3, <1>4 DEF LoadApprove, LoadReject
  <1>5. ASSUME NEW w \in Workers, LoadExpire(w) PROVE GateInv'
    <2>1. PICK age \in ExpireAges :
            Load(w, "expire", {d \in Drafts : Stale(d, age)})
      BY <1>5 DEF LoadExpire
    <2>2. \A d \in {e \in Drafts : Stale(e, age)} : drafts[d].status # "absent"
      BY DEF Stale
    <2> QED
      BY <1>3, <2>1, <2>2
  <1>6. ASSUME NEW w \in Workers,
               CommitApprove(w) \/ CommitReject(w) \/ CommitExpire(w)
        PROVE  GateInv'
    BY <1>6, CommitGate
  <1>7. ASSUME NEW w \in Workers, Abort(w) PROVE GateInv'
    <2>1. \A v \in Workers : calls'[v].ids \subseteq calls[v].ids
      BY <1>7, <1>t DEF Abort, TypeOK, Calls, Idle
    <2> QED
      BY <1>7, <1>t, <2>1
      DEF Abort, GateInv, CreatedInPast, ApprovedHasTimestamp, LoadedExist,
          AbsentUnlinked, DraftedIffHasDraft
  <1>8. ASSUME UNCHANGED <<intents, drafts, calls>>, now' >= now PROVE GateInv'
    BY <1>8, <1>t
    DEF GateInv, CreatedInPast, ApprovedHasTimestamp, LoadedExist,
        AbsentUnlinked, DraftedIffHasDraft, TypeOK, DraftRows
  <1>9. ASSUME NEW d \in Drafts, RiskCheck(d) \/ SubmitDraft(d) PROVE GateInv'
    BY <1>8, <1>9, <1>t DEF RiskCheck, SubmitDraft, TypeOK
  <1>10. CASE Tick
    BY <1>8, <1>10, <1>t DEF Tick, TypeOK
  <1>11. CASE UNCHANGED vars
    BY <1>8, <1>11, <1>t DEF vars, TypeOK
  <1> QED
    BY <1>1, <1>2, <1>4, <1>5, <1>6, <1>7, <1>9, <1>10, <1>11 DEF Next

(* Whatever decisions overlap, a row that reads "approved" was stamped, no *)
(* earlier than it was created: the two tests of validate_approval agree.  *)
THEOREM ApprovalGate == Spec => []ApprovedHasTimestamp
  <1>1. GateInv => ApprovedHasTimestamp
    BY DEF GateInv
  <1> QED
    BY InitGate, StepGate, <1>1, PTL DEF Spec

(* An intent reads "drafted" exactly when a draft points at it: the two    *)
(* tables create_draft_from_intent writes never disagree.                  *)
THEOREM DraftedIntents == Spec => []DraftedIffHasDraft
  <1>1. GateInv => DraftedIffHasDraft
    BY DEF GateInv
  <1> QED
    BY InitGate, StepGate, <1>1, PTL DEF Spec

-----------------------------------------------------------------------------
(* A decision that has ended a draft, and that no request in flight can    *)
(* still overwrite, is never undone.                                       *)
THEOREM SettledDecisions == Spec => SettledStaysSettled
  <1>1. TypeOK /\ [Next]_vars => [\A d \in Drafts : Settled(d) => Settled(d)']_vars
    <2> SUFFICES ASSUME TypeOK, [Next]_vars, NEW d \in Drafts, Settled(d)
                 PROVE  Settled(d)'
      OBVIOUS
    <2>1. ASSUME drafts'[d] = drafts[d],
                 \A w \in Workers : d \in calls'[w].ids => d \in calls[w].ids
          PROVE  Settled(d)'
      BY <2>1 DEF Settled
    <2>2. ASSUME NEW w \in Workers, NEW op, NEW ids \in SUBSET Drafts,
                 Load(w, op, ids), d \notin ids
          PROVE  Settled(d)'
      BY <2>1, <2>2 DEF Load, TypeOK, Calls
    <2>3. ASSUME NEW i \in Intents, CreateIntent(i) PROVE Settled(d)'
      BY <2>1, <2>3 DEF CreateIntent
    <2>4. ASSUME NEW e \in Drafts, NEW i \in Intents, CreateDraft(e, i)
          PROVE  Settled(d)'
      <3>1. d # e
        BY <2>4 DEF CreateDraft, Settled, Ended
      <3> QED
        BY <2>1, <2>4, <3>1 DEF CreateDraft, TypeOK
    <2>5. ASSUME NEW w \in Workers, NEW e \in Drafts,
                 LoadApprove(w, e) \/ LoadReject(w, e)
          PROVE  Settled(d)'
      <3>1. d # e
        BY <2>5 DEF LoadApprove, LoadReject, Settled, Ended
      <3> QED
        BY <2>2, <2>5, <3>1 DEF LoadApprove, LoadReject
    <2>6. ASSUME NEW w \in Workers, LoadExpire(w) PROVE Settled(d)'
      <3>1. PICK age \in ExpireAges :
              Load(w, "expire", {e \in Drafts : Stale(e, age)})
        BY <2>6 DEF LoadExpire
      <3>2. d \notin {e \in Drafts : Stale(e, age)}
        BY DEF Settled, Ended, Stale
      <3> QED
        BY <2>2, <3>1, <3>2
    <2>7. ASSUME NEW w \in Workers,
                 CommitApprove(w) \/ CommitReject(w) \/ CommitExpire(w)
          PROVE  Settled(d)'
      <3>1. calls' = [calls EXCEPT ![w] = Idle] /\ d \notin calls[w].ids
        BY <2>7 DEF CommitApprove, CommitReject, CommitExpire, Commit, Settled
      <3>2. drafts'[d] = drafts[d]
        BY <2>7, <3>1 DEF CommitApprove, CommitReject, CommitExpire, Commit
      <3> QED
        BY <2>1, <3>1, <3>2 DEF TypeOK, Calls, Idle
    <2>8. ASSUME NEW w \in Workers, Abort(w) PROVE Settled(d)'
      BY <2>1, <2>8 DEF Abort, TypeOK, Calls, Idle
    <2>9. ASSUME NEW e \in Drafts, RiskCheck(e) \/ SubmitDraft(e)
          PROVE  Settled(d)'
      BY <2>1, <2>9 DEF RiskCheck, SubmitDraft
    <2>10. CASE Tick \/ UNCHANGED vars
      BY <2>1, <2>10 DEF Tick, vars
    <2> QED
      BY <2>3, <2>4, <2>5, <2>6, <2>7, <2>8, <2>9, <2>10 DEF Next
  <1> QED
    BY <1>1, TypeCorrect, PTL DEF Spec, SettledStaysSettled

-----------------------------------------------------------------------------
(* However requests overlap, OrderExecution implements DraftLifecycle.     *)

\* A request at rest holds no rows.
IdleHoldsNothing == \A w \in Workers : calls[w].op = "idle" => calls[w].ids = {}

LEMMA StepIdle ==
  ASSUME TypeOK, IdleHoldsNothing, [Next]_vars
  PROVE  IdleHoldsNothing'
  <1>1. ASSUME calls' = calls PROVE IdleHoldsNothing'
    BY <1>1 DEF IdleHoldsNothing
  <1>2. ASSUME NEW w \in Workers, NEW op, NEW ids, op # "idle", Load(w, op, ids)
        PROVE  IdleHoldsNothing'
    BY <1>2 DEF Load, IdleHoldsNothing, TypeOK
  <1>3. ASSUME NEW w \in Workers, NEW d \in Drafts,
               LoadApprove(w, d) \/ LoadReject(w, d)
        PROVE  IdleHoldsNothing'
    BY <1>2, <1>3 DEF LoadApprove, LoadReject
  <1>4. ASSUME NEW w \in Workers, LoadExpire(w) PROVE IdleHoldsNothing'
    BY <1>2, <1>4 DEF LoadExpire
  <1>5. ASSUME NEW w \in Workers,
               \/ CommitApprove(w) \/ CommitReject(w) \/ CommitExpire(w)
               \/ Abort(w)
        PROVE  IdleHoldsNothing'
    <2>1. calls' = [calls EXCEPT ![w] = Idle]
      BY <1>5 DEF CommitApprove, CommitReject, CommitExpire, Commit, Abort
    <2> QED
      BY <2>1 DEF IdleHoldsNothing, Idle, TypeOK
  <1>6. ASSUME NEW i \in Intents, CreateIntent(i) PROVE IdleHoldsNothing'
    BY <1>1, <1>6 DEF CreateIntent
  <1>7. ASSUME NEW d \in Drafts, NEW i \in Intents, CreateDraft(d, i)
        PROVE  IdleHoldsNothing'
    BY <1>1, <1>7 DEF CreateDraft
  <1>8. ASSUME NEW d \in Drafts, RiskCheck(d) \/ SubmitDraft(d)
        PROVE  IdleHoldsNothing'
    BY <1>1, <1>8 DEF RiskCheck, SubmitDraft
  <1>9. CASE Tick \/ UNCHANGED vars
    BY <1>1, <1>9 DEF Tick, vars
  <1> QED
    BY <1>3, <1>4, <1>5, <1>6, <1>7, <1>8, <1>9 DEF Next

\* The abstract state.
statusOf == [d \in Drafts |-> drafts[d].status]
openOn == [d \in Drafts |-> {Decision[calls[w].op] :
                               w \in {v \in Workers : d \in calls[v].ids}}]

\* A request holds the decision it is about to write open on its rows.
LEMMA HeldIsOpen ==
  ASSUME NEW w \in Workers, NEW d \in Drafts, d \in calls[w].ids
  PROVE  Decision[calls[w].op] \in openOn[d]
  BY DEF openOn

\* A request that takes rows up opens its decision on them.
LEMMA LoadOpens ==
  ASSUME TypeOK, IdleHoldsNothing, NEW w \in Workers, NEW op,
         NEW ids \in SUBSET Drafts, Load(w, op, ids)
  PROVE  openOn' = [d \in Drafts |-> IF d \in ids THEN openOn[d] \cup {Decision[op]}
                                                  ELSE openOn[d]]
  <1>1. /\ calls[w].ids = {}
        /\ \A v \in Workers : calls'[v] = IF v = w THEN [op |-> op, ids |-> ids]
                                                   ELSE calls[v]
    BY DEF Load, TypeOK, IdleHoldsNothing
  <1>2. ASSUME NEW d \in Drafts
        PROVE  openOn'[d] = IF d \in ids THEN openOn[d] \cup {Decision[op]}
                                         ELSE openOn[d]
    BY <1>1 DEF openOn
  <1> QED
    BY <1>2 DEF openOn

\* A request that ends closes its decision on those of its rows on which no
\* other request holds the same decision.
LEMMA EndCloses ==
  ASSUME TypeOK, NEW w \in Workers, calls' = [calls EXCEPT ![w] = Idle]
  PROVE  \E closed \in SUBSET calls[w].ids :
           openOn' = [d \in Drafts |->
                        IF d \in closed THEN openOn[d] \ {Decision[calls[w].op]}
                                        ELSE openOn[d]]
  <1> DEFINE to == Decision[calls[w].op]
             closed == {d \in calls[w].ids :
                          \A v \in Workers \ {w} : d \in calls[v].ids =>
                                                     Decision[calls[v].op] # to}
  <1>1. \A v \in Workers : calls'[v] = IF v = w THEN Idle ELSE calls[v]
    BY DEF TypeOK
  <1>2. ASSUME NEW d \in Drafts
        PROVE  openOn'[d] = IF d \in closed THEN openOn[d] \ {to} ELSE openOn[d]
    <2>1. openOn'[d] = {Decision[calls[v].op] :
                          v \in {u \in Workers \ {w} : d \in calls[u].ids}}
      BY <1>1 DEF openOn, Idle
    <2>2. openOn[d] = {Decision[calls[v].op] :
                         v \in {u \in Workers : d \in calls[u].ids}}
      BY DEF openOn
    <2>3. CASE d \notin calls[w].ids
      BY <2>1, <2>2, <2>3
    <2>4. CASE d \in closed
      BY <2>1, <2>2, <2>4
    <2>5. CASE d \in calls[w].ids /\ d \notin closed
      BY <2>1, <2>2, <2>5
    <2> QED
      BY <2>3, <2>4, <2>5
  <1>3. closed \in SUBSET calls[w].ids
    OBVIOUS
  <1>4. openOn' = [d \in Drafts |-> IF d \in closed THEN openOn[d] \ {to}
                                                    ELSE openOn[d]]
    BY <1>2 DEF openOn
  <1> QED
    BY <1>3, <1>4

LifecycleInv == TypeOK /\ IdleHoldsNothing

LEMMA StepImplements ==
  ASSUME LifecycleInv, [Next]_vars
  PROVE  Lifecycle!Next \/ UNCHANGED <<statusOf, openOn>>
  <1>t. TypeOK /\ IdleHoldsNothing
    BY DEF LifecycleInv
  <1>d. DOMAIN Lifecycle!From = {"approved", "rejected", "cancelled"}
    BY DEF Lifecycle!From
  <1>a. ASSUME NEW D \in SUBSET Drafts, NEW to \in DOMAIN Lifecycle!From,
               \/ Lifecycle!Consider(D, to) \/ Lifecycle!Land(D, to)
               \/ Lifecycle!Drop(D, to)
        PROVE  Lifecycle!Next
    BY <1>a DEF Lifecycle!Next
  <1>1. ASSUME UNCHANGED <<drafts, calls>> PROVE UNCHANGED <<statusOf, openOn>>
    BY <1>1 DEF statusOf, openOn
  <1>2. ASSUME NEW d \in Drafts, NEW i \in Intents, CreateDraft(d, i)
        PROVE  Lifecycle!Create(d)
    <2>1. /\ drafts[d].status = "absent"
          /\ drafts'[d].status = "pending_approval"
          /\ \A e \in Drafts \ {d} : drafts'[e] = drafts[e]
      BY <1>2, <1>t DEF CreateDraft, TypeOK
    <2>2. calls' = calls
      BY <1>2 DEF CreateDraft
    <2> QED
      BY <2>1, <2>2 DEF Lifecycle!Create
  <1>3. ASSUME NEW w \in Workers, NEW op, NEW ids \in SUBSET Drafts, NEW to,
               Load(w, op, ids), Decision[op] = to,
               \A d \in ids : drafts[d].status \in Lifecycle!From[to]
        PROVE  Lifecycle!Consider(ids, to)
    <2>1. drafts' = drafts
      BY <1>3 DEF Load
    <2>2. openOn' = [d \in Drafts |-> IF d \in ids THEN openOn[d] \cup {to}
                                                   ELSE openOn[d]]
      BY <1>3, <1>t, LoadOpens
    <2> QED
      BY <1>3, <2>1, <2>2 DEF Lifecycle!Consider, openOn
  <1>4. ASSUME NEW w \in Workers, NEW d \in Drafts, LoadApprove(w, d)
        PROVE  Lifecycle!Consider({d}, "approved")
    BY <1>3, <1>4 DEF LoadApprove, Lifecycle!From, Decision
  <1>5. ASSUME NEW w \in Workers, NEW d \in Drafts, LoadReject(w, d)
        PROVE  Lifecycle!Consider({d}, "rejected")
    BY <1>3, <1>5 DEF LoadReject, Lifecycle!From, Decision
  <1>6. ASSUME NEW w \in Workers, LoadExpire(w) PROVE Lifecycle!Next
    <2>1. PICK age \in ExpireAges :
            Load(w, "expire", {d \in Drafts : Stale(d, age)})
      BY <1>6 DEF LoadExpire
    <2>2. PICK ids \in SUBSET Drafts : ids = {d \in Drafts : Stale(d, age)}
      OBVIOUS
    <2>3. Load(w, "expire", ids)
      BY <2>1, <2>2 DEF Load
    <2>4. \A d \in ids : drafts[d].status \in Lifecycle!From["cancelled"]
      BY <2>2 DEF Stale, Lifecycle!From
    <2>5. Decision["expire"] = "cancelled"
      BY DEF Decision
    <2>6. Lifecycle!Consider(ids, "cancelled")
      BY <1>3, <2>3, <2>4, <2>5
    <2> QED
      BY <1>a, <1>d, <2>6
  \* Arguments of an action of the instance are constants, so the rows and the
  \* decision of a request get a name of their own before they are passed to it.
  <1>7. ASSUME NEW w \in Workers, calls[w].op # "idle"
        PROVE  \E ids \in SUBSET Drafts, to \in DOMAIN Lifecycle!From :
                 ids = calls[w].ids /\ to = Decision[calls[w].op]
    <2>1. calls[w] \in Calls
      BY <1>t DEF TypeOK
    <2>2. calls[w].ids \in SUBSET Drafts /\ Decision[calls[w].op] \in DOMAIN Lifecycle!From
      BY <1>d, <1>7, <2>1 DEF Calls, Decision
    <2> QED
      BY <2>2
  <1>8. ASSUME NEW w \in Workers,
               CommitApprove(w) \/ CommitReject(w) \/ CommitExpire(w)
        PROVE  Lifecycle!Next
    <2>1. calls[w].op # "idle" /\ calls' = [calls EXCEPT ![w] = Idle]
      BY <1>8 DEF CommitApprove, CommitReject, CommitExpire, Commit
    <2>2. PICK ids \in SUBSET Drafts, to \in DOMAIN Lifecycle!From :
            ids = calls[w].ids /\ to = Decision[calls[w].op]
      BY <1>7, <2>1
    <2>3. ASSUME NEW row \in DraftRows
          PROVE  /\ Approved(row).status = "approved"
                 /\ Rejected(row).status = "rejected"
                 /\ Cancelled(row).status = "cancelled"
      BY DEF DraftRows, Approved, Rejected, Cancelled
    <2>4. \A d \in Drafts : drafts[d] \in DraftRows
      BY <1>t DEF TypeOK
    <2> DEFINE Written == \A d \in Drafts : drafts'[d].status =
                             IF d \in ids THEN to ELSE drafts[d].status
    <2>5. ASSUME CommitApprove(w) PROVE Written
      <3>1. to = "approved"
        BY <2>2, <2>5 DEF CommitApprove, Commit, Decision
      <3> QED
        BY <2>2, <2>3, <2>4, <2>5, <3>1 DEF CommitApprove, Commit
    <2>6. ASSUME CommitReject(w) PROVE Written
      <3>1. to = "rejected"
        BY <2>2, <2>6 DEF CommitReject, Commit, Decision
      <3> QED
        BY <2>2, <2>3, <2>4, <2>6, <3>1 DEF CommitReject, Commit
    <2>7. ASSUME CommitExpire(w) PROVE Written
      <3>1. to = "cancelled"
        BY <2>2, <2>7 DEF CommitExpire, Commit, Decision
      <3> QED
        BY <2>2, <2>3, <2>4, <2>7, <3>1 DEF CommitExpire, Commit
    <2>8. \A d \in ids : to \in openOn[d]
      BY <2>2, HeldIsOpen
    <2>9. PICK closed \in SUBSET ids :
            openOn' = [d \in Drafts |-> IF d \in closed THEN openOn[d] \ {to}
                                                        ELSE openOn[d]]
      <3>1. \E closed \in SUBSET calls[w].ids :
              openOn' = [d \in Drafts |->
                           IF d \in closed THEN openOn[d] \ {Decision[calls[w].op]}
                                           ELSE openOn[d]]
        BY <1>t, <2>1, EndCloses
      <3> QED
        BY <2>2, <3>1
    <2>10. Lifecycle!Close(closed, to)
      BY <2>9 DEF Lifecycle!Close, openOn
    <2>11. Lifecycle!Land(ids, to)
      <3>1. Written
        BY <1>8, <2>5, <2>6, <2>7
      <3> QED
        BY <2>8, <2>10, <3>1 DEF Lifecycle!Land, openOn
    <2> QED
      BY <1>a, <2>11
  <1>9. ASSUME NEW w \in Workers, Abort(w) PROVE Lifecycle!Next
    <2>1. /\ calls[w].op # "idle" /\ calls' = [calls EXCEPT ![w] = Idle]
          /\ drafts' = drafts
      BY <1>9 DEF Abort
    <2>2. PICK ids \in SUBSET Drafts, to \in DOMAIN Lifecycle!From :
            ids = calls[w].ids /\ to = Decision[calls[w].op]
      BY <1>7, <2>1
    <2>3. PICK closed \in SUBSET ids :
            openOn' = [d \in Drafts |-> IF d \in closed THEN openOn[d] \ {to}
                                                        ELSE openOn[d]]
      <3>1. \E closed \in SUBSET calls[w].ids :
              openOn' = [d \in Drafts |->
                           IF d \in closed THEN openOn[d] \ {Decision[calls[w].op]}
                                           ELSE openOn[d]]
        BY <1>t, <2>1, EndCloses
      <3> QED
        BY <2>2, <3>1
    <2>4. Lifecycle!Drop(closed, to)
      BY <2>1, <2>3 DEF Lifecycle!Drop, Lifecycle!Close, openOn
    <2>5. closed \in SUBSET Drafts
      OBVIOUS
    <2> QED
      BY <1>a, <2>4, <2>5
  <1>10. ASSUME NEW d \in Drafts, RiskCheck(d) \/ SubmitDraft(d)
         PROVE  UNCHANGED <<statusOf, openOn>>
    BY <1>1, <1>10 DEF RiskCheck, SubmitDraft
  <1>11. ASSUME NEW i \in Intents, CreateIntent(i)
         PROVE  UNCHANGED <<statusOf, openOn>>
    BY <1>1, <1>11 DEF CreateIntent
  <1>12. CASE Tick \/ UNCHANGED vars
    BY <1>1, <1>12 DEF Tick, vars
  <1>13. ASSUME NEW d \in Drafts, Lifecycle!Create(d) PROVE Lifecycle!Next
    BY <1>13 DEF Lifecycle!Next
  <1>14. ASSUME NEW w \in Workers, NEW d \in Drafts,
                LoadApprove(w, d) \/ LoadReject(w, d)
         PROVE  Lifecycle!Next
    <2>1. Lifecycle!Consider({d}, "approved") \/ Lifecycle!Consider({d}, "rejected")
      BY <1>4, <1>5, <1>14
    <2>2. {d} \in SUBSET Drafts
      OBVIOUS
    <2> QED
      BY <1>a, <1>d, <2>1, <2>2
  <1> QED
    BY <1>1, <1>2, <1>6, <1>8, <1>9, <1>10, <1>11, <1>12, <1>13, <1>14 DEF Next

(* Whatever requests overlap and die, a draft's status is written only by  *)
(* a decision that was tested against the guards of drafts.py and has been *)
(* open since: the tables implement DraftLifecycle.                        *)
THEOREM TablesImplementLifecycle == Spec => LifecycleSpec
  <1>1. Init => LifecycleInv
    BY InitType DEF LifecycleInv, IdleHoldsNothing, Init, Idle
  <1>2. LifecycleInv /\ [Next]_vars => LifecycleInv'
    BY StepType, StepIdle DEF LifecycleInv
  <1>3. Init => Lifecycle!Init
    BY DEF Init, Lifecycle!Init, NoDraftRow, Idle
  <1>4. LifecycleInv /\ [Next]_vars => [Lifecycle!Next]_<<statusOf, openOn>>
    BY StepImplements
  <1> QED
    BY <1>1, <1>2, <1>3, <1>4, PTL
    DEF Spec, LifecycleSpec, Lifecycle!Spec, Lifecycle!lifecycle, statusOf, openOn

-----------------------------------------------------------------------------
(* Duplicate protection.                                                   *)

\* A draft is reported on only once it exists.
AbsentUnreported ==
  \A d \in Drafts : drafts[d].status = "absent" => report[d] = "none"

CleanInv == GateInv /\ AbsentUnreported /\ OneCleanActiveDraft

LEMMA InitClean == Init => CleanInv
  BY InitGate DEF Init, CleanInv, AbsentUnreported, OneCleanActiveDraft

LEMMA StepClean == CleanInv /\ [Next]_vars => CleanInv'
  <1> SUFFICES ASSUME CleanInv, [Next]_vars PROVE CleanInv'
    OBVIOUS
  <1>t. TypeOK /\ GateInv'
    BY StepGate DEF CleanInv, GateInv
  \* A step that reports nothing adds no clean active draft, except one it
  \* brings back and marks.
  <1>1. ASSUME report' = report, revived \subseteq revived',
               \A d \in Drafts :
                 /\ drafts'[d].intent = drafts[d].intent
                 /\ drafts'[d].status \in Active =>
                      drafts[d].status \in Active \/ d \in revived'
                 /\ drafts'[d].status = "absent" <=> drafts[d].status = "absent"
        PROVE  CleanInv'
    BY <1>1, <1>t DEF CleanInv, AbsentUnreported, OneCleanActiveDraft
  <1>2. ASSUME UNCHANGED <<drafts, report, revived>> PROVE CleanInv'
    BY <1>1, <1>2
  <1>3. ASSUME NEW i \in Intents, CreateIntent(i) PROVE CleanInv'
    BY <1>2, <1>3 DEF CreateIntent
  <1>4. ASSUME NEW d \in Drafts, NEW i \in Intents, CreateDraft(d, i)
        PROVE  CleanInv'
    <2>1. /\ drafts'[d].status = "pending_approval"
          /\ \A e \in Drafts \ {d} : drafts'[e] = drafts[e]
      BY <1>4, <1>t DEF CreateDraft, TypeOK
    <2>2. UNCHANGED <<report, revived>> /\ report[d] = "none"
      BY <1>4 DEF CreateDraft, CleanInv, AbsentUnreported
    <2> QED
      BY <1>t, <2>1, <2>2 DEF CleanInv, AbsentUnreported, OneCleanActiveDraft
  <1>5. ASSUME NEW w \in Workers, NEW d \in Drafts,
               LoadApprove(w, d) \/ LoadReject(w, d)
        PROVE  CleanInv'
    BY <1>2, <1>5 DEF LoadApprove, LoadReject, Load
  <1>6. ASSUME NEW w \in Workers, LoadExpire(w) \/ Abort(w) PROVE CleanInv'
    BY <1>2, <1>6 DEF LoadExpire, Load, Abort
  <1>7. ASSUME NEW w \in Workers,
               CommitApprove(w) \/ CommitReject(w) \/ CommitExpire(w)
        PROVE  CleanInv'
    <2>1. ASSUME NEW d \in Drafts, d \notin calls[w].ids
          PROVE  drafts'[d] = drafts[d]
      BY <2>1, <1>7 DEF CommitApprove, CommitReject, CommitExpire, Commit
    <2>2. ASSUME NEW d \in Drafts, d \in calls[w].ids
          PROVE  /\ drafts[d].status # "absent"
                 /\ drafts'[d].status \in {"approved", "rejected", "cancelled"}
                 /\ drafts'[d].intent = drafts[d].intent
      <3>1. drafts[d] \in DraftRows
        BY <1>t DEF TypeOK
      <3>2. drafts'[d] \in {Approved(drafts[d]), Rejected(drafts[d]),
                            Cancelled(drafts[d])}
        BY <1>7, <2>2 DEF CommitApprove, CommitReject, CommitExpire, Commit
      <3>3. drafts[d].status # "absent"
        BY <2>2 DEF CleanInv, GateInv, LoadedExist
      <3> QED
        BY <3>1, <3>2, <3>3 DEF DraftRows, Approved, Rejected, Cancelled
    <2>3. /\ report' = report
          /\ revived' = revived \cup {d \in Drafts :
                                        /\ drafts[d].status \in Ended
                                        /\ drafts'[d].status \notin Ended}
      BY <1>7 DEF CommitApprove, CommitReject, CommitExpire, Commit
    <2>4. ASSUME NEW d \in Drafts, drafts'[d].status \in Active
          PROVE  drafts[d].status \in Active \/ d \in revived'
      <3>1. drafts[d].status \in DraftStatuses
        BY <1>t DEF TypeOK, DraftRows
      <3>2. drafts[d].status # "absent"
        BY <2>1, <2>2, <2>4 DEF Active
      <3> QED
        BY <2>3, <2>4, <3>1, <3>2 DEF DraftStatuses, Active, Ended
    <2>5. \A d \in Drafts : /\ drafts'[d].intent = drafts[d].intent
                            /\ drafts'[d].status = "absent" <=>
                                 drafts[d].status = "absent"
      BY <2>1, <2>2
    <2> QED
      BY <1>1, <2>3, <2>4, <2>5
  <1>8. ASSUME NEW d \in Drafts, RiskCheck(d) PROVE CleanInv'
    <2>1. drafts' = drafts /\ drafts[d].status # "absent"
      BY <1>8 DEF RiskCheck
    <2>2. /\ report'[d] = "pass" => NoDuplicate(d)
          /\ revived' = revived \ {d}
          /\ \A e \in Drafts \ {d} : report'[e] = report[e]
      BY <1>8, <1>t DEF RiskCheck, AllPassed, TypeOK
    <2> QED
      BY <1>t, <2>1, <2>2
      DEF CleanInv, AbsentUnreported, OneCleanActiveDraft, NoDuplicate
  <1>9. ASSUME NEW d \in Drafts, SubmitDraft(d) PROVE CleanInv'
    BY <1>2, <1>9 DEF SubmitDraft
  <1>10. CASE Tick \/ UNCHANGED vars
    BY <1>2, <1>10 DEF Tick, vars
  <1> QED
    BY <1>3, <1>4, <1>5, <1>6, <1>7, <1>8, <1>9, <1>10 DEF Next

(* Whatever requests overlap, two active drafts of one intent are both on  *)
(* record as clean only when a late commit brought one of them back from   *)
(* its end: the duplicate check itself never passes two.                   *)
THEOREM NoDoubleClean == Spec => []OneCleanActiveDraft
  <1>1. CleanInv => OneCleanActiveDraft
    BY DEF CleanInv
  <1> QED
    BY InitClean, StepClean, <1>1, PTL DEF Spec
=============================================================================
