---------------------------- MODULE DraftLifecycle ----------------------------
(***************************************************************************)
(* What the execution pipeline promises about an order draft, with no      *)
(* database, no sessions and no requests: a draft is created once, and     *)
(* its status changes only to what somebody considered while the draft was *)
(* in a status that allows it.  A decision may land long after it was      *)
(* considered, and on a draft that another decision has changed meanwhile: *)
(* nothing stronger is true of handlers that test first and write later.   *)
(* The guards are those libs/execution/drafts.py tests before it writes.   *)
(***************************************************************************)

CONSTANT Drafts

VARIABLES
  status,    \* status[d]: the committed order_draft.status of d
  open       \* open[d]: the decisions considered on d that may still land

lifecycle == <<status, open>>

From ==
  [approved  |-> {"pending_approval"},
   rejected  |-> {"pending_approval", "approved"},
   cancelled |-> {"pending_approval"}]

Init ==
  /\ status = [d \in Drafts |-> "absent"]
  /\ open = [d \in Drafts |-> {}]

Create(d) ==
  /\ status[d] = "absent"
  /\ status' = [status EXCEPT ![d] = "pending_approval"]
  /\ UNCHANGED open

Consider(D, to) ==
  /\ \A d \in D : status[d] \in From[to]
  /\ UNCHANGED status
  /\ open' = [d \in Drafts |-> IF d \in D THEN open[d] \cup {to} ELSE open[d]]

Close(D, to) ==
  open' = [d \in Drafts |-> IF d \in D THEN open[d] \ {to} ELSE open[d]]

\* The decision lands on all of D at once.  It stays open for those of D that
\* somebody else is about to decide the same way.
Land(D, to) ==
  /\ \A d \in D : to \in open[d]
  /\ status' = [d \in Drafts |-> IF d \in D THEN to ELSE status[d]]
  /\ \E closed \in SUBSET D : Close(closed, to)

\* Whoever considered it has gone.
Drop(D, to) ==
  /\ UNCHANGED status
  /\ Close(D, to)

Submit(d) ==
  /\ status[d] = "approved"
  /\ status' = [status EXCEPT ![d] = "submitted"]
  /\ UNCHANGED open

Next ==
  \/ \E d \in Drafts : Create(d) \/ Submit(d)
  \/ \E D \in SUBSET Drafts, to \in DOMAIN From :
       Consider(D, to) \/ Land(D, to) \/ Drop(D, to)

Spec == Init /\ [][Next]_lifecycle
===============================================================================
