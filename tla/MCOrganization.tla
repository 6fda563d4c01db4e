--------------------------- MODULE MCOrganization ---------------------------
(***************************************************************************)
(* An instance for TLC of what one organization is made of: its            *)
(* subscription, the limits of its plan, its on-call rotation, and a       *)
(* member at the dashboard.  Billing and limits meet in the plan alone,    *)
(* and PlanLimits lets it change at any time to any tier; the others share *)
(* nothing.  So the instance explores each and not their product: "part"   *)
(* says which of them moves.                                               *)
(***************************************************************************)
EXTENDS Billing, PlanLimits, OnCall, WebClient

VARIABLE part

\* The shape of the catalog: little, more, no limit.
Catalog ==
  [t \in Tier |->
     CASE t = "FREE"    -> [monitor |-> 1, seat |-> 1]
       [] t = "STARTER" -> [monitor |-> 2, seat |-> 2]
       [] OTHER         -> [monitor |-> Unlimited, seat |-> Unlimited]]

\* One rotation of each length: people are told apart by their place in it alone.
SomeOrder == CHOOSE order \in Lists : Len(order) = Cardinality(Users)
Rotations == {Rows(SubSeq(SomeOrder, 1, n), 0) : n \in 0 .. Cardinality(Users)}

\* The parts that rest have one state: nobody is on call, a viewer looks at
\* the first of the queries.
MCInit ==
  /\ part \in {"billing", "limits", "rotation", "web"}
  /\ BillingInit /\ LimitsInit /\ OnCallInit /\ WebInit
  /\ rotation \in Rotations
  /\ part # "rotation" => rotation = {} /\ schedule = [period |-> 2, handoff |-> 1, offset |-> 0]
  /\ part # "web" => role = "viewer" /\ watched = "monitors" /\ page = Away

\* Bound: the member's changes and those of their role are two in all.
FewChanges == writes' + roleChanges' <= 2

MCNext ==
  \/ part = "billing" /\ BillingNext /\ UNCHANGED <<limitsVars, ocvars, webVars, part>>
  \/ part = "limits" /\ LimitsNext /\ UNCHANGED <<billingVars, ocvars, webVars, part>>
  \/ part = "rotation" /\ OnCallNext /\ UNCHANGED <<billingVars, limitsVars, webVars, part>>
  \/ part = "web" /\ WebNext /\ FewChanges /\ UNCHANGED <<billingVars, limitsVars, ocvars, part>>

MCSpec == MCInit /\ [][MCNext]_<<billingVars, limitsVars, ocvars, webVars, part>>
=============================================================================
