---------------------------- MODULE MCStatusPage ----------------------------
(***************************************************************************)
(* An instance of a status page for TLC: its components, its incidents and *)
(* subscribers, and its hostnames.  They share the page row alone, so the  *)
(* instance explores each beside the page and not their product: "part"    *)
(* says which moves with it.                                               *)
(***************************************************************************)
EXTENDS StatusPage, StatusIncidents, CustomDomain, TLC

CONSTANTS c1, c2, c3, m1, e1, e2, i1, p1, p2, p3, a1, v1, v2, v3, v4, d1, l1, l2   \* model values

VARIABLE part

Components == {c1, c2, c3}
Monitors   == {m1}
Editors    == {e1, e2}
Kinds      == {"PUBLIC", "PRIVATE"}
Statuses   == {"OPERATIONAL"}
Healths    == {"UP", "DOWN"}
Places     == {0}
Incidents  == {i1}
Posts      == {p1, p2, p3}
Addresses  == {a1}
Reports    == {"MONITORING", "RESOLVED"}
Visits     == {v1, v2, v3, v4}
Hostnames  == {d1}
Lookups    == {l1, l2}

Init ==
  /\ PageInit /\ BoardInit /\ IncidentsInit /\ DomainInit
  /\ part \in {"components", "incidents", "domains"}
  /\ part = "components" \/ Rows = {}

Next ==
  \/ part = "components" /\ BoardNext /\ UNCHANGED <<incidentVars, domainVars, part>>
  \/ part = "incidents" /\ IncidentsNext /\ UNCHANGED <<boardVars, domainVars, part>>
  \/ part = "domains" /\ DomainNext /\ UNCHANGED <<boardVars, incidentVars, part>>

Spec == Init /\ [][Next]_<<page, boardVars, incidentVars, domainVars, part>>
=============================================================================
