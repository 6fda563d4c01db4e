------------------------------ MODULE StatusPage ------------------------------
(***************************************************************************)
(* A public status page and its components, as                             *)
(* services/status-page.service.ts keeps them: who sees the page, the      *)
(* order of its components, and the status each of them shows.             *)
(*                                                                         *)
(* Creating a component reads the last position and then inserts a row;    *)
(* reordering reads which components there are and then moves them in one  *)
(* transaction.  Several requests do so at once.                           *)
(***************************************************************************)
EXTENDS Page, Naturals, Sequences, SequencesExt, FiniteSetsExt

CONSTANTS
  Component,   \* ids of components, each used at most once
  Monitor,
  Editor,      \* requests to create or to reorder, each made again and again
  Manual,      \* the statuses operators set by hand
  Reported,    \* the health the pipeline writes
  Place,       \* the positions requests ask for
  MaxOrders    \* bound: requests to reorder

VARIABLES
  component,   \* the rows
  health,      \* health of the monitors, as the check pipeline writes it
  editor,
  raced,       \* whether a creation or an order was overtaken: see NoTies
  orders       \* requests to reorder so far

boardVars == <<component, health, editor, raced, orders>>

ComponentStatus == {"OPERATIONAL", "DEGRADED_PERFORMANCE", "PARTIAL_OUTAGE", "MAJOR_OUTAGE",
                    "UNDER_MAINTENANCE"}
Health          == {"PENDING", "UP", "DOWN", "DEGRADED", "RECOVERING", "MAINTENANCE", "PAUSED"}
NoMonitor == "no monitor"

ASSUME StatusPageAssumption ==
  /\ Manual \subseteq ComponentStatus /\ Reported \subseteq Health
  /\ Place \subseteq Nat
  /\ MaxOrders \in Nat

Absent == [is |-> "none"]
Idle   == [stage |-> "idle"]
Rows   == {c \in Component : component[c].is = "row"}
Fresh  == {c \in Component : component[c].is = "none"}

Position(c) == component[c].position

\* A row; placed says that a request asked for its position, and none has reordered it
\* since.
ComponentRow(monitor, status, position, placed, born) ==
  [is |-> "row", monitor |-> monitor, status |-> status, position |-> position,
   placed |-> placed, born |-> born]

\* The index of a component in a list that has it, from 0.
Turn(ids, c) == (CHOOSE i \in DOMAIN ids : ids[i] = c) - 1

\* A page is created with a list of components: each at the position the request
\* asked for, or else at its index.
BoardInit ==
  /\ \E first \in UNION {SetToSeqs(known) : known \in SUBSET Component},
        m \in [Component -> Monitor \cup {NoMonitor}], asked \in SUBSET Component :
       \E at \in [asked -> Place] :
         component = [c \in Component |->
           IF c \notin ToSet(first) THEN Absent
           ELSE ComponentRow(m[c], "OPERATIONAL", IF c \in asked THEN at[c] ELSE Turn(first, c),
                    c \in asked, 0)]
  /\ health = [m \in Monitor |-> "UP"]
  /\ editor = [e \in Editor |-> Idle]
  /\ raced = FALSE
  /\ orders = 0

-----------------------------------------------------------------------------
(* What the public reads *)

\* HEALTH_TO_STATUS: nothing is derived from PENDING and PAUSED.
HealthToStatus ==
  [h \in Health \ {"PENDING", "PAUSED"} |->
     CASE h = "UP" -> "OPERATIONAL"
       [] h = "DOWN" -> "MAJOR_OUTAGE"
       [] h \in {"DEGRADED", "RECOVERING"} -> "DEGRADED_PERFORMANCE"
       [] h = "MAINTENANCE" -> "UNDER_MAINTENANCE"]

componentStatus(c) ==
  LET m == component[c].monitor
  IN  IF m \in Monitor /\ health[m] \in DOMAIN HealthToStatus THEN HealthToStatus[health[m]]
      ELSE component[c].status

Severity ==
  [OPERATIONAL |-> 0, UNDER_MAINTENANCE |-> 1, DEGRADED_PERFORMANCE |-> 2,
   PARTIAL_OUTAGE |-> 3, MAJOR_OUTAGE |-> 4]

\* listComponents: by position, and by age where positions are equal.
Before(c, d) ==
  \/ component[c].position < component[d].position
  \/ component[c].position = component[d].position /\ component[c].born < component[d].born

Listed == SetToSortSeq(Rows, Before)

Worse(worst, status) == IF Severity[status] > Severity[worst] THEN status ELSE worst

\* The worst status of all, by a fold over the components as they are listed.
overallStatus ==
  FoldLeft(LAMBDA worst, c : Worse(worst, componentStatus(c)), "OPERATIONAL", Listed)

-----------------------------------------------------------------------------
(* Monitors *)

\* The pipeline's side; it stops when a monitor is removed, and its row stays as it is.
HealthChanges(m) ==
  /\ \E h \in Reported : health' = [health EXCEPT ![m] = h]
  /\ UNCHANGED <<page, component, editor, raced, orders>>

-----------------------------------------------------------------------------
(* Components *)

Creating(position, placed) == [stage |-> "create", position |-> position, placed |-> placed]

\* Requests that are about to insert a component where the last one ended.
Falling == {e \in Editor : editor[e].stage = "create" /\ ~editor[e].placed}

\* Mutant of ReadLastPosition: the components are counted instead.
CountComponents(e) ==
  /\ editor[e] = Idle /\ ~page.deleted
  /\ \/ /\ editor' = [editor EXCEPT ![e] = Creating(Cardinality(Rows), FALSE)]
        /\ raced' = (raced \/ Falling # {})
     \/ /\ \E p \in Place : editor' = [editor EXCEPT ![e] = Creating(p, TRUE)]
        /\ UNCHANGED raced
  /\ UNCHANGED <<page, component, health, orders>>

Bottom == IF Rows = {} THEN 0 ELSE Max({Position(c) : c \in Rows}) + 1

\* createComponent: the last position is read, for the case that none is asked for ...
ReadLastPosition(e) ==
  /\ editor[e] = Idle /\ ~page.deleted
  /\ \/ /\ editor' = [editor EXCEPT ![e] = Creating(Bottom, FALSE)]
        /\ raced' = (raced \/ Falling # {})
     \/ /\ \E p \in Place : editor' = [editor EXCEPT ![e] = Creating(p, TRUE)]
        /\ UNCHANGED raced
  /\ UNCHANGED <<page, component, health, orders>>

\* ... and the row is inserted.
InsertComponent(e, c) ==
  /\ editor[e].stage = "create"
  /\ c \in Fresh /\ c = CHOOSE d \in Fresh : TRUE
  /\ \E m \in Monitor \cup {NoMonitor}, s \in Manual \cup {"OPERATIONAL"} :
       component' = [component EXCEPT ![c] =
         ComponentRow(m, s, editor[e].position, editor[e].placed, Cardinality(Component \ Fresh))]
  /\ editor' = [editor EXCEPT ![e] = Idle]
  /\ UNCHANGED <<page, health, raced, orders>>

\* The manual status, one the monitor's health overrides while it has one; the
\* monitor; and the position, which may be one that another component has.
UpdateComponent(c) ==
  /\ c \in Rows /\ ~page.deleted
  /\ \E s \in Manual \cup {component[c].status}, m \in Monitor \cup {NoMonitor},
        p \in Place \cup {Position(c)} :
       component' = [component EXCEPT ![c] =
         ComponentRow(m, s, p, component[c].placed \/ p # Position(c), component[c].born)]
  /\ UNCHANGED <<page, health, editor, raced, orders>>

DeleteComponent(c) ==
  /\ c \in Rows /\ ~page.deleted
  /\ component' = [component EXCEPT ![c] = [is |-> "deleted"]]
  /\ UNCHANGED <<page, health, editor, raced, orders>>

\* reorderComponents with a list of components, of which those that are still there
\* are kept (a dashboard sends all it knows, and may have been open for long) ...
BeginReorder(e) ==
  /\ editor[e] = Idle /\ ~page.deleted /\ orders < MaxOrders
  /\ \E known \in SUBSET (Component \ Fresh) : \E ids \in SetToSeqs(known \cap Rows) :
       editor' = [editor EXCEPT ![e] = [stage |-> "reorder", ids |-> ids]]
  /\ orders' = orders + 1
  /\ UNCHANGED <<page, component, health, raced>>

\* ... and moved to 0, 1, 2 ... in one transaction, which fails if one of them was
\* deleted in between.
WriteOrder(e) ==
  LET ids     == editor[e].ids
      written == ToSet(ids) \subseteq Rows
  IN  /\ editor[e].stage = "reorder"
      /\ component' =
           IF written
             THEN [c \in Component |->
                     IF c \in ToSet(ids)
                       THEN [component[c] EXCEPT !.position = Turn(ids, c), !.placed = FALSE]
                       ELSE component[c]]
             ELSE component
      /\ editor' = [editor EXCEPT ![e] = Idle]
      /\ raced' = \/ raced
                  \/ written /\ ToSet(ids) # Rows
                  \/ written /\ \E f \in Falling : editor[f].position < Len(ids)
      /\ UNCHANGED <<page, health, orders>>

BoardNext ==
  \/ \E m \in Monitor : HealthChanges(m)
  \/ \E e \in Editor : ReadLastPosition(e) \/ BeginReorder(e) \/ WriteOrder(e)
  \/ \E e \in Editor, c \in Component : InsertComponent(e, c)
  \/ \E c \in Component : UpdateComponent(c) \/ DeleteComponent(c)
  \/ PageNext /\ UNCHANGED boardVars

BoardSpec == PageInit /\ BoardInit /\ [][BoardNext]_<<page, boardVars>>

-----------------------------------------------------------------------------
(* What it is checked for *)

\* "New components fall to the bottom unless an explicit position is given": requests
\* that create, move, delete and reorder components overlap, and components still share
\* a position only where a request asked for it.  Three things may overtake a request
\* (raced): two creations read the last position together; a dashboard that did not
\* know every component reorders those it knew; and a reordering parts components that
\* shared a position, down to the one a creation has just read.
NoTies ==
  ~raced => \A c, d \in Rows :
              Position(c) = Position(d) => c = d \/ component[c].placed \/ component[d].placed

=============================================================================
