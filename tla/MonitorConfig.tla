---------------------------- MODULE MonitorConfig ----------------------------
(***************************************************************************)
(* The configuration of the monitors and the requests that change it       *)
(* (services/monitor.service.ts).  An update reads the row, checks that    *)
(* the merged target fits the type, and then changes the row and its       *)
(* assertions and channel bindings in statements of their own, so requests *)
(* overlap between statements and a request may die between any two.       *)
(*                                                                         *)
(* A configuration is a function of field names, an update one whose       *)
(* domain is the fields it supplies.  Fields that nothing branches on      *)
(* (name, headers, thresholds ...) behave like "interval" and are left out.*)
(***************************************************************************)
EXTENDS Naturals, Sequences, FiniteSets

CONSTANTS
  Monitor,
  Request,      \* requests to the API; each is made at most once
  Region,
  Config,       \* configurations monitors are created with
  Update,       \* the bodies of updates and of PUT /channels
  Owned         \* channels of the organization that are not deleted

Scalar == {"type", "url", "host", "interval", "regions"}
Nested == {"assertions", "channels"}

\* The target each type needs; a port goes with the host.
validateTargetFields(c) ==
  CASE c["type"] \in {"HTTP", "KEYWORD", "SSL"}                  -> c["url"]
    [] c["type"] \in {"TCP", "PORT", "PING", "DNS", "DOMAIN"}    -> c["host"]
    [] c["type"] = "HEARTBEAT"                                   -> TRUE
    [] OTHER                                                     -> FALSE

ASSUME ConfigAssumption ==
  /\ \A c \in Config : DOMAIN c = Scalar \cup Nested
  /\ \A u \in Update : DOMAIN u \subseteq Scalar \cup Nested /\ u # << >>

VARIABLES
  monitor,     \* the rows: none, live or deleted; ACTIVE or PAUSED; scalar fields
  assertions,  \* assertion rows: monitor, the request that made it, what it asserts
  bindings,    \* monitor_channels rows
  request,     \* the statements each request has left
  overlapped   \* monitors of which two requests ran at once

configVars == <<monitor, assertions, bindings, request, overlapped>>

Absent   == [is |-> "none"]
Live     == {m \in Monitor : monitor[m].is = "live"}
ScalarsOf(c) == [f \in DOMAIN c \cap Scalar |-> c[f]]

\* A configuration with the fields an update supplies.
Merged(u, c) == [f \in DOMAIN u \cup DOMAIN c |-> IF f \in DOMAIN u THEN u[f] ELSE c[f]]

Unmade == [stage |-> "unmade"]
Over   == [stage |-> "over"]
Busy(q, m) == request[q].stage = "run" /\ request[q].of = m

\* Rows of a request's own making, as they would be made by createMany.
AssertionRows(m, q, c) == [of : {m}, by : {q}, what : c["assertions"]]

ActiveRow(c) == [is |-> "live", state |-> "ACTIVE", config |-> ScalarsOf(c)]

ConfigInit ==
  /\ monitor \in [Monitor -> {Absent} \cup {ActiveRow(c) : c \in {d \in Config : validateTargetFields(d)}}]
  /\ assertions = {} /\ bindings = {}
  /\ request = [q \in Request |-> Unmade]
  /\ overlapped = {}

-----------------------------------------------------------------------------
(* A request: what it checks, then its statements one by one *)

\* assertChannelsOwned; groups and escalation policies are asked about alike.
ReferencesOwned(c) == "channels" \in DOMAIN c => c["channels"] \subseteq Owned

\* The request goes on to run its statements on m; others may be at work there.
Runs(q, m, statements, body) ==
  /\ request' = [request EXCEPT ![q] =
       [stage |-> "run", of |-> m, todo |-> statements, body |-> body]]
  /\ overlapped' = IF \E p \in Request : Busy(p, m) THEN overlapped \cup {m} ELSE overlapped
  /\ UNCHANGED <<monitor, assertions, bindings>>

Refused(q) ==
  /\ request' = [request EXCEPT ![q] = Over]
  /\ UNCHANGED <<monitor, assertions, bindings, overlapped>>

\* One statement creates the row with its assertions and bindings.
Create(q, m) ==
  /\ request[q] = Unmade
  /\ monitor[m] = Absent
  /\ \E c \in Config :
       IF validateTargetFields(c) /\ ReferencesOwned(c)
         THEN /\ monitor' = [monitor EXCEPT ![m] = ActiveRow(c)]
              /\ assertions' = assertions \cup AssertionRows(m, q, c)
              /\ bindings' = bindings \cup ({m} \X c["channels"])
              /\ request' = [request EXCEPT ![q] = Over]
              /\ UNCHANGED overlapped
         ELSE Refused(q)

\* The statements of an update, those it has no field for left out.
Statements(u) ==
  IF "assertions" \in DOMAIN u
    THEN IF "channels" \in DOMAIN u
           THEN <<"clearAssertions", "addAssertions", "clearChannels", "addChannels", "write">>
           ELSE <<"clearAssertions", "addAssertions", "write">>
    ELSE IF "channels" \in DOMAIN u
           THEN <<"clearChannels", "addChannels", "write">>
           ELSE <<"write">>

\* Mutant of BeginUpdate: the fields that are supplied are checked, not the merged ones.
BeginUpdateUnmerged(q, m) ==
  /\ request[q] = Unmade
  /\ m \in Live
  /\ \E u \in Update :
       IF ({"type", "url", "host"} \subseteq DOMAIN u => validateTargetFields(u)) /\ ReferencesOwned(u)
         THEN Runs(q, m, Statements(u), u)
         ELSE Refused(q)

\* update: the row as it is now, merged with the body, must have a fitting target.
BeginUpdate(q, m) ==
  /\ request[q] = Unmade
  /\ m \in Live
  /\ \E u \in Update :
       IF validateTargetFields(Merged(u, monitor[m].config)) /\ ReferencesOwned(u)
         THEN Runs(q, m, Statements(u), u)
         ELSE Refused(q)

BeginSetChannels(q, m) ==
  /\ request[q] = Unmade
  /\ m \in Live
  /\ \E u \in Update :
       /\ DOMAIN u = {"channels"}
       /\ IF ReferencesOwned(u) THEN Runs(q, m, <<"clearChannels", "addChannels">>, u)
                                ELSE Refused(q)

\* pause and resume read the state and write it if it is the other one.
BeginSwitch(q, m) ==
  /\ request[q] = Unmade
  /\ m \in Live
  /\ \E to \in {"ACTIVE", "PAUSED"} \ {monitor[m].state} :
       Runs(q, m, <<IF to = "ACTIVE" THEN "resume" ELSE "pause">>, << >>)

\* updateMany where deletedAt is null
RemoveMonitor(q, m) ==
  /\ request[q] = Unmade
  /\ m \in Live
  /\ monitor' = [monitor EXCEPT ![m].is = "deleted"]
  /\ request' = [request EXCEPT ![q] = Over]
  /\ UNCHANGED <<assertions, bindings, overlapped>>

\* deleteMany where monitorId
Clear(m, s) ==
  IF s = "clearAssertions"
    THEN assertions' = {r \in assertions : r.of # m} /\ UNCHANGED bindings
    ELSE bindings' = {b \in bindings : b[1] # m} /\ UNCHANGED assertions

\* createMany; bindings skip duplicates, assertions have ids of their own.
Add(q, m, s) ==
  IF s = "addAssertions"
    THEN assertions' = assertions \cup AssertionRows(m, q, request[q].body) /\ UNCHANGED bindings
    ELSE bindings' = bindings \cup ({m} \X request[q].body["channels"]) /\ UNCHANGED assertions

WriteStatement(q, m, s) ==
  monitor' = [monitor EXCEPT ![m] =
    CASE s = "pause"  -> [@ EXCEPT !.state = "PAUSED"]
      [] s = "resume" -> [@ EXCEPT !.state = "ACTIVE"]
      [] s = "write"  -> [@ EXCEPT !.config = Merged(ScalarsOf(request[q].body), monitor[m].config)]]

RunStatement(q) ==
  LET s == Head(request[q].todo)
      m == request[q].of
  IN  /\ request[q].stage = "run"
      /\ \/ s \in {"clearAssertions", "clearChannels"} /\ Clear(m, s) /\ UNCHANGED monitor
         \/ s \in {"addAssertions", "addChannels"} /\ Add(q, m, s) /\ UNCHANGED monitor
         \/ s \in {"write", "pause", "resume"} /\ WriteStatement(q, m, s) /\ UNCHANGED <<assertions, bindings>>
      /\ request' = IF Len(request[q].todo) = 1 THEN [request EXCEPT ![q] = Over]
                                              ELSE [request EXCEPT ![q].todo = Tail(@)]
      /\ UNCHANGED overlapped

\* A statement fails, or the process stops, between two statements.
Dies(q) ==
  /\ request[q].stage = "run"
  /\ request' = [request EXCEPT ![q] = Over]
  /\ UNCHANGED <<monitor, assertions, bindings, overlapped>>

-----------------------------------------------------------------------------
ConfigNext ==
  \E q \in Request :
     \/ \E m \in Monitor : \/ Create(q, m) \/ BeginUpdate(q, m) \/ BeginSetChannels(q, m)
                           \/ BeginSwitch(q, m) \/ RemoveMonitor(q, m)
     \/ RunStatement(q) \/ Dies(q)

-----------------------------------------------------------------------------
(* What it is checked for *)

TargetFits(m)   == validateTargetFields(monitor[m].config)
OneAuthor(m)    == Cardinality({r.by : r \in {a \in assertions : a.of = m}}) <= 1

\* "ensure the combined target config is coherent for the monitor type": no sequence
\* of updates leaves a monitor without the target its type needs, or with assertions
\* of two requests, not even when one dies half way; only requests that overlap do.
ConfigIsCoherent == \A m \in Live \ overlapped : TargetFits(m) /\ OneAuthor(m)

=============================================================================
