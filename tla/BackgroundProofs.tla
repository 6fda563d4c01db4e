-------------------------- MODULE BackgroundProofs --------------------------
(***************************************************************************)
(* Theorems about what works in the background: the probes, for every      *)
(* monitor configuration, any number of checks side by side, of registry   *)
(* servers and of redirects; the configuration of the monitors, for any    *)
(* number of monitors and of requests at once; and the daily statistics,   *)
(* for any number of days, of regions and of writers.                      *)
(***************************************************************************)
EXTENDS MCBackground, FiniteSetTheorems, TLAPS

-----------------------------------------------------------------------------
(* The probes *)


Errors == {"none", "dns", "refused", "timeout", "tls", "connect", "error", "blocked",
           "no_ping", "config"}
Statuses == {"none", "UP", "DEGRADED", "DOWN", "TIMEOUT", "ERROR"}
Signal == [reachable : BOOLEAN, errorType : Errors, facts : Facts, registry : BOOLEAN]

\* A check that was started.
CheckState ==
  [monitor : Targets, phase : {"asking", "mirrors", "classify", "done"}, attempt : Nat,
   hop : Nat, late : BOOLEAN, signal : Signal, failed : Nat, status : Statuses]

Started(c) == check[c].phase # "idle"

TypeOK ==
  /\ directory \in {"none", "listed", "empty"}
  /\ check = [c \in Checks |-> check[c]]
  /\ \A c \in Checks : Started(c) => check[c] \in CheckState
  /\ runs \in Nat

\* Where a check is: every attempt before the current one failed, and of the current one
\* as many servers of the registry as were asked.
OnItsWay(k) ==
  /\ k.attempt <= k.monitor.retries
  /\ k.phase = "asking" /\ k.monitor.type = "DOMAIN" => k.hop = 0
  /\ k.phase = "mirrors" => k.hop < Mirrors
  /\ k.phase \in {"classify", "done"} /\ k.signal.registry => k.hop = Mirrors
  /\ k.phase # "done" => k.failed = k.attempt
  /\ k.phase = "done" /\ ~IsSuccess(k.status) =>
       k.attempt = k.monitor.retries /\ k.failed = k.attempt + 1

WayInv == TypeOK /\ \A c \in Checks : Started(c) => OnItsWay(check[c])

-----------------------------------------------------------------------------
(* What a probe brings home *)

LEMMA SignalTypes ==
  /\ \A e \in Errors : Unreachable(e) \in Signal /\ RegistryDown(e) \in Signal
  /\ \A f \in Facts : Reached(f) \in Signal
<1>1. Blank \in Facts BY DEF Blank, Facts, Expiries
<1>2. ASSUME NEW e \in Errors PROVE Unreachable(e) \in Signal
  BY <1>1 DEF Unreachable, Signal
<1>3. ASSUME NEW e \in Errors PROVE RegistryDown(e) \in Signal
  <2>1. \A u \in Signal : [u EXCEPT !.registry = TRUE] \in Signal BY DEF Signal
  <2>2. QED BY <1>2, <2>1 DEF RegistryDown
<1>4. ASSUME NEW f \in Facts PROVE Reached(f) \in Signal
  <2>1. "none" \in Errors BY DEF Errors
  <2>2. QED BY <2>1 DEF Reached, Signal
<1>5. QED BY <1>2, <1>3, <1>4

LEMMA FactsTypes == ASSUME NEW m \in Targets PROVE FactsOf(m) \subseteq Facts
<1>1. m.assertions \subseteq Sources BY ProbesAssumption DEF Snapshot
<1>2. SUFFICES ASSUME NEW f \in FactsOf(m) PROVE f \in Facts OBVIOUS
<1>3. CASE m.type \in Http
  BY <1>1, <1>2, <1>3 DEF FactsOf, Facts, Http, Expiries
<1>4. CASE m.type \notin Http /\ m.type = "SSL"
  BY <1>1, <1>2, <1>4 DEF FactsOf, Facts, Http, Expiries
<1>5. CASE m.type \notin Http /\ m.type = "DOMAIN"
  BY <1>1, <1>2, <1>5 DEF FactsOf, Facts, Http, Expiries
<1>6. CASE m.type \notin Http \cup {"SSL", "DOMAIN"}
  <2>1. PICK b \in SUBSET m.assertions : f = [Blank EXCEPT !.broken = b]
    BY <1>2, <1>6 DEF FactsOf
  <2>2. QED BY <1>1, <2>1 DEF Blank, Facts, Expiries
<1>7. QED BY <1>3, <1>4, <1>5, <1>6

LEMMA ErrorsTypes == \A type \in Types \ {"DOMAIN"} : ErrorsOf(type) \subseteq Errors
BY DEF Types, ErrorsOf, Errors, Http

LEMMA JudgedTypes == \A m, signal : Judged(m, signal) \in Statuses \ {"none"}
BY DEF Judged, StatusForUnreachable, Statuses

-----------------------------------------------------------------------------
(* The steps of a check *)

\* One check takes a step and the others stay.
LEMMA OneCheck ==
  ASSUME WayInv, NEW c \in Checks, NEW k, k \in CheckState, OnItsWay(k),
         check' = [check EXCEPT ![c] = k], directory' \in {"none", "listed", "empty"},
         runs' \in Nat
  PROVE  WayInv'
<1>1. \A d \in Checks : check'[d] = IF d = c THEN k ELSE check[d] BY DEF WayInv, TypeOK
<1>2. check' = [d \in Checks |-> check'[d]] BY DEF WayInv, TypeOK
<1>3. \A d \in Checks : Started(d)' => check'[d] \in CheckState /\ OnItsWay(check'[d])
  BY <1>1 DEF WayInv, TypeOK, Started
<1>4. QED BY <1>2, <1>3 DEF WayInv, TypeOK, OnItsWay

\* An attempt ends with a signal.
LEMMA SignalMade ==
  ASSUME WayInv, NEW c \in Checks, check[c].phase \in {"asking", "mirrors"},
         NEW s \in Signal, ~s.registry, Signals(c, s),
         directory' \in {"none", "listed", "empty"}, UNCHANGED runs
  PROVE  WayInv'
<1> DEFINE k == [check[c] EXCEPT !.signal = s, !.phase = "classify"]
<1>1. Started(c) BY DEF Started
<1>2. check[c] \in CheckState /\ OnItsWay(check[c]) BY <1>1 DEF WayInv, TypeOK
<1>3. /\ k \in CheckState
      /\ k.signal = s /\ k.phase = "classify" /\ k.attempt = check[c].attempt
      /\ k.monitor = check[c].monitor /\ k.failed = check[c].failed
  BY <1>2 DEF CheckState
<1>4. check' = [check EXCEPT ![c] = k] BY DEF Signals, WayInv, TypeOK
<1> HIDE DEF k
<1>5. OnItsWay(k) BY <1>2, <1>3 DEF OnItsWay
<1>6. QED BY <1>3, <1>4, <1>5, OneCheck DEF WayInv, TypeOK

\* The last server of the registry that was asked failed too.
LEMMA RegistryBlamed ==
  ASSUME WayInv, NEW c \in Checks, check[c].phase = "mirrors", check[c].hop + 1 >= Mirrors,
         NEW e \in Errors, NEW late \in BOOLEAN,
         check' = [check EXCEPT ![c] = [check[c] EXCEPT !.late = late, !.hop = @ + 1,
                                          !.phase = "classify", !.signal = RegistryDown(e)]],
         UNCHANGED <<directory, runs>>
  PROVE  WayInv'
<1> DEFINE h == check[c].hop + 1
           k == [check[c] EXCEPT !.late = late, !.hop = h, !.phase = "classify",
                                 !.signal = RegistryDown(e)]
<1>1. check[c] \in CheckState /\ OnItsWay(check[c]) BY DEF WayInv, TypeOK, Started
<1>2. RegistryDown(e) \in Signal /\ h \in Nat BY <1>1, SignalTypes DEF CheckState
<1> HIDE DEF h
<1>3. /\ k \in CheckState
      /\ k.phase = "classify" /\ k.attempt = check[c].attempt /\ k.hop = h
      /\ k.monitor = check[c].monitor /\ k.failed = check[c].failed
  BY <1>1, <1>2 DEF CheckState
<1> HIDE DEF k
<1>4. check[c].hop \in Nat /\ check[c].hop < Mirrors /\ Mirrors \in Nat
  BY <1>1, ProbesAssumption DEF CheckState, OnItsWay
<1>5. k.hop = Mirrors BY <1>3, <1>4 DEF h
<1>6. OnItsWay(k) BY <1>1, <1>3, <1>5 DEF OnItsWay
<1>7. QED BY <1>3, <1>6, OneCheck DEF WayInv, TypeOK, k, h

\* The next server, or the next address, is asked.
LEMMA HopMade ==
  ASSUME WayInv, NEW c \in Checks, NEW late \in BOOLEAN,
         \/ check[c].phase = "mirrors" /\ check[c].hop + 1 < Mirrors
         \/ check[c].phase = "asking" /\ check[c].monitor.type # "DOMAIN",
         check' = [check EXCEPT ![c] = [check[c] EXCEPT !.late = late, !.hop = @ + 1]],
         UNCHANGED <<directory, runs>>
  PROVE  WayInv'
<1> DEFINE h == check[c].hop + 1
           k == [check[c] EXCEPT !.late = late, !.hop = h]
<1>1. check[c] \in CheckState /\ OnItsWay(check[c]) BY DEF WayInv, TypeOK, Started
<1>2. h \in Nat BY <1>1 DEF CheckState
<1> HIDE DEF h
<1>3. /\ k \in CheckState
      /\ k.phase = check[c].phase /\ k.attempt = check[c].attempt /\ k.hop = h
      /\ k.monitor = check[c].monitor /\ k.failed = check[c].failed
  BY <1>1, <1>2 DEF CheckState
<1> HIDE DEF k
<1>4. OnItsWay(k) BY <1>1, <1>3 DEF OnItsWay, h
<1>5. QED BY <1>3, <1>4, OneCheck DEF WayInv, TypeOK, k, h

\* A check starts over with nothing held against the target.
LEMMA CheckStarts ==
  ASSUME WayInv, NEW c \in Checks, Start(c)
  PROVE  WayInv'
<1>1. PICK m \in Targets : check' = [check EXCEPT ![c] = Fresh(m)] BY DEF Start
<1>2. m.retries \in Nat BY ProbesAssumption DEF Snapshot
<1>3. Unreachable("none") \in Signal BY SignalTypes DEF Errors
<1>4. Fresh(m) \in CheckState BY <1>3 DEF Fresh, CheckState, Statuses
<1>5. OnItsWay(Fresh(m)) BY <1>2 DEF Fresh, OnItsWay
<1>6. directory' = directory /\ runs' \in Nat BY DEF Start, WayInv, TypeOK
<1>7. QED BY <1>1, <1>4, <1>5, <1>6, OneCheck DEF WayInv, TypeOK

\* An attempt is judged: it counts as failed, and is made again or was the last.
LEMMA AttemptJudged ==
  ASSUME WayInv, NEW c \in Checks, Classify(c)
  PROVE  WayInv'
<1> DEFINE k == check[c]
           st == Judged(k.monitor, k.signal)
           n  == IF IsSuccess(st) THEN 0 ELSE 1
           sum == k.failed + n
           judged == [k EXCEPT !.status = st, !.failed = sum]
           next   == judged.attempt + 1
           again  == [judged EXCEPT !.phase = "asking", !.attempt = next, !.hop = 0,
                                    !.late = FALSE]
           last   == [judged EXCEPT !.phase = "done"]
<1>1. k.phase = "classify" /\ k \in CheckState /\ OnItsWay(k)
  BY DEF Classify, WayInv, TypeOK, Started
<1>2. st \in Statuses BY JudgedTypes
<1>3. n \in Nat /\ (IsSuccess(st) => n = 0) /\ (~IsSuccess(st) => n = 1) OBVIOUS
<1>4. /\ UNCHANGED <<directory, runs>>
      /\ check' = [check EXCEPT ![c] = IF Again(judged) THEN again ELSE last]
  BY DEF Classify
<1> HIDE DEF st, n
<1>a. sum \in Nat BY <1>1, <1>3 DEF CheckState
<1> HIDE DEF sum
<1>5. /\ judged \in CheckState /\ judged.status = st /\ judged.failed = sum
      /\ judged.monitor = k.monitor /\ judged.attempt = k.attempt /\ judged.hop = k.hop
      /\ judged.signal = k.signal
  BY <1>1, <1>2, <1>a DEF CheckState
<1> HIDE DEF judged
<1>6. k.monitor.retries \in Nat BY <1>1, ProbesAssumption DEF CheckState, Snapshot
<1>7. CASE Again(judged)
  <2>a. next \in Nat /\ next = k.attempt + 1 BY <1>5 DEF CheckState
  <2> HIDE DEF next
  <2>1. /\ again \in CheckState /\ again.phase = "asking" /\ again.hop = 0
        /\ again.attempt = next /\ again.failed = sum
        /\ again.monitor = k.monitor
    BY <1>5, <2>a DEF CheckState
  <2> HIDE DEF again
  <2>2. n = 1 /\ k.attempt < k.monitor.retries BY <1>3, <1>5, <1>7 DEF Again
  <2>3. k.attempt \in Nat BY <1>1 DEF CheckState
  <2>4. OnItsWay(again) BY <1>1, <1>6, <2>a, <2>1, <2>2, <2>3 DEF OnItsWay, sum
  <2>5. QED BY <1>4, <1>7, <2>1, <2>4, OneCheck DEF WayInv, TypeOK
<1>8. CASE ~Again(judged)
  <2>1. /\ last \in CheckState /\ last.phase = "done" /\ last.hop = k.hop
        /\ last.attempt = k.attempt /\ last.failed = sum
        /\ last.monitor = k.monitor /\ last.signal = k.signal /\ last.status = st
    BY <1>5 DEF CheckState
  <2> HIDE DEF last
  <2>2. ~IsSuccess(st) => n = 1 /\ ~(k.attempt < k.monitor.retries)
    BY <1>3, <1>5, <1>8 DEF Again
  <2>3. k.attempt \in Nat BY <1>1 DEF CheckState
  <2>4. OnItsWay(last) BY <1>1, <1>6, <2>1, <2>2, <2>3 DEF OnItsWay, sum
  <2>5. QED BY <1>4, <1>8, <2>1, <2>4, OneCheck DEF WayInv, TypeOK
<1>9. QED BY <1>7, <1>8

LEMMA WayInvNext == ASSUME WayInv, ProbesNext PROVE WayInv'
<1>d. directory \in {"none", "listed", "empty"} BY DEF WayInv, TypeOK
<1>k. ASSUME NEW c \in Checks, Started(c)
      PROVE  /\ check[c] \in CheckState /\ check[c].monitor \in Targets
             /\ check[c].monitor.type \in Types
  BY <1>k, ProbesAssumption DEF WayInv, TypeOK, CheckState, Snapshot
<1>u. \A e \in Errors : Unreachable(e) \in Signal /\ ~Unreachable(e).registry
  BY SignalTypes DEF Unreachable
<1>f. ASSUME NEW m \in Targets, NEW f \in FactsOf(m)
      PROVE  Reached(f) \in Signal /\ ~Reached(f).registry
  BY FactsTypes, SignalTypes DEF Reached
<1>e. {"config", "timeout", "error", "blocked", "dns"} \subseteq Errors BY DEF Errors
<1>1. ASSUME NEW c \in Checks, NotConfigured(c) PROVE WayInv'
  BY <1>1, <1>d, <1>u, <1>e, SignalMade DEF NotConfigured, Asking
<1>2. ASSUME NEW c \in Checks, RequestFails(c) PROVE WayInv'
  <2>1. Asking(c) /\ check[c].monitor.type # "DOMAIN" /\ UNCHANGED <<directory, runs>>
    BY <1>2 DEF RequestFails
  <2>2. PICK e \in ErrorsOf(check[c].monitor.type) : Signals(c, Unreachable(e))
    BY <1>2 DEF RequestFails
  <2>3. check[c].monitor.type \in Types BY <1>k, <2>1 DEF Asking, Started
  <2>4. e \in Errors BY <2>1, <2>3, ErrorsTypes
  <2>5. QED BY <1>d, <1>u, <2>1, <2>2, <2>4, SignalMade DEF Asking
<1>3. ASSUME NEW c \in Checks, DeadlinePasses(c) \/ Answered(c) \/ MirrorAnswers(c)
      PROVE  WayInv'
  <2>1. check[c].phase \in {"asking", "mirrors"} /\ UNCHANGED <<directory, runs>>
    BY <1>3 DEF DeadlinePasses, Answered, MirrorAnswers, Asking, AtMirrors
  <2>2. check[c].monitor \in Targets BY <1>k, <2>1 DEF Started
  <2>3. \/ \E f \in FactsOf(check[c].monitor) : Signals(c, Reached(f))
        \/ \E e \in {"timeout", "dns", "error"} : Signals(c, Unreachable(e))
    BY <1>3 DEF DeadlinePasses, Answered, MirrorAnswers
  <2>4. \E s \in Signal : ~s.registry /\ Signals(c, s)
    BY <1>u, <1>f, <1>e, <2>2, <2>3
  <2>5. QED BY <1>d, <2>1, <2>4, SignalMade
<1>4. ASSUME NEW c \in Checks, Redirected(c) PROVE WayInv'
  <2>1. Asking(c) /\ check[c].monitor.type # "DOMAIN" /\ UNCHANGED <<directory, runs>>
    BY <1>4 DEF Redirected, Http
  <2>2. check[c] \in CheckState BY <1>k, <2>1 DEF Asking, Started
  <2>3. check' = [check EXCEPT ![c] = [check[c] EXCEPT !.late = check[c].late, !.hop = @ + 1]]
    BY <1>4, <2>2 DEF Redirected, CheckState
  <2>4. check[c].late \in BOOLEAN BY <2>2 DEF CheckState
  <2>5. QED BY <2>1, <2>3, <2>4, HopMade DEF Asking
<1>5. ASSUME NEW c \in Checks, FindsRegistry(c) PROVE WayInv'
  <2>1. /\ check[c].phase = "asking" /\ check[c].monitor.type = "DOMAIN" /\ runs' = runs
        /\ directory' \in {"none", "listed", "empty"}
    BY <1>5, <1>d DEF FindsRegistry, Asking, Domain
  <2>2. CASE directory' = "empty"
    BY <1>5, <1>u, <1>e, <2>1, <2>2, SignalMade DEF FindsRegistry
  <2>3. CASE directory' # "empty"
    <3> DEFINE k == [check[c] EXCEPT !.phase = "mirrors"]
    <3>1. check[c] \in CheckState /\ OnItsWay(check[c])
      BY <2>1 DEF WayInv, TypeOK, Started
    <3>2. check' = [check EXCEPT ![c] = k] BY <1>5, <2>3 DEF FindsRegistry
    <3>3. /\ k \in CheckState /\ k.phase = "mirrors" /\ k.hop = check[c].hop
          /\ k.attempt = check[c].attempt /\ k.monitor = check[c].monitor
          /\ k.failed = check[c].failed
      BY <3>1 DEF CheckState
    <3> HIDE DEF k
    <3>4. k.hop < Mirrors BY <2>1, <3>1, <3>3, ProbesAssumption DEF OnItsWay
    <3>5. OnItsWay(k) BY <2>1, <3>1, <3>3, <3>4 DEF OnItsWay
    <3>6. QED BY <2>1, <3>2, <3>3, <3>5, OneCheck DEF WayInv, TypeOK
  <2>4. QED BY <2>2, <2>3
<1>6. ASSUME NEW c \in Checks, DirectoryFails(c) PROVE WayInv'
  BY <1>6, <1>d, <1>u, <1>e, SignalMade DEF DirectoryFails, Asking
<1>7. ASSUME NEW c \in Checks, MirrorFails(c) PROVE WayInv'
  <2>1. /\ check[c].phase = "mirrors" /\ check[c] \in CheckState
        /\ UNCHANGED <<directory, runs>>
    BY <1>7, <1>k DEF MirrorFails, AtMirrors, Started
  <2>2. check[c].late \in BOOLEAN /\ check[c].hop \in Nat /\ Mirrors \in Nat
    BY <2>1, ProbesAssumption DEF CheckState
  <2>3. CASE check[c].hop + 1 < Mirrors
    <3>1. check' = [check EXCEPT ![c] = [check[c] EXCEPT !.late = check[c].late, !.hop = @ + 1]]
      BY <1>7, <2>1, <2>3 DEF MirrorFails, CheckState
    <3>2. QED BY <2>1, <2>2, <2>3, <3>1, HopMade
  <2>4. CASE ~(check[c].hop + 1 < Mirrors)
    <3>1. PICK e \in {"timeout", "error", "blocked"} :
            check' = [check EXCEPT ![c].signal = RegistryDown(e), ![c].phase = "classify",
                                   ![c].hop = @ + 1]
      BY <1>7, <2>4 DEF MirrorFails
    <3>2. check' = [check EXCEPT ![c] = [check[c] EXCEPT !.late = check[c].late, !.hop = @ + 1,
                                           !.phase = "classify", !.signal = RegistryDown(e)]]
      BY <2>1, <3>1 DEF CheckState, WayInv, TypeOK
    <3>3. check[c].hop + 1 >= Mirrors BY <2>2, <2>4
    <3>4. QED BY <1>e, <2>1, <2>2, <3>2, <3>3, RegistryBlamed
  <2>5. QED BY <2>3, <2>4
<1>8. ASSUME NEW c \in Checks, RegistryIsLate(c) PROVE WayInv'
  <2>1. /\ check[c].phase = "mirrors" /\ check[c] \in CheckState
        /\ UNCHANGED <<directory, runs>>
    BY <1>8, <1>k DEF RegistryIsLate, AtMirrors, Started
  <2>2. check[c].hop \in Nat /\ Mirrors \in Nat BY <2>1, ProbesAssumption DEF CheckState
  <2>3. CASE check[c].hop + 1 < Mirrors
    BY <1>8, <2>1, <2>3, HopMade DEF RegistryIsLate
  <2>4. CASE ~(check[c].hop + 1 < Mirrors)
    <3>1. check[c].hop + 1 >= Mirrors BY <2>2, <2>4
    <3>2. QED BY <1>8, <1>e, <2>1, <2>4, <3>1, RegistryBlamed DEF RegistryIsLate
  <2>5. QED BY <2>3, <2>4
<1>9. CASE DirectoryExpires
  BY <1>9 DEF DirectoryExpires, WayInv, TypeOK, Started
<1>10. QED
  BY <1>1, <1>2, <1>3, <1>4, <1>5, <1>6, <1>7, <1>8, <1>9, CheckStarts, AttemptJudged
  DEF ProbesNext, Step

\* A failure is reported only after every attempt failed, and a registry blamed only
\* after each of its servers failed the attempt, whatever checks run beside it, whenever
\* the deadline falls and however often a page redirects (executeCheck, domainProbe).
THEOREM AlarmUnanimous == ProbesSpec => []AlarmIsUnanimous
<1>1. ASSUME ProbesInit PROVE WayInv
  <2>1. PICK m : check = [c \in Checks |-> [Fresh(m) EXCEPT !.phase = "idle"]]
    BY <1>1 DEF ProbesInit
  <2>2. \A c \in Checks : ~Started(c) BY <2>1 DEF Started, Fresh
  <2>3. check = [c \in Checks |-> check[c]] BY <2>1
  <2>4. QED BY <1>1, <2>2, <2>3 DEF ProbesInit, WayInv, TypeOK
<1>2. WayInv /\ UNCHANGED pvars => WayInv' BY DEF pvars, WayInv, TypeOK, Started
<1>3. WayInv /\ [ProbesNext]_pvars => WayInv' BY <1>2, WayInvNext
<1>4. WayInv => AlarmIsUnanimous
  <2>1. ASSUME WayInv, NEW c \in Checks, Started(c)
        PROVE  /\ check[c].phase = "done" /\ ~IsSuccess(check[c].status) =>
                    check[c].failed = check[c].monitor.retries + 1
               /\ check[c].phase \in {"classify", "done"} /\ check[c].signal.registry =>
                    check[c].hop = Mirrors
    BY <2>1 DEF WayInv, OnItsWay
  <2>2. QED BY <2>1 DEF AlarmIsUnanimous, Started
<1>5. QED BY <1>1, <1>3, <1>4, PTL DEF ProbesSpec


-----------------------------------------------------------------------------
(* The configuration of the monitors.  Of a monitor no two requests ran at *)
(* together one request knows all: that the target it is going to write    *)
(* fits, and that it cleared the assertions before it adds its own.        *)

Targeted == {"type", "url", "host"}

(* The statements a request may have left. *)
Full          == <<"clearAssertions", "addAssertions", "clearChannels", "addChannels", "write">>
FullRest      == <<"addAssertions", "clearChannels", "addChannels", "write">>
Asserting     == <<"clearAssertions", "addAssertions", "write">>
AssertingRest == <<"addAssertions", "write">>
Binding       == <<"clearChannels", "addChannels", "write">>
BindingRest   == <<"addChannels", "write">>
Closing       == <<"write">>
Setting       == <<"clearChannels", "addChannels">>
SettingRest   == <<"addChannels">>
Pausing       == <<"pause">>
Resuming      == <<"resume">>

\* Those that end in a write of the row, and those that leave its configuration alone.
Writing == {Full, FullRest, Asserting, AssertingRest, Binding, BindingRest, Closing}
Sparing == {Setting, SettingRest, Pausing, Resuming}

Known(m) == monitor[m] # Absent

RowOK(m) ==
  /\ Known(m) => /\ monitor[m] = [is |-> monitor[m].is, state |-> monitor[m].state,
                                  config |-> monitor[m].config]
                 /\ Targeted \subseteq DOMAIN monitor[m].config

Running(q) == request[q].stage = "run"

RequestOK(q) ==
  Running(q) =>
    /\ request[q] = [stage |-> "run", of |-> request[q].of, todo |-> request[q].todo,
                     body |-> request[q].body]
    /\ request[q].of \in Monitor /\ Known(request[q].of)
    /\ request[q].todo \in Writing \cup Sparing

ConfigTypeOK ==
  /\ monitor = [m \in Monitor |-> monitor[m]] /\ \A m \in Monitor : RowOK(m)
  /\ request = [q \in Request |-> request[q]] /\ \A q \in Request : RequestOK(q)
  /\ \A r \in assertions : r.of \in Monitor /\ Known(r.of)

SameAuthor(m) == \A a, b \in assertions : a.of = m /\ b.of = m => a.by = b.by

\* What the request q at work on m counts on.
Prepared(q, m) ==
  /\ Head(request[q].todo) = "addAssertions" => \A a \in assertions : a.of # m
  /\ request[q].todo \notin Sparing =>
       validateTargetFields(Merged(ScalarsOf(request[q].body), monitor[m].config))

Coherent(m) ==
  /\ \A p, q \in Request : Busy(p, m) /\ Busy(q, m) => p = q
  /\ TargetFits(m) /\ SameAuthor(m)
  /\ \A q \in Request : Busy(q, m) => Prepared(q, m)

ConfigInv ==
  /\ ConfigTypeOK
  /\ \A m \in Monitor \ overlapped : Known(m) => Coherent(m)

\* A target is checked by its type, its URL and its host alone.
LEMMA SameTarget ==
  ASSUME NEW c, NEW d, \A f \in Targeted : c[f] = d[f],
         validateTargetFields(c)
  PROVE  validateTargetFields(d)
<1>1. c["type"] = d["type"] /\ c["url"] = d["url"] /\ c["host"] = d["host"]
  BY DEF Targeted
<1>2. QED
  BY <1>1, Zenon DEF validateTargetFields

LEMMA MergedTarget ==
  ASSUME NEW u, NEW c, Targeted \subseteq DOMAIN c
  PROVE  /\ Targeted \subseteq DOMAIN Merged(ScalarsOf(u), c)
         /\ \A f \in Targeted : Merged(u, c)[f] = Merged(ScalarsOf(u), c)[f]
BY DEF Targeted, Scalar, ScalarsOf, Merged

\* Their lengths, their heads and what follows.
LEMMA StatementLists ==
  /\ Len(Full) = 5 /\ Head(Full) = "clearAssertions" /\ Tail(Full) = FullRest
  /\ Len(FullRest) = 4 /\ Head(FullRest) = "addAssertions" /\ Tail(FullRest) = Binding
  /\ Len(Asserting) = 3 /\ Head(Asserting) = "clearAssertions" /\ Tail(Asserting) = AssertingRest
  /\ Len(AssertingRest) = 2 /\ Head(AssertingRest) = "addAssertions" /\ Tail(AssertingRest) = Closing
  /\ Len(Binding) = 3 /\ Head(Binding) = "clearChannels" /\ Tail(Binding) = BindingRest
  /\ Len(BindingRest) = 2 /\ Head(BindingRest) = "addChannels" /\ Tail(BindingRest) = Closing
  /\ Len(Closing) = 1 /\ Head(Closing) = "write"
  /\ Len(Setting) = 2 /\ Head(Setting) = "clearChannels" /\ Tail(Setting) = SettingRest
  /\ Len(SettingRest) = 1 /\ Head(SettingRest) = "addChannels"
  /\ Len(Pausing) = 1 /\ Head(Pausing) = "pause"
  /\ Len(Resuming) = 1 /\ Head(Resuming) = "resume"
<1>1. Len(Full) = 5 /\ Head(Full) = "clearAssertions" /\ Tail(Full) = FullRest
  BY DEF Full, FullRest
<1>2. Len(FullRest) = 4 /\ Head(FullRest) = "addAssertions" /\ Tail(FullRest) = Binding
  BY DEF FullRest, Binding
<1>3. Len(Asserting) = 3 /\ Head(Asserting) = "clearAssertions" /\ Tail(Asserting) = AssertingRest
  BY DEF Asserting, AssertingRest
<1>4. Len(AssertingRest) = 2 /\ Head(AssertingRest) = "addAssertions" /\ Tail(AssertingRest) = Closing
  BY DEF AssertingRest, Closing
<1>5. Len(Binding) = 3 /\ Head(Binding) = "clearChannels" /\ Tail(Binding) = BindingRest
  BY DEF Binding, BindingRest
<1>6. Len(BindingRest) = 2 /\ Head(BindingRest) = "addChannels" /\ Tail(BindingRest) = Closing
  BY DEF BindingRest, Closing
<1>7. Len(Closing) = 1 /\ Head(Closing) = "write"
  BY DEF Closing
<1>8. Len(Setting) = 2 /\ Head(Setting) = "clearChannels" /\ Tail(Setting) = SettingRest
  BY DEF Setting, SettingRest
<1>9. Len(SettingRest) = 1 /\ Head(SettingRest) = "addChannels"
  BY DEF SettingRest
<1>10. Len(Pausing) = 1 /\ Head(Pausing) = "pause"
  BY DEF Pausing
<1>11. Len(Resuming) = 1 /\ Head(Resuming) = "resume"
  BY DEF Resuming
<1>12. QED
  BY <1>1, <1>2, <1>3, <1>4, <1>5, <1>6, <1>7, <1>8, <1>9, <1>10, <1>11

\* What is left of the statements when one was run.
LEMMA NextStatements ==
  ASSUME NEW todo \in Writing \cup Sparing
  PROVE  /\ Head(todo) = "write" => Len(todo) = 1
         /\ Head(todo) = "write" => todo \notin Sparing
         /\ Len(todo) # 1 => /\ Tail(todo) \in Writing \cup Sparing
                             /\ todo \in Sparing => Tail(todo) \in Sparing
                             /\ Head(Tail(todo)) = "addAssertions" => Head(todo) = "clearAssertions"
<1>1. todo \in Sparing => Head(todo) # "write"
  BY StatementLists DEF Sparing
<1>2. CASE todo \in Writing
  <2>1. Len(todo) # 1 => Tail(todo) \in Writing
    BY <1>2, StatementLists DEF Writing
  <2>2. Head(todo) = "write" => Len(todo) = 1
    BY <1>2, StatementLists DEF Writing
  <2>3. Len(todo) # 1 => (Head(Tail(todo)) = "addAssertions" => Head(todo) = "clearAssertions")
    BY <1>2, StatementLists DEF Writing
  <2>4. todo \in Sparing /\ Len(todo) # 1 => Tail(todo) \in Sparing
    BY StatementLists DEF Sparing
  <2>5. QED
    BY <1>1, <2>1, <2>2, <2>3, <2>4
<1>3. CASE todo \in Sparing
  BY <1>3, StatementLists DEF Sparing
<1>4. QED
  BY <1>2, <1>3

\* What a request starts with.
LEMMA FirstStatements ==
  /\ \A u : Statements(u) \in Writing /\ Head(Statements(u)) # "addAssertions"
  /\ Setting \in Sparing /\ Head(Setting) # "addAssertions"
  /\ \A s \in {"pause", "resume"} : <<s>> \in Sparing /\ Head(<<s>>) # "addAssertions"
<1>1. ASSUME NEW u PROVE Statements(u) \in Writing /\ Head(Statements(u)) # "addAssertions"
  <2>1. Statements(u) \in {Full, Asserting, Binding, Closing}
    BY DEF Statements, Full, Asserting, Binding, Closing
  <2>2. QED
    BY <2>1, StatementLists DEF Writing
<1>2. Setting \in Sparing /\ Head(Setting) # "addAssertions"
  BY StatementLists DEF Sparing
<1>3. {Pausing, Resuming} \subseteq Sparing
  BY StatementLists DEF Sparing
<1>4. \A s \in {"pause", "resume"} : <<s>> \in {Pausing, Resuming}
  BY DEF Pausing, Resuming
<1>5. QED
  BY <1>1, <1>2, <1>3, <1>4, StatementLists


\* A row that is made anew.
LEMMA NewRow ==
  ASSUME NEW c \in Config, validateTargetFields(c)
  PROVE  /\ ActiveRow(c) # Absent
         /\ ActiveRow(c) = [is |-> ActiveRow(c).is, state |-> ActiveRow(c).state,
                            config |-> ActiveRow(c).config]
         /\ Targeted \subseteq DOMAIN ActiveRow(c).config
         /\ validateTargetFields(ActiveRow(c).config)
<1>1. Targeted \subseteq DOMAIN c \cap Scalar
  BY ConfigAssumption DEF Targeted, Scalar
<1>2. DOMAIN ScalarsOf(c) = DOMAIN c \cap Scalar /\ \A f \in Targeted : ScalarsOf(c)[f] = c[f]
  BY <1>1 DEF ScalarsOf
<1>3. validateTargetFields(ScalarsOf(c))
  BY <1>2, SameTarget
<1>4. ActiveRow(c).is = "live" /\ Absent.is = "none" /\ ActiveRow(c).config = ScalarsOf(c)
  BY DEF ActiveRow, Absent
<1>5. ActiveRow(c) = [is |-> ActiveRow(c).is, state |-> ActiveRow(c).state, config |-> ActiveRow(c).config]
  BY DEF ActiveRow
<1>6. QED
  BY <1>1, <1>2, <1>3, <1>4, <1>5

LEMMA ConfigInvInit == ASSUME ConfigInit PROVE ConfigInv
<1>1. ASSUME NEW m \in Monitor
      PROVE  /\ monitor[m] \in {Absent} \cup {ActiveRow(c) : c \in {d \in Config : validateTargetFields(d)}}
             /\ RowOK(m) /\ (Known(m) => TargetFits(m))
  <2>1. monitor[m] \in {Absent} \cup {ActiveRow(c) : c \in {d \in Config : validateTargetFields(d)}}
    BY DEF ConfigInit
  <2>2. CASE monitor[m] = Absent
    BY <2>1, <2>2 DEF RowOK, Known
  <2>3. ASSUME NEW c \in Config, validateTargetFields(c), monitor[m] = ActiveRow(c)
        PROVE  RowOK(m) /\ TargetFits(m)
    <3>1. /\ monitor[m] = [is |-> monitor[m].is, state |-> monitor[m].state, config |-> monitor[m].config]
          /\ Targeted \subseteq DOMAIN monitor[m].config /\ validateTargetFields(monitor[m].config)
      BY <2>3, NewRow, Zenon
    <3>2. QED
      BY <3>1, Zenon DEF RowOK, TargetFits
  <2>4. QED
    BY <2>1, <2>2, <2>3
<1>2. ConfigTypeOK
  BY <1>1 DEF ConfigInit, ConfigTypeOK, RequestOK, Running, Unmade
<1>3. \A m : SameAuthor(m) /\ \A q \in Request : ~Busy(q, m)
  BY DEF ConfigInit, SameAuthor, Busy, Unmade
<1>4. QED
  BY <1>1, <1>2, <1>3 DEF ConfigInv, Coherent


\* A request that came to its end, or was refused.
LEMMA RequestOver ==
  ASSUME ConfigInv, NEW q \in Request, request' = [request EXCEPT ![q] = Over],
         UNCHANGED <<monitor, assertions, overlapped>>
  PROVE  ConfigInv'
<1>1. \A p \in Request : Running(p)' => Running(p) /\ request'[p] = request[p]
  BY DEF ConfigInv, ConfigTypeOK, Running, Over
<1>2. \A p \in Request, m \in Monitor : Busy(p, m)' => Busy(p, m) /\ request'[p] = request[p]
  BY <1>1 DEF Busy, Running
<1>3. request' = [p \in Request |-> request'[p]]
  BY DEF ConfigInv, ConfigTypeOK
<1>4. \A m : (Known(m) <=> Known(m)') /\ (RowOK(m) => RowOK(m)')
  BY DEF Known, RowOK
<1>5. \A p \in Request : RequestOK(p)'
  <2> TAKE p \in Request
  <2>1. RequestOK(p)
    BY DEF ConfigInv, ConfigTypeOK
  <2>2. QED
    BY <1>1, <1>4, <2>1 DEF RequestOK, Running
<1>6. ConfigTypeOK'
  BY <1>3, <1>4, <1>5 DEF ConfigInv, ConfigTypeOK
<1>7. ASSUME NEW m \in Monitor \ overlapped, Known(m) PROVE Coherent(m)'
  <2>1. Coherent(m)
    BY <1>7 DEF ConfigInv
  <2>2. \A p, r \in Request : Busy(p, m)' /\ Busy(r, m)' => p = r
    BY <1>2, <2>1 DEF Coherent
  <2>3. TargetFits(m)' /\ SameAuthor(m)'
    BY <2>1 DEF Coherent, TargetFits, SameAuthor
  <2>4. \A p \in Request : Busy(p, m)' => Prepared(p, m)'
    BY <1>2, <2>1 DEF Coherent, Prepared
  <2>5. QED
    BY <2>2, <2>3, <2>4 DEF Coherent
<1>8. QED
  BY <1>4, <1>6, <1>7 DEF ConfigInv

\* One that goes on to run its statements.
LEMMA RequestRuns ==
  ASSUME ConfigInv, NEW q \in Request, NEW m \in Live, NEW todo, NEW body, Runs(q, m, todo, body),
         todo \in Writing \cup Sparing, Head(todo) # "addAssertions",
         todo \notin Sparing => validateTargetFields(Merged(ScalarsOf(body), monitor[m].config))
  PROVE  ConfigInv'
<1> DEFINE run == [stage |-> "run", of |-> m, todo |-> todo, body |-> body]
<1>1. /\ request' = [request EXCEPT ![q] = run] /\ UNCHANGED <<monitor, assertions>>
      /\ overlapped' = IF \E p \in Request : Busy(p, m) THEN overlapped \cup {m} ELSE overlapped
  BY DEF Runs
<1>2. /\ run.stage = "run" /\ run.of = m /\ run.todo = todo /\ run.body = body
      /\ run = [stage |-> "run", of |-> run.of, todo |-> run.todo, body |-> run.body]
  OBVIOUS
<1> HIDE DEF run
<1>3. request'[q] = run /\ \A p \in Request : p # q => request'[p] = request[p]
  BY <1>1 DEF ConfigInv, ConfigTypeOK
<1>4. m \in Monitor /\ Known(m)
  BY DEF Live, Known, Absent
<1>5. \A n : (Known(n) <=> Known(n)') /\ (RowOK(n) => RowOK(n)')
  BY <1>1 DEF Known, RowOK
<1>6. \A p \in Request : RequestOK(p)'
  <2> TAKE p \in Request
  <2>1. CASE p = q
    BY <1>2, <1>3, <1>4, <1>5, <2>1 DEF RequestOK
  <2>2. CASE p # q
    <3>1. RequestOK(p)
      BY DEF ConfigInv, ConfigTypeOK
    <3>2. QED
      BY <1>3, <1>5, <2>2, <3>1 DEF RequestOK, Running
  <2>3. QED
    BY <2>1, <2>2
<1>7. request' = [p \in Request |-> request'[p]]
  BY <1>1 DEF ConfigInv, ConfigTypeOK
<1>8. ConfigTypeOK'
  BY <1>1, <1>5, <1>6, <1>7 DEF ConfigInv, ConfigTypeOK
<1>9. ASSUME NEW n \in Monitor, n \notin overlapped', Known(n) PROVE Coherent(n)'
  <2>1. n \notin overlapped /\ Coherent(n)
    BY <1>1, <1>9 DEF ConfigInv
  <2>2. TargetFits(n)' /\ SameAuthor(n)'
    BY <1>1, <2>1 DEF Coherent, TargetFits, SameAuthor
  <2>3. \A p \in Request : p # q /\ Busy(p, n)' => Busy(p, n) /\ Prepared(p, n)'
    BY <1>1, <1>3, <2>1 DEF Coherent, Busy, Prepared
  <2>4. CASE n = m
    <3>1. \A p \in Request : ~Busy(p, m)
      BY <1>1, <1>9, <2>4
    <3>2. Prepared(q, m)'
      BY <1>1, <1>2, <1>3 DEF Prepared
    <3>3. QED
      BY <2>2, <2>3, <2>4, <3>1, <3>2 DEF Coherent
  <2>5. CASE n # m
    <3>1. ~Busy(q, n)'
      BY <1>2, <1>3, <2>5 DEF Busy
    <3>2. QED
      BY <2>1, <2>2, <2>3, <3>1 DEF Coherent
  <2>6. QED
    BY <2>4, <2>5
<1>10. QED
  BY <1>5, <1>8, <1>9 DEF ConfigInv

LEMMA CreateStep ==
  ASSUME ConfigInv, NEW q \in Request, NEW m \in Monitor, Create(q, m) PROVE ConfigInv'
<1>1. request[q] = Unmade /\ ~Known(m)
  BY DEF Create, Known
<1>2. PICK c \in Config :
        IF validateTargetFields(c) /\ ReferencesOwned(c)
          THEN /\ monitor' = [monitor EXCEPT ![m] = ActiveRow(c)]
               /\ assertions' = assertions \cup AssertionRows(m, q, c)
               /\ bindings' = bindings \cup ({m} \X c["channels"])
               /\ request' = [request EXCEPT ![q] = Over]
               /\ UNCHANGED overlapped
          ELSE Refused(q)
  BY DEF Create
<1>3. CASE ~(validateTargetFields(c) /\ ReferencesOwned(c))
  BY <1>2, <1>3, RequestOver DEF Refused
<1>4. CASE validateTargetFields(c) /\ ReferencesOwned(c)
  <2>1. /\ monitor' = [monitor EXCEPT ![m] = ActiveRow(c)] /\ request' = [request EXCEPT ![q] = Over]
        /\ assertions' = assertions \cup AssertionRows(m, q, c) /\ overlapped' = overlapped
    BY <1>2, <1>4
  <2>2. /\ monitor'[m] = ActiveRow(c) /\ \A n \in Monitor : n # m => monitor'[n] = monitor[n]
        /\ monitor' = [n \in Monitor |-> monitor'[n]] /\ request' = [p \in Request |-> request'[p]]
    BY <2>1 DEF ConfigInv, ConfigTypeOK
  <2>3. Known(m)' /\ RowOK(m)' /\ TargetFits(m)'
    <3>1. /\ monitor'[m] # Absent /\ Targeted \subseteq DOMAIN monitor'[m].config
          /\ monitor'[m] = [is |-> monitor'[m].is, state |-> monitor'[m].state,
                            config |-> monitor'[m].config]
          /\ validateTargetFields(monitor'[m].config)
      BY <1>4, <2>2, NewRow, Zenon
    <3>2. QED
      BY <3>1, Zenon DEF Known, RowOK, TargetFits
  <2>4. \A n \in Monitor : n # m => (Known(n)' <=> Known(n)) /\ (RowOK(n) => RowOK(n)')
    BY <2>2 DEF Known, RowOK
  <2>5. \A p \in Request : Running(p)' => Running(p) /\ request'[p] = request[p] /\ request[p].of # m
    BY <1>1, <2>1 DEF ConfigInv, ConfigTypeOK, RequestOK, Running, Over
  <2>6. \A p \in Request : RequestOK(p)'
    <3> TAKE p \in Request
    <3>1. RequestOK(p)
      BY DEF ConfigInv, ConfigTypeOK
    <3>2. QED
      BY <2>4, <2>5, <3>1 DEF RequestOK, Running
  <2>7. \A r \in assertions : r.of \in Monitor /\ r.of # m /\ Known(r.of)'
    BY <1>1, <2>4 DEF ConfigInv, ConfigTypeOK
  <2>8. \A r \in AssertionRows(m, q, c) : r.of = m /\ r.by = q
    BY DEF AssertionRows
  <2>9. ConfigTypeOK'
    BY <2>1, <2>2, <2>3, <2>4, <2>6, <2>7, <2>8 DEF ConfigInv, ConfigTypeOK
  <2>10. ASSUME NEW n \in Monitor, n \notin overlapped, Known(n)' PROVE Coherent(n)'
    <3>1. CASE n = m
      <4>1. \A p \in Request : ~Busy(p, m)'
        BY <2>5 DEF Busy, Running
      <4>2. SameAuthor(m)'
        BY <2>1, <2>7, <2>8 DEF SameAuthor
      <4>3. QED
        BY <2>3, <3>1, <4>1, <4>2 DEF Coherent
    <3>2. CASE n # m
      <4>1. Coherent(n)
        BY <2>4, <2>10, <3>2 DEF ConfigInv
      <4>2. \A p \in Request : Busy(p, n)' => Busy(p, n) /\ request'[p] = request[p]
        BY <2>5 DEF Busy, Running
      <4>3. \A r \in assertions' : r.of = n => r \in assertions
        BY <2>1, <2>8, <3>2
      <4>4. TargetFits(n)' /\ SameAuthor(n)'
        BY <2>2, <3>2, <4>1, <4>3 DEF Coherent, TargetFits, SameAuthor
      <4>5. \A p \in Request : Busy(p, n)' => Prepared(p, n)'
        BY <2>2, <3>2, <4>1, <4>2, <4>3 DEF Coherent, Prepared
      <4>6. QED
        BY <4>1, <4>2, <4>4, <4>5 DEF Coherent
    <3>3. QED
      BY <3>1, <3>2
  <2>11. QED
    BY <2>1, <2>9, <2>10 DEF ConfigInv
<1>5. QED
  BY <1>3, <1>4


\* A row whose target stays what it was, as when a monitor is removed.
LEMMA RemoveMonitorStep ==
  ASSUME ConfigInv, NEW q \in Request, NEW m \in Monitor, RemoveMonitor(q, m) PROVE ConfigInv'
<1>1. /\ monitor' = [monitor EXCEPT ![m].is = "deleted"]
      /\ request[q] = Unmade /\ request' = [request EXCEPT ![q] = Over]
      /\ UNCHANGED <<assertions, overlapped>> /\ m \in Live
  BY DEF RemoveMonitor
<1>2. /\ \A n \in Monitor : n # m => monitor'[n] = monitor[n]
      /\ monitor'[m] = [monitor[m] EXCEPT !.is = "deleted"]
      /\ monitor' = [n \in Monitor |-> monitor'[n]]
      /\ request' = [p \in Request |-> request'[p]]
  BY <1>1 DEF ConfigInv, ConfigTypeOK
<1>3. Known(m) /\ RowOK(m)
  BY <1>1 DEF ConfigInv, ConfigTypeOK, Live, Known, Absent
<1>4. /\ monitor'[m].is = "deleted" /\ monitor'[m].config = monitor[m].config
      /\ monitor'[m] = [is |-> monitor'[m].is, state |-> monitor'[m].state,
                        config |-> monitor'[m].config]
  BY <1>2, <1>3 DEF RowOK
<1>5. Known(m)' /\ RowOK(m)'
  BY <1>3, <1>4 DEF Known, RowOK, Absent
<1>6. \A n \in Monitor : /\ Known(n)' <=> Known(n)
                         /\ RowOK(n)'
                         /\ Known(n) => monitor'[n].config = monitor[n].config
  BY <1>2, <1>3, <1>4, <1>5 DEF ConfigInv, ConfigTypeOK, Known, RowOK
<1>7. \A p \in Request : Running(p)' => Running(p) /\ request'[p] = request[p]
  BY <1>1 DEF ConfigInv, ConfigTypeOK, Running, Over
<1>8. \A p \in Request : RequestOK(p)'
  <2> TAKE p \in Request
  <2>1. RequestOK(p)
    BY DEF ConfigInv, ConfigTypeOK
  <2>2. QED
    BY <1>6, <1>7, <2>1 DEF RequestOK, Running
<1>9. ConfigTypeOK'
  BY <1>1, <1>2, <1>6, <1>8 DEF ConfigInv, ConfigTypeOK
<1>10. ASSUME NEW n \in Monitor, n \notin overlapped, Known(n) PROVE Coherent(n)'
  <2>1. Coherent(n) /\ monitor'[n].config = monitor[n].config
    BY <1>6, <1>10 DEF ConfigInv
  <2>2. \A p \in Request : Busy(p, n)' => Busy(p, n) /\ request'[p] = request[p]
    BY <1>7 DEF Busy, Running
  <2>3. TargetFits(n)' /\ SameAuthor(n)'
    BY <1>1, <2>1 DEF Coherent, TargetFits, SameAuthor
  <2>4. \A p \in Request : Busy(p, n)' => Prepared(p, n)'
    BY <1>1, <2>1, <2>2 DEF Coherent, Prepared
  <2>5. QED
    BY <2>1, <2>2, <2>3, <2>4 DEF Coherent
<1>11. QED
  BY <1>1, <1>6, <1>9, <1>10 DEF ConfigInv

\* What a statement leaves of the row and of the assertions.
LEMMA StatementRuns ==
  ASSUME ConfigInv, NEW q \in Request, RunStatement(q),
         NEW m, m = request[q].of, NEW s, s = Head(request[q].todo)
  PROVE  /\ Known(m)' /\ RowOK(m)' /\ \A n \in Monitor : n # m => monitor'[n] = monitor[n]
         /\ monitor' = [n \in Monitor |-> monitor'[n]]
         /\ s # "write" => monitor'[m].config = monitor[m].config
         /\ s = "write" => monitor'[m].config = Merged(ScalarsOf(request[q].body), monitor[m].config)
         /\ assertions' = CASE s = "clearAssertions" -> {r \in assertions : r.of # m}
                            [] s = "addAssertions" -> assertions \cup AssertionRows(m, q, request[q].body)
                            [] OTHER -> assertions
<1>1. m \in Monitor /\ Known(m) /\ RowOK(m) /\ RequestOK(q) /\ Running(q)
  BY DEF ConfigInv, ConfigTypeOK, RequestOK, RunStatement, Running
<1>2. \/ s \in {"clearAssertions", "clearChannels"} /\ Clear(m, s) /\ UNCHANGED monitor
      \/ s \in {"addAssertions", "addChannels"} /\ Add(q, m, s) /\ UNCHANGED monitor
      \/ s \in {"write", "pause", "resume"} /\ WriteStatement(q, m, s) /\ UNCHANGED <<assertions, bindings>>
  BY DEF RunStatement
<1> DEFINE merged == Merged(ScalarsOf(request[q].body), monitor[m].config)
<1>3. assertions' = CASE s = "clearAssertions" -> {r \in assertions : r.of # m}
                      [] s = "addAssertions" -> assertions \cup AssertionRows(m, q, request[q].body)
                      [] OTHER -> assertions
  BY <1>2 DEF Clear, Add
<1>4. \/ UNCHANGED monitor /\ s \notin {"write", "pause", "resume"}
      \/ s = "pause" /\ monitor' = [monitor EXCEPT ![m] = [@ EXCEPT !.state = "PAUSED"]]
      \/ s = "resume" /\ monitor' = [monitor EXCEPT ![m] = [@ EXCEPT !.state = "ACTIVE"]]
      \/ s = "write" /\ monitor' = [monitor EXCEPT ![m] = [@ EXCEPT !.config = merged]]
  <2>1. CASE s = "pause"
    BY <1>2, <2>1 DEF WriteStatement
  <2>2. CASE s = "resume"
    BY <1>2, <2>2 DEF WriteStatement
  <2>3. CASE s = "write"
    <3>1. WriteStatement(q, m, s)
      BY <1>2, <2>3
    <3>2. QED
      BY <2>3, <3>1 DEF WriteStatement
  <2>4. CASE s \notin {"write", "pause", "resume"}
    BY <1>2, <2>4
  <2>5. QED
    BY <2>1, <2>2, <2>3, <2>4
<1>5. Targeted \subseteq DOMAIN merged
  BY <1>1, MergedTarget DEF RowOK
<1> HIDE DEF merged
<1>6. /\ \A n \in Monitor : n # m => monitor'[n] = monitor[n]
      /\ monitor' = [n \in Monitor |-> monitor'[n]]
      /\ \/ monitor'[m] = monitor[m] /\ s \notin {"write", "pause", "resume"}
         \/ s = "pause" /\ monitor'[m] = [monitor[m] EXCEPT !.state = "PAUSED"]
         \/ s = "resume" /\ monitor'[m] = [monitor[m] EXCEPT !.state = "ACTIVE"]
         \/ s = "write" /\ monitor'[m] = [monitor[m] EXCEPT !.config = merged]
  BY <1>1, <1>4 DEF ConfigInv, ConfigTypeOK
<1> DEFINE old == monitor[m]
           new == monitor'[m]
<1>7. /\ old # Absent /\ old = [is |-> old.is, state |-> old.state, config |-> old.config]
      /\ Targeted \subseteq DOMAIN old.config
  BY <1>1 DEF RowOK, Known
<1>8. /\ new.is = old.is /\ new = [is |-> new.is, state |-> new.state, config |-> new.config]
      /\ s # "write" => new.config = old.config
      /\ s = "write" => new.config = merged
  <2>1. CASE s = "write"
    BY <1>6, <1>7, <2>1
  <2>2. CASE s # "write"
    BY <1>6, <1>7, <2>2
  <2>3. QED
    BY <2>1, <2>2
<1>9. new # Absent
  <2>1. DOMAIN new = {"is", "state", "config"}
    BY <1>8
  <2>2. DOMAIN Absent = {"is"}
    BY DEF Absent
  <2>3. QED
    BY <2>1, <2>2
<1>10. Known(m)' /\ RowOK(m)'
  <2>1. Targeted \subseteq DOMAIN new.config
    BY <1>5, <1>7, <1>8
  <2>2. QED
    BY <1>8, <1>9, <2>1 DEF Known, RowOK
<1>11. QED
  BY <1>3, <1>6, <1>8, <1>10 DEF merged


LEMMA RunStatementStep == ASSUME ConfigInv, NEW q \in Request, RunStatement(q) PROVE ConfigInv'
<1>0. PICK m, todo, body, s : /\ m = request[q].of /\ todo = request[q].todo
                               /\ body = request[q].body /\ s = Head(request[q].todo)
  OBVIOUS
<1>1. /\ RequestOK(q) /\ Running(q) /\ m \in Monitor /\ Known(m)
      /\ todo \in Writing \cup Sparing
      /\ request[q] = [stage |-> "run", of |-> m, todo |-> todo, body |-> body]
  BY <1>0 DEF ConfigInv, ConfigTypeOK, RequestOK, RunStatement, Running
<1>2. /\ Len(todo) = 1 => request' = [request EXCEPT ![q] = Over]
      /\ Len(todo) # 1 => request' = [request EXCEPT ![q].todo = Tail(request[q].todo)]
      /\ overlapped' = overlapped
  BY <1>0 DEF RunStatement
<1>3. /\ request' = [p \in Request |-> request'[p]]
      /\ \A p \in Request : p # q => request'[p] = request[p]
      /\ request'[q] = IF Len(todo) = 1 THEN Over
                       ELSE [stage |-> "run", of |-> m, todo |-> Tail(todo), body |-> body]
  <2>1. request = [p \in Request |-> request[p]]
    BY DEF ConfigInv, ConfigTypeOK
  <2>2. PICK rest : rest = Tail(todo)
    OBVIOUS
  <2>3. Len(todo) # 1 => request' = [request EXCEPT ![q].todo = rest]
    BY <1>0, <1>2, <2>2, Zenon
  <2>4. request'[q] = IF Len(todo) = 1 THEN Over
                      ELSE [stage |-> "run", of |-> m, todo |-> rest, body |-> body]
    BY <1>1, <1>2, <2>1, <2>3
  <2>5. request' = [p \in Request |-> request'[p]] /\ \A p \in Request : p # q => request'[p] = request[p]
    BY <1>2, <2>1, <2>3
  <2>6. QED
    BY <2>2, <2>4, <2>5, Zenon
<1>4. /\ s = "write" => Len(todo) = 1
      /\ s = "write" => todo \notin Sparing
      /\ Len(todo) # 1 => /\ Tail(todo) \in Writing \cup Sparing
                          /\ todo \in Sparing => Tail(todo) \in Sparing
                          /\ Head(Tail(todo)) = "addAssertions" => s = "clearAssertions"
  BY <1>0, <1>1, NextStatements
<1>5. /\ Known(m)' /\ RowOK(m)' /\ \A n \in Monitor : n # m => monitor'[n] = monitor[n]
      /\ monitor' = [n \in Monitor |-> monitor'[n]]
      /\ s # "write" => monitor'[m].config = monitor[m].config
      /\ s = "write" => monitor'[m].config = Merged(ScalarsOf(body), monitor[m].config)
      /\ assertions' = CASE s = "clearAssertions" -> {r \in assertions : r.of # m}
                         [] s = "addAssertions" -> assertions \cup AssertionRows(m, q, body)
                         [] OTHER -> assertions
  BY <1>0, StatementRuns
<1>6. Busy(q, m) /\ \A n : Busy(q, n) => n = m
  BY <1>0, <1>1 DEF Busy, Running
<1>7. \A r \in AssertionRows(m, q, body) : r.of = m /\ r.by = q
  BY DEF AssertionRows
<1>8. \A n \in Monitor : (Known(n)' <=> Known(n)) /\ RowOK(n)'
  BY <1>1, <1>5 DEF ConfigInv, ConfigTypeOK, Known, RowOK
<1>9. \A p \in Request : RequestOK(p)'
  <2> TAKE p \in Request
  <2>1. CASE p = q
    <3>1. request'[q] = Over => ~Running(q)'
      BY DEF Over, Running
    <3>2. Len(todo) # 1 => RequestOK(q)'
      BY <1>1, <1>3, <1>4, <1>8 DEF RequestOK
    <3>3. QED
      BY <1>3, <2>1, <3>1, <3>2 DEF RequestOK
  <2>2. CASE p # q
    <3>1. RequestOK(p)
      BY DEF ConfigInv, ConfigTypeOK
    <3>2. QED
      BY <1>3, <1>8, <2>2, <3>1 DEF RequestOK, Running
  <2>3. QED
    BY <2>1, <2>2
<1>10. \A r \in assertions' : r.of \in Monitor /\ Known(r.of)'
  BY <1>1, <1>5, <1>7, <1>8 DEF ConfigInv, ConfigTypeOK
<1>11. ConfigTypeOK'
  BY <1>3, <1>5, <1>8, <1>9, <1>10 DEF ConfigTypeOK
<1>12. \A p \in Request : \A n : Busy(p, n)' => Busy(p, n)
  <2>1. \A n : Busy(q, n)' => Busy(q, n)
    BY <1>3, <1>6 DEF Busy, Over
  <2>2. \A p \in Request : p # q => \A n : Busy(p, n)' => Busy(p, n)
    BY <1>3 DEF Busy
  <2>3. QED
    BY <2>1, <2>2
<1>13. ASSUME NEW n \in Monitor, n \notin overlapped, Known(n) PROVE Coherent(n)'
  <2>1. Coherent(n)
    BY <1>13 DEF ConfigInv
  <2>2. \A p, r \in Request : Busy(p, n)' /\ Busy(r, n)' => p = r
    BY <1>12, <2>1 DEF Coherent
  <2>3. CASE n # m
    <3>1. \A r : r \in assertions' /\ r.of = n <=> r \in assertions /\ r.of = n
      BY <1>5, <1>7, <2>3
    <3>2. TargetFits(n)' /\ SameAuthor(n)'
      BY <1>5, <2>1, <2>3, <3>1 DEF Coherent, TargetFits, SameAuthor
    <3>3. \A p \in Request : Busy(p, n)' => p # q /\ Prepared(p, n)
      BY <1>6, <1>12, <2>1, <2>3 DEF Coherent
    <3>4. \A p \in Request : Busy(p, n)' => Prepared(p, n)'
      BY <1>3, <1>5, <2>3, <3>1, <3>3 DEF Prepared
    <3>5. QED
      BY <2>2, <3>2, <3>4 DEF Coherent
  <2>4. CASE n = m
    <3>1. Prepared(q, m) /\ SameAuthor(m) /\ TargetFits(m)
      BY <1>6, <2>1, <2>4 DEF Coherent
    <3>2. TargetFits(m)'
      <4>1. CASE s = "write"
        <5>1. validateTargetFields(Merged(ScalarsOf(body), monitor[m].config))
          BY <1>0, <1>4, <3>1, <4>1 DEF Prepared
        <5>2. QED
          BY <1>5, <4>1, <5>1, Zenon DEF TargetFits
      <4>2. CASE s # "write"
        BY <1>5, <3>1, <4>2, Zenon DEF TargetFits
      <4>3. QED
        BY <4>1, <4>2
    <3>3. SameAuthor(m)'
      <4>1. CASE s = "addAssertions"
        <5>1. \A a \in assertions : a.of # m
          BY <1>0, <3>1, <4>1 DEF Prepared
        <5>2. assertions' = assertions \cup AssertionRows(m, q, body)
          BY <1>5, <4>1
        <5>3. QED
          BY <1>7, <5>1, <5>2 DEF SameAuthor
      <4>2. CASE s # "addAssertions"
        <5>1. assertions' \subseteq assertions
          BY <1>5, <4>2
        <5>2. QED
          BY <3>1, <5>1 DEF SameAuthor
      <4>3. QED
        BY <4>1, <4>2
    <3>4. \A p \in Request : Busy(p, m)' => p = q /\ Len(todo) # 1
      <4>1. \A p \in Request : Busy(p, m)' => p = q
        BY <1>6, <1>12, <2>1, <2>4 DEF Coherent
      <4>2. Busy(q, m)' => Len(todo) # 1
        BY <1>3 DEF Busy, Over
      <4>3. QED
        BY <4>1, <4>2
    <3>5. ASSUME Len(todo) # 1 PROVE Prepared(q, m)'
      <4>1. request'[q].todo = Tail(todo) /\ request'[q].body = body
        BY <1>3, <3>5
      <4>2. Head(Tail(todo)) = "addAssertions" => \A a \in assertions' : a.of # m
        BY <1>4, <1>5, <3>5
      <4>3. Tail(todo) \notin Sparing => validateTargetFields(Merged(ScalarsOf(body), monitor'[m].config))
        <5>1. s # "write" /\ monitor'[m].config = monitor[m].config
          BY <1>4, <1>5, <3>5
        <5>2. Tail(todo) \notin Sparing => validateTargetFields(Merged(ScalarsOf(body), monitor[m].config))
          BY <1>0, <1>4, <3>1, <3>5 DEF Prepared
        <5>3. QED
          BY <5>1, <5>2, Zenon
      <4>4. QED
        BY <4>1, <4>2, <4>3, Zenon DEF Prepared
    <3>6. QED
      BY <2>2, <2>4, <3>2, <3>3, <3>4, <3>5 DEF Coherent
  <2>5. QED
    BY <2>3, <2>4
<1>14. QED
  BY <1>2, <1>8, <1>11, <1>13 DEF ConfigInv


\* What leaves the configuration alone.
LEMMA ConfigQuiet == ASSUME ConfigInv, UNCHANGED configVars PROVE ConfigInv'
<1>1. UNCHANGED <<monitor, assertions, request, overlapped>>
  BY DEF configVars
<1>2. \A m : (Known(m)' <=> Known(m)) /\ (RowOK(m)' <=> RowOK(m))
  BY <1>1 DEF Known, RowOK
<1>3. \A q : RequestOK(q)' <=> RequestOK(q)
  BY <1>1, <1>2 DEF RequestOK, Running
<1>4. \A m : Coherent(m)' <=> Coherent(m)
  BY <1>1 DEF Coherent, Busy, TargetFits, SameAuthor, Prepared
<1>5. QED
  BY <1>1, <1>2, <1>3, <1>4 DEF ConfigInv, ConfigTypeOK

LEMMA ConfigInvNext == ASSUME ConfigInv, ConfigNext PROVE ConfigInv'
<1>1. ASSUME NEW q \in Request, NEW m \in Monitor, BeginUpdate(q, m) PROVE ConfigInv'
  <2>1. PICK u \in Update :
          IF validateTargetFields(Merged(u, monitor[m].config)) /\ ReferencesOwned(u)
            THEN Runs(q, m, Statements(u), u)
            ELSE Refused(q)
    BY <1>1 DEF BeginUpdate
  <2>2. m \in Live /\ Targeted \subseteq DOMAIN monitor[m].config
    BY <1>1 DEF BeginUpdate, Live, ConfigInv, ConfigTypeOK, RowOK, Known, Absent
  <2>3. CASE validateTargetFields(Merged(u, monitor[m].config)) /\ ReferencesOwned(u)
    <3>1. validateTargetFields(Merged(ScalarsOf(u), monitor[m].config))
      BY <2>2, <2>3, MergedTarget, SameTarget
    <3>2. Statements(u) \in Writing \cup Sparing /\ Head(Statements(u)) # "addAssertions"
      BY FirstStatements
    <3>3. Runs(q, m, Statements(u), u)
      BY <2>1, <2>3
    <3>4. QED
      BY <2>2, <3>1, <3>2, <3>3, RequestRuns
  <2>4. CASE ~(validateTargetFields(Merged(u, monitor[m].config)) /\ ReferencesOwned(u))
    <3>1. Refused(q)
      BY <2>1, <2>4
    <3>2. QED
      BY <3>1, RequestOver DEF Refused
  <2>5. QED
    BY <2>3, <2>4
<1>2. ASSUME NEW q \in Request, NEW m \in Monitor, BeginSetChannels(q, m) PROVE ConfigInv'
  <2>1. PICK u \in Update :
          IF ReferencesOwned(u) THEN Runs(q, m, <<"clearChannels", "addChannels">>, u) ELSE Refused(q)
    BY <1>2 DEF BeginSetChannels
  <2>2. m \in Live /\ Setting = <<"clearChannels", "addChannels">>
    BY <1>2 DEF BeginSetChannels, Setting
  <2>3. CASE ReferencesOwned(u)
    <3>1. Runs(q, m, Setting, u)
      BY <2>1, <2>2, <2>3
    <3>2. QED
      BY <2>2, <3>1, FirstStatements, RequestRuns
  <2>4. CASE ~ReferencesOwned(u)
    BY <2>1, <2>4, RequestOver DEF Refused
  <2>5. QED
    BY <2>3, <2>4
<1>3. ASSUME NEW q \in Request, NEW m \in Monitor, BeginSwitch(q, m) PROVE ConfigInv'
  <2>1. PICK to \in {"ACTIVE", "PAUSED"} :
          Runs(q, m, <<IF to = "ACTIVE" THEN "resume" ELSE "pause">>, << >>)
    BY <1>3 DEF BeginSwitch
  <2>2. PICK s \in {"pause", "resume"} : Runs(q, m, <<s>>, << >>)
    BY <2>1
  <2>3. m \in Live
    BY <1>3 DEF BeginSwitch
  <2>4. QED
    BY <2>2, <2>3, FirstStatements, RequestRuns
<1>4. ASSUME NEW q \in Request, Dies(q) PROVE ConfigInv'
  BY <1>4, RequestOver DEF Dies
<1>5. QED
  BY <1>1, <1>2, <1>3, <1>4, CreateStep, RemoveMonitorStep, RunStatementStep DEF ConfigNext

\* services/monitor.service.ts: however many requests change a monitor one after the
\* other, and whichever die between two of their statements, its target is what its type
\* needs and its assertions are of one request.
THEOREM ConfigStaysCoherent == SchedulerSpec => []ConfigIsCoherent
<1>1. SchedulerInit => ConfigInv
  BY ConfigInvInit DEF SchedulerInit
<1>2. ConfigInv /\ [SchedulerNext]_schedulerVars => ConfigInv'
  <2> SUFFICES ASSUME ConfigInv, [SchedulerNext]_schedulerVars PROVE ConfigInv'
    OBVIOUS
  <2>1. CASE ConfigNext
    BY <2>1, ConfigInvNext
  <2>2. CASE UNCHANGED configVars
    BY <2>2, ConfigQuiet
  <2>3. ASSUME NEW s \in Sync, SyncStep(s) PROVE UNCHANGED configVars
    BY <2>3 DEF SyncStep, ReadMonitors, ListSchedulers, FinishRegion, UpsertJobScheduler,
                RemoveJobScheduler
  <2>4. ASSUME NEW s \in Sync, SyncFails(s) PROVE UNCHANGED configVars
    BY <2>4 DEF SyncFails
  <2>5. QED
    BY <2>1, <2>2, <2>3, <2>4 DEF SchedulerNext, schedulerVars
<1>3. ConfigInv => ConfigIsCoherent
  <2> SUFFICES ASSUME ConfigInv, NEW m \in Live \ overlapped PROVE TargetFits(m) /\ OneAuthor(m)
    BY DEF ConfigIsCoherent
  <2>1. m \in Monitor \ overlapped /\ Known(m)
    BY DEF Live, Known, Absent
  <2>2. Coherent(m)
    BY <2>1 DEF ConfigInv
  <2> DEFINE authors == {r.by : r \in {a \in assertions : a.of = m}}
  <2>3. authors = {} \/ \E x : authors = {x}
    BY <2>2 DEF Coherent, SameAuthor
  <2>4. Cardinality(authors) <= 1
    <3> HIDE DEF authors
    <3>1. Cardinality({}) = 0
      BY FS_EmptySet
    <3>2. \A x : Cardinality({x}) = 1
      BY FS_Singleton
    <3>3. QED
      BY <2>3, <3>1, <3>2
  <2>5. QED
    BY <2>2, <2>4 DEF Coherent, OneAuthor
<1>4. QED
  BY <1>1, <1>2, <1>3, PTL DEF SchedulerSpec


-----------------------------------------------------------------------------
(* The daily statistics.  All the readers divide the same rows: there never *)
(* is one of all regions beside those per region, which some of them would *)
(* count twice.                                                            *)

Regional == \A k \in RowKeys : k[2] = AllRegions => rows[k] = NoRow

\* resolveScope: what summary, series and breakdown by monitor read is what the regional
\* breakdown and the public history, which do not ask for the scope, read.
ScopeIsWhole ==
  \A n \in Nat \ {0} :
    /\ Scope(n) = {k \in Present : InRange(k, n)}
    /\ \A k \in Scope(n) : k[2] \in Regions

LEMMA RegionalUpsert ==
  ASSUME Regional, NEW days, NEW counts, rows' = Upsert(days, counts) PROVE Regional'
<1>1. ASSUME NEW k \in RowKeys, k[2] = AllRegions PROVE rows'[k] = NoRow
  <2>1. k \notin Groups
    BY <1>1, RollupAssumption DEF Groups
  <2>2. rows'[k] = rows[k]
    BY <2>1 DEF Upsert
  <2>3. QED
    BY <1>1, <2>2 DEF Regional
<1>2. QED
  BY <1>1 DEF Regional

\* packages/monitoring/src/rollup: every reader of the daily statistics reads the same
\* rows, whichever writers overlap, fail or are interrupted.
THEOREM OneScope == RollupSpec => []ScopeIsWhole
<1>1. RollupInit => Regional
  BY DEF RollupInit, Regional
<1>2. Regional /\ [RollupNext]_vars => Regional'
  <2> SUFFICES ASSUME Regional, [RollupNext]_vars PROVE Regional'
    OBVIOUS
  <2>1. CASE rows' = rows
    BY <2>1 DEF Regional
  <2>2. ASSUME NEW w, Write(w) PROVE Regional'
    BY <2>2, RegionalUpsert DEF Write
  <2>3. ASSUME NEW w \in Replicas, TickBegins(w) \/ TickFails(w) PROVE rows' = rows
    BY <2>3 DEF TickBegins, TickFails
  <2>4. BackfillStarts \/ ChunkBegins \/ BackfillDies \/ Midnight => rows' = rows
    BY DEF BackfillStarts, ChunkBegins, BackfillDies, Midnight
  <2>5. ASSUME NEW g \in Groups, NEW seen \in {"up", "down"}, Check(g, seen) PROVE rows' = rows
    BY <2>5 DEF Check
  <2>6. UNCHANGED vars => rows' = rows
    BY DEF vars
  <2>7. QED
    BY <2>1, <2>2, <2>3, <2>4, <2>5, <2>6 DEF RollupNext, TickEnds, ChunkEnds
<1>3. Regional => ScopeIsWhole
  <2> SUFFICES ASSUME Regional, NEW n \in Nat \ {0}
               PROVE  /\ Scope(n) = {k \in Present : InRange(k, n)}
                      /\ \A k \in Scope(n) : k[2] \in Regions
    BY DEF ScopeIsWhole
  <2>1. \A k \in Present : k[2] \in Regions
    BY DEF Present, RowKeys, Regional
  <2>2. CASE PerRegion(n)
    BY <2>1, <2>2 DEF Scope
  <2>3. CASE ~PerRegion(n)
    <3>1. {k \in Present : InRange(k, n)} = {}
      BY <2>1, <2>3 DEF PerRegion
    <3>2. QED
      BY <3>1 DEF Scope
  <2>4. QED
    BY <2>2, <2>3
<1>4. QED
  BY <1>1, <1>2, <1>3, PTL DEF RollupSpec

-----------------------------------------------------------------------------
(* Sums over finite sets.  A sum is computed by putting one element aside  *)
(* at a time, the one CHOOSE gives; that the order does not matter, and    *)
(* that the parts come to the whole, is shown on a least set without it.   *)

Chosen(s) == CHOOSE x \in s : TRUE

\* f is the sum of v over every subset of S.
Adds(f, v, S) ==
  f = [s \in SUBSET S |-> IF s = {} THEN 0 ELSE v[Chosen(s)] + f[s \ {Chosen(s)}]]

Sum(v, S) == (CHOOSE f : Adds(f, v, S))[S]

LEMMA LeastSet ==
  ASSUME NEW D, NEW Bad \in SUBSET FiniteSubsetsOf(D), Bad # {}
  PROVE  \E T \in Bad : IsFiniteSet(T) /\ T \subseteq D /\ \A x \in T : T \ {x} \notin Bad
<1>1. IsWellFoundedOn(StrictSubsetOrdering(D), FiniteSubsetsOf(D))
  BY FS_StrictSubsetOrderingWellFounded
<1>2. PICK T \in Bad : \A U \in Bad : <<U, T>> \notin StrictSubsetOrdering(D)
  BY <1>1, WFMin
<1>3. T \in SUBSET D /\ IsFiniteSet(T)
  BY DEF FiniteSubsetsOf
<1>4. ASSUME NEW x \in T PROVE <<T \ {x}, T>> \in StrictSubsetOrdering(D)
  BY <1>3 DEF StrictSubsetOrdering
<1>5. QED
  BY <1>2, <1>3, <1>4

LEMMA ChosenIn == \A s : s # {} => Chosen(s) \in s
BY DEF Chosen

\* One step of the computation.
LEMMA AddsAt ==
  ASSUME NEW v, NEW S, NEW f, Adds(f, v, S), NEW T \in SUBSET S
  PROVE  /\ T = {} => f[T] = 0
         /\ T # {} => f[T] = v[Chosen(T)] + f[T \ {Chosen(T)}]
BY DEF Adds

LEMMA AddsAgree ==
  ASSUME NEW v, NEW S, NEW f, Adds(f, v, S), NEW R, NEW g, Adds(g, v, R),
         NEW T \in SUBSET (S \cap R), IsFiniteSet(T)
  PROVE  f[T] = g[T]
<1> DEFINE Bad == {U \in FiniteSubsetsOf(S \cap R) : f[U] # g[U]}
<1> SUFFICES Bad = {}
  BY DEF FiniteSubsetsOf
<1> SUFFICES ASSUME Bad # {} PROVE FALSE
  OBVIOUS
<1>1. PICK U \in Bad : IsFiniteSet(U) /\ U \subseteq S \cap R /\ \A x \in U : U \ {x} \notin Bad
  <2>1. Bad \in SUBSET FiniteSubsetsOf(S \cap R)
    OBVIOUS
  <2> HIDE DEF Bad
  <2>2. QED
    BY <2>1, LeastSet
<1>2. U # {}
  BY <1>1, AddsAt
<1> DEFINE x == Chosen(U)
<1>3. x \in U
  BY <1>2, ChosenIn
<1>4. U \ {x} \in FiniteSubsetsOf(S \cap R)
  BY <1>1, FS_RemoveElement DEF FiniteSubsetsOf
<1>5. f[U \ {x}] = g[U \ {x}]
  BY <1>1, <1>3, <1>4
<1>6. f[U] = v[x] + f[U \ {x}] /\ g[U] = v[x] + g[U \ {x}]
  BY <1>1, <1>2, AddsAt
<1>7. QED
  BY <1>1, <1>5, <1>6

\* Where the computation of one set has a value, that of each subset is a part of it.
LEMMA SumIs ==
  ASSUME NEW v, NEW S, NEW f, Adds(f, v, S), NEW T \in SUBSET S, IsFiniteSet(T)
  PROVE  Sum(v, T) = f[T]
<1> DEFINE g == [s \in SUBSET T |-> f[s]]
<1>1. Adds(g, v, T)
  <2>1. \A s \in SUBSET T : s \ {Chosen(s)} \in SUBSET T /\ s \in SUBSET S
    OBVIOUS
  <2>2. \A s \in SUBSET T : f[s] = IF s = {} THEN 0 ELSE v[Chosen(s)] + f[s \ {Chosen(s)}]
    BY <2>1, AddsAt
  <2>3. g = [s \in SUBSET T |-> IF s = {} THEN 0 ELSE v[Chosen(s)] + g[s \ {Chosen(s)}]]
    BY <2>1, <2>2
  <2>4. QED
    BY <2>3 DEF Adds
<1> HIDE DEF g
<1>2. Adds(CHOOSE h : Adds(h, v, T), v, T)
  BY <1>1
<1>3. QED
  BY <1>2, AddsAgree DEF Sum

LEMMA AddsExists ==
  ASSUME NEW v, NEW S, IsFiniteSet(S)
  PROVE  \E f : Adds(f, v, S)
<1> DEFINE Bad == {T \in FiniteSubsetsOf(S) : ~\E f : Adds(f, v, T)}
<1> SUFFICES Bad = {}
  BY DEF FiniteSubsetsOf
<1> SUFFICES ASSUME Bad # {} PROVE FALSE
  OBVIOUS
<1>1. PICK T \in Bad : IsFiniteSet(T) /\ T \subseteq S /\ \A x \in T : T \ {x} \notin Bad
  <2>1. Bad \in SUBSET FiniteSubsetsOf(S)
    OBVIOUS
  <2> HIDE DEF Bad
  <2>2. QED
    BY <2>1, LeastSet
<1> DEFINE f == [s \in SUBSET T |-> IF s = {} THEN 0 ELSE v[Chosen(s)] + Sum(v, s \ {Chosen(s)})]
<1>2. ASSUME NEW s \in SUBSET T, s # {} PROVE f[s \ {Chosen(s)}] = Sum(v, s \ {Chosen(s)})
  <2> DEFINE x == Chosen(s)
             U == s \ {x}
  <2>1. x \in T /\ T \ {x} \in FiniteSubsetsOf(S)
    BY <1>1, <1>2, ChosenIn, FS_RemoveElement DEF FiniteSubsetsOf
  <2>2. PICK g : Adds(g, v, T \ {x})
    BY <1>1, <2>1
  <2>3. U \in SUBSET (T \ {x}) /\ IsFiniteSet(U) /\ U \in SUBSET T
    BY <1>1, FS_Subset
  <2>4. Sum(v, U) = g[U]
    BY <2>2, <2>3, SumIs
  <2>5. CASE U = {}
    BY <2>2, <2>3, <2>4, <2>5, AddsAt
  <2>6. CASE U # {}
    <3>1. U \ {Chosen(U)} \in SUBSET (T \ {x}) /\ IsFiniteSet(U \ {Chosen(U)})
      BY <2>3, FS_Subset
    <3>2. Sum(v, U \ {Chosen(U)}) = g[U \ {Chosen(U)}]
      BY <2>2, <3>1, SumIs
    <3>3. g[U] = v[Chosen(U)] + g[U \ {Chosen(U)}]
      <4> HIDE DEF U, f
      <4> QED
        BY <2>2, <2>3, <2>6, AddsAt
    <3>4. f[U] = v[Chosen(U)] + Sum(v, U \ {Chosen(U)})
      BY <2>3, <2>6
    <3>5. QED
      BY <2>4, <3>2, <3>3, <3>4
  <2>7. QED
    BY <2>5, <2>6
<1>3. f = [s \in SUBSET T |-> IF s = {} THEN 0 ELSE v[Chosen(s)] + f[s \ {Chosen(s)}]]
  BY <1>2
<1>4. Adds(f, v, T)
  BY <1>3 DEF Adds
<1>5. QED
  BY <1>1, <1>4

LEMMA SumStep ==
  ASSUME NEW v, NEW S, IsFiniteSet(S)
  PROVE  /\ S = {} => Sum(v, S) = 0
         /\ S # {} => Sum(v, S) = v[Chosen(S)] + Sum(v, S \ {Chosen(S)})
<1>1. PICK f : Adds(f, v, S)
  BY AddsExists
<1>2. Sum(v, S) = f[S] /\ Sum(v, S \ {Chosen(S)}) = f[S \ {Chosen(S)}]
  BY <1>1, SumIs, FS_Subset
<1>3. QED
  BY <1>1, <1>2, AddsAt

\* Only the values at the elements count.
LEMMA SumSame ==
  ASSUME NEW v, NEW u, NEW S, IsFiniteSet(S), \A x \in S : v[x] = u[x]
  PROVE  Sum(v, S) = Sum(u, S)
<1>1. PICK f : Adds(f, v, S)
  BY AddsExists
<1>2. f = [s \in SUBSET S |-> IF s = {} THEN 0 ELSE v[Chosen(s)] + f[s \ {Chosen(s)}]]
  BY <1>1 DEF Adds
<1>3. \A s \in SUBSET S : s # {} => v[Chosen(s)] = u[Chosen(s)]
  BY ChosenIn
<1>4. \A s \in SUBSET S : f[s] = IF s = {} THEN 0 ELSE u[Chosen(s)] + f[s \ {Chosen(s)}]
  BY <1>2, <1>3
<1>5. Adds(f, u, S)
  BY <1>2, <1>4 DEF Adds
<1>6. QED
  BY <1>1, <1>5, SumIs

LEMMA SumType ==
  ASSUME NEW S, IsFiniteSet(S), NEW v, \A x \in S : v[x] \in Int
  PROVE  Sum(v, S) \in Int
<1> DEFINE Bad == {T \in FiniteSubsetsOf(S) : Sum(v, T) \notin Int}
<1> SUFFICES Bad = {}
  BY DEF FiniteSubsetsOf
<1> SUFFICES ASSUME Bad # {} PROVE FALSE
  OBVIOUS
<1>1. PICK T \in Bad : IsFiniteSet(T) /\ T \subseteq S /\ \A x \in T : T \ {x} \notin Bad
  <2>1. Bad \in SUBSET FiniteSubsetsOf(S)
    OBVIOUS
  <2> HIDE DEF Bad
  <2>2. QED
    BY <2>1, LeastSet
<1>2. T # {}
  <2>1. T = {} => Sum(v, T) = 0
    BY <1>1, SumStep
  <2>2. Sum(v, T) \notin Int
    OBVIOUS
  <2>3. QED
    BY <2>1, <2>2
<1>3. Chosen(T) \in T /\ T \ {Chosen(T)} \in FiniteSubsetsOf(S)
  BY <1>1, <1>2, ChosenIn, FS_RemoveElement DEF FiniteSubsetsOf
<1>4. Sum(v, T \ {Chosen(T)}) \in Int
  BY <1>1, <1>3
<1>5. Sum(v, T) = v[Chosen(T)] + Sum(v, T \ {Chosen(T)})
  BY <1>1, <1>2, SumStep
<1>6. QED
  BY <1>1, <1>3, <1>4, <1>5

LEMMA SumNothing ==
  ASSUME NEW S, IsFiniteSet(S), NEW v, \A x \in S : v[x] = 0
  PROVE  Sum(v, S) = 0
<1> DEFINE f == [s \in SUBSET S |-> 0]
<1>1. \A s \in SUBSET S : f[s] = IF s = {} THEN 0 ELSE v[Chosen(s)] + f[s \ {Chosen(s)}]
  BY ChosenIn
<1>2. Adds(f, v, S)
  BY <1>1 DEF Adds
<1>3. QED
  BY <1>2, SumIs

\* Whichever element is put aside.
LEMMA SumWithout ==
  ASSUME NEW S, IsFiniteSet(S), NEW v, \A y \in S : v[y] \in Int, NEW x \in S
  PROVE  Sum(v, S) = v[x] + Sum(v, S \ {x})
<1> DEFINE Fine(T) == \A z \in T : Sum(v, T) = v[z] + Sum(v, T \ {z})
           Bad == {T \in FiniteSubsetsOf(S) : ~Fine(T)}
<1> SUFFICES Bad = {}
  BY DEF FiniteSubsetsOf
<1> SUFFICES ASSUME Bad # {} PROVE FALSE
  OBVIOUS
<1>1. PICK T \in Bad : IsFiniteSet(T) /\ T \subseteq S /\ \A y \in T : T \ {y} \notin Bad
  <2>1. Bad \in SUBSET FiniteSubsetsOf(S)
    OBVIOUS
  <2> HIDE DEF Bad
  <2>2. QED
    BY <2>1, LeastSet
<1>2. PICK z \in T : Sum(v, T) # v[z] + Sum(v, T \ {z})
  BY <1>1
<1> DEFINE y == Chosen(T)
           Rest == (T \ {y}) \ {z}
<1>3. y \in T /\ Sum(v, T) = v[y] + Sum(v, T \ {y})
  BY <1>1, <1>2, ChosenIn, SumStep
<1>4. y # z
  BY <1>2, <1>3
<1>5. \A t \in T : T \ {t} \in FiniteSubsetsOf(S) /\ Fine(T \ {t})
  <2>1. \A t \in T : T \ {t} \in FiniteSubsetsOf(S)
    BY <1>1, FS_RemoveElement DEF FiniteSubsetsOf
  <2> HIDE DEF Fine
  <2>2. QED
    BY <1>1, <2>1
<1>6. Sum(v, T \ {y}) = v[z] + Sum(v, Rest)
  BY <1>3, <1>4, <1>5
<1>7. Sum(v, T \ {z}) = v[y] + Sum(v, Rest)
  <2>1. Rest = (T \ {z}) \ {y}
    OBVIOUS
  <2> HIDE DEF Rest
  <2>2. QED
    BY <1>3, <1>4, <1>5, <2>1
<1>8. v[y] \in Int /\ v[z] \in Int /\ Sum(v, Rest) \in Int
  <2>1. IsFiniteSet(Rest) /\ Rest \subseteq S
    BY <1>1, FS_Subset
  <2>2. QED
    BY <1>1, <1>3, <2>1, SumType
<1>9. QED
  <2> HIDE DEF Rest, y
  <2> QED
    BY <1>2, <1>3, <1>6, <1>7, <1>8

\* A set divided into parts, at[x] the part of x: the sums of the parts add up to the sum
\* of the whole.  Putting x aside lowers one of them, by v[x].
LEMMA SumOfParts ==
  ASSUME NEW S, IsFiniteSet(S), NEW v, \A x \in S : v[x] \in Int,
         NEW Parts, IsFiniteSet(Parts), NEW at, \A x \in S : at[x] \in Parts
  PROVE  Sum([p \in Parts |-> Sum(v, {x \in S : at[x] = p})], Parts) = Sum(v, S)
<1> DEFINE Of(T, p) == {x \in T : at[x] = p}
           By(T) == [p \in Parts |-> Sum(v, Of(T, p))]
           Fine(T) == Sum(By(T), Parts) = Sum(v, T)
           Bad == {T \in FiniteSubsetsOf(S) : ~Fine(T)}
<1> SUFFICES Bad = {}
  BY DEF FiniteSubsetsOf
<1> SUFFICES ASSUME Bad # {} PROVE FALSE
  OBVIOUS
<1>1. PICK T \in Bad : IsFiniteSet(T) /\ T \subseteq S /\ \A y \in T : T \ {y} \notin Bad
  <2>1. Bad \in SUBSET FiniteSubsetsOf(S)
    OBVIOUS
  <2> HIDE DEF Bad
  <2>2. QED
    BY <2>1, LeastSet
<1>2. ASSUME NEW R \in SUBSET S, NEW p \in Parts
      PROVE  IsFiniteSet(Of(R, p)) /\ By(R)[p] = Sum(v, Of(R, p)) /\ By(R)[p] \in Int
  BY FS_Subset, SumType
<1>3. CASE T = {}
  <2>1. \A p \in Parts : By(T)[p] = 0
    <3> SUFFICES ASSUME NEW p \in Parts PROVE Sum(v, Of(T, p)) = 0
      OBVIOUS
    <3>1. Of(T, p) = {} /\ IsFiniteSet({})
      BY <1>3, FS_EmptySet
    <3>2. QED
      BY <3>1, SumStep
  <2>2. Sum(By(T), Parts) = 0
    BY <2>1, SumNothing
  <2>3. QED
    BY <1>1, <1>3, <2>2, SumStep
<1>4. CASE T # {}
  <2>1. PICK x \in T : TRUE
    BY <1>4
  <2> DEFINE U == T \ {x}
             a == at[x]
             Others == Parts \ {a}
  <2>2. Fine(U) /\ U \in SUBSET S /\ x \in S /\ a \in Parts
    BY <1>1, <2>1, FS_RemoveElement DEF FiniteSubsetsOf
  <2>3. By(T)[a] = v[x] + By(U)[a]
    <3>1. x \in Of(T, a) /\ Of(T, a) \ {x} = Of(U, a) /\ \A y \in Of(T, a) : v[y] \in Int
      BY <1>1, <2>1
    <3>2. Sum(v, Of(T, a)) = v[x] + Sum(v, Of(T, a) \ {x})
      <4>1. IsFiniteSet(Of(T, a))
        BY <1>1, FS_Subset
      <4> HIDE DEF Of
      <4>2. QED
        BY <3>1, <4>1, SumWithout
    <3>3. QED
      BY <1>1, <1>2, <2>2, <3>1, <3>2
  <2>4. Sum(By(T), Others) = Sum(By(U), Others)
    <3>1. ASSUME NEW p \in Others PROVE By(T)[p] = By(U)[p]
      <4>1. Of(T, p) = Of(U, p)
        OBVIOUS
      <4>2. QED
        BY <1>1, <1>2, <2>2, <4>1
    <3>2. IsFiniteSet(Others)
      BY FS_Subset
    <3>3. \A p \in Others : By(T)[p] = By(U)[p]
      BY <3>1
    <3> HIDE DEF By, Others, U
    <3>4. QED
      BY <3>2, <3>3, SumSame
  <2>5. /\ Sum(By(T), Parts) = By(T)[a] + Sum(By(T), Others)
        /\ Sum(By(U), Parts) = By(U)[a] + Sum(By(U), Others)
    <3>1. \A p \in Parts : By(T)[p] \in Int /\ By(U)[p] \in Int
      BY <1>1, <1>2, <2>2
    <3> HIDE DEF By
    <3>2. QED
      BY <2>2, <3>1, SumWithout
  <2>6. Sum(v, T) = v[x] + Sum(v, U)
    BY <1>1, <2>1, SumWithout
  <2>7. v[x] \in Int /\ By(U)[a] \in Int /\ Sum(By(U), Others) \in Int /\ Sum(v, U) \in Int
    <3>1. \A p \in Others : By(U)[p] \in Int
      BY <1>2, <2>2
    <3>2. IsFiniteSet(Others) /\ IsFiniteSet(U)
      BY <1>1, FS_Subset
    <3>3. \A y \in U : v[y] \in Int
      BY <2>2
    <3>4. v[x] \in Int /\ By(U)[a] \in Int
      BY <1>2, <2>2
    <3> HIDE DEF By, Others, U
    <3>5. QED
      BY <3>1, <3>2, <3>3, <3>4, SumType
  <2>8. Sum(By(T), Parts) = Sum(v, T)
    <3>1. Sum(By(U), Parts) = Sum(v, U)
      BY <2>2
    <3> HIDE DEF By, Others, U, a
    <3>2. QED
      BY <2>3, <2>4, <2>5, <2>6, <2>7, <3>1
  <2>9. QED
    BY <1>1, <2>8
<1>5. QED
  BY <1>3, <1>4

-----------------------------------------------------------------------------
(* The readers' sums.  Every row there is counts checks, so that it can be *)
(* added up; and every view divides the rows of the days it asks for, by   *)
(* the day, the region or the monitor.                                     *)

Tally == [up : Nat, down : Nat]

TallyInv ==
  /\ checks \in [Groups -> Tally]
  /\ rows \in [RowKeys -> Tally \cup {NoRow}]
  /\ statement \in [Writers -> [days : SUBSET Days, counts : [Groups -> Tally]]]

LEMMA TallyInit == RollupInit => TallyInv
BY DEF RollupInit, TallyInv, Tally, Nothing, NoRow, Idle

LEMMA TallyWrite ==
  ASSUME TallyInv, NEW w \in Writers, Write(w), UNCHANGED checks
  PROVE  TallyInv'
<1>1. statement[w].counts \in [Groups -> Tally]
  BY DEF TallyInv
<1>2. rows' \in [RowKeys -> Tally \cup {NoRow}]
  BY <1>1 DEF TallyInv, Write, Upsert
<1>3. Idle \in [days : SUBSET Days, counts : [Groups -> Tally]]
  BY DEF Idle, Nothing, Tally
<1>4. QED
  BY <1>2, <1>3 DEF TallyInv, Write

LEMMA TallyCount ==
  ASSUME TallyInv, NEW w \in Writers, NEW from, NEW to, Count(w, from, to),
         UNCHANGED <<checks, rows>>
  PROVE  TallyInv'
<1>1. [days |-> Window(from, to), counts |-> checks]
        \in [days : SUBSET Days, counts : [Groups -> Tally]]
  BY DEF TallyInv, Window
<1>2. QED
  BY <1>1 DEF TallyInv, Count

LEMMA TallyDrop ==
  ASSUME TallyInv, NEW w \in Writers, statement' = [statement EXCEPT ![w] = Idle],
         UNCHANGED <<checks, rows>>
  PROVE  TallyInv'
<1>1. Idle \in [days : SUBSET Days, counts : [Groups -> Tally]]
  BY DEF Idle, Nothing, Tally
<1>2. QED
  BY <1>1 DEF TallyInv

LEMMA TallyCheck ==
  ASSUME TallyInv, NEW g \in Groups, NEW seen \in {"up", "down"}, Check(g, seen)
  PROVE  TallyInv'
<1>1. checks[g] \in Tally
  BY DEF TallyInv
<1>2. [checks[g] EXCEPT ![seen] = @ + 1] \in Tally
  BY <1>1 DEF Tally
<1>3. checks' = [checks EXCEPT ![g] = [checks[g] EXCEPT ![seen] = @ + 1]]
  BY DEF Check, TallyInv
<1>4. QED
  BY <1>2, <1>3 DEF TallyInv, Check

LEMMA TallyNext == TallyInv /\ [RollupNext]_vars => TallyInv'
<1> SUFFICES ASSUME TallyInv, [RollupNext]_vars PROVE TallyInv'
  OBVIOUS
<1>1. ASSUME NEW w \in Replicas, TickBegins(w) PROVE TallyInv'
  BY <1>1, TallyCount DEF TickBegins, Writers
<1>2. ASSUME NEW w \in Replicas, TickEnds(w) PROVE TallyInv'
  BY <1>2, TallyWrite DEF TickEnds, Writers
<1>3. ASSUME NEW w \in Replicas, TickFails(w) PROVE TallyInv'
  BY <1>3, TallyDrop DEF TickFails, Writers
<1>4. CASE ChunkBegins
  BY <1>4, TallyCount DEF ChunkBegins, Writers
<1>5. CASE ChunkEnds
  BY <1>5, TallyWrite DEF ChunkEnds, Writers
<1>6. CASE BackfillDies
  BY <1>6, TallyDrop DEF BackfillDies, Writers
<1>7. ASSUME NEW g \in Groups, NEW seen \in {"up", "down"}, Check(g, seen) PROVE TallyInv'
  BY <1>7, TallyCheck
<1>8. CASE BackfillStarts \/ Midnight \/ UNCHANGED vars
  BY <1>8 DEF BackfillStarts, Midnight, vars, TallyInv
<1>9. QED
  BY <1>1, <1>2, <1>3, <1>4, <1>5, <1>6, <1>7, <1>8 DEF RollupNext

\* What a reader adds up.
Ups == [k \in RowKeys |-> rows[k].up]
Counts == [k \in RowKeys |-> Total(rows[k])]

LEMMA RowsFinite == IsFiniteSet(RowKeys) /\ IsFiniteSet(Days)
<1>1. IsFiniteSet(Days)
  BY FS_Interval, RollupAssumption DEF Days
<1>2. IsFiniteSet(Regions \cup {AllRegions})
  BY FS_AddElement, RollupAssumption
<1>3. IsFiniteSet((Regions \cup {AllRegions}) \X Days)
  BY <1>1, <1>2, FS_Product
<1> DEFINE Triples == Monitors \X ((Regions \cup {AllRegions}) \X Days)
<1>4. IsFiniteSet(Triples)
  BY <1>3, FS_Product, RollupAssumption
<1>5. \E f : f \in Surjection(Triples, RowKeys)
  <2> DEFINE f == [q \in Triples |-> <<q[1], q[2][1], q[2][2]>>]
  <2>1. f \in [Triples -> RowKeys]
    BY DEF RowKeys
  <2>2. ASSUME NEW k \in RowKeys PROVE \E q \in Triples : f[q] = k
    <3>1. <<k[1], <<k[2], k[3]>>>> \in Triples /\ k = <<k[1], k[2], k[3]>>
      BY DEF RowKeys
    <3>2. f[<<k[1], <<k[2], k[3]>>>>] = k
      BY <3>1
    <3>3. QED
      BY <3>1, <3>2
  <2>3. f \in Surjection(Triples, RowKeys)
    BY <2>1, <2>2 DEF Surjection
  <2>4. QED
    BY <2>3
<1>6. QED
  BY <1>1, <1>4, <1>5, FS_Surjection

\* The recursion of MapThenSumSet is that of Sum.
LEMMA UpOfIs ==
  ASSUME NEW S \in SUBSET RowKeys, IsFiniteSet(S)
  PROVE  UpOf(S) = Sum(Ups, S)
<1> DEFINE sums(f) == f = [s \in SUBSET S |->
             IF s = {} THEN 0
             ELSE rows[CHOOSE x \in s : TRUE].up + f[s \ {CHOOSE x \in s : TRUE}]]
           iter == CHOOSE f : sums(f)
<1>1. UpOf(S) = iter[S]
  BY DEF UpOf, SumOver, MapThenSumSet, MapThenFoldSet
<1>2. ASSUME NEW f PROVE sums(f) <=> Adds(f, Ups, S)
  <2>1. \A s \in SUBSET S : s # {} => Ups[Chosen(s)] = rows[CHOOSE x \in s : TRUE].up
    BY ChosenIn DEF Ups, Chosen
  <2>2. [s \in SUBSET S |-> IF s = {} THEN 0
                            ELSE rows[CHOOSE x \in s : TRUE].up + f[s \ {CHOOSE x \in s : TRUE}]]
        = [s \in SUBSET S |-> IF s = {} THEN 0 ELSE Ups[Chosen(s)] + f[s \ {Chosen(s)}]]
    BY <2>1 DEF Chosen
  <2>3. QED
    BY <2>2 DEF Adds
<1>3. PICK g : Adds(g, Ups, S)
  BY AddsExists
<1>4. sums(iter)
  <2> HIDE DEF sums
  <2> QED
    BY <1>2, <1>3
<1> HIDE DEF iter, sums
<1>5. QED
  BY <1>1, <1>2, <1>4, SumIs

LEMMA ChecksOfIs ==
  ASSUME NEW S \in SUBSET RowKeys, IsFiniteSet(S)
  PROVE  ChecksOf(S) = Sum(Counts, S)
<1> DEFINE sums(f) == f = [s \in SUBSET S |->
             IF s = {} THEN 0
             ELSE Total(rows[CHOOSE x \in s : TRUE]) + f[s \ {CHOOSE x \in s : TRUE}]]
           iter == CHOOSE f : sums(f)
<1>1. ChecksOf(S) = iter[S]
  BY DEF ChecksOf, SumOver, MapThenSumSet, MapThenFoldSet
<1>2. ASSUME NEW f PROVE sums(f) <=> Adds(f, Counts, S)
  <2>1. \A s \in SUBSET S : s # {} => Counts[Chosen(s)] = Total(rows[CHOOSE x \in s : TRUE])
    BY ChosenIn DEF Counts, Chosen
  <2>2. [s \in SUBSET S |->
           IF s = {} THEN 0
           ELSE Total(rows[CHOOSE x \in s : TRUE]) + f[s \ {CHOOSE x \in s : TRUE}]]
        = [s \in SUBSET S |-> IF s = {} THEN 0 ELSE Counts[Chosen(s)] + f[s \ {Chosen(s)}]]
    BY <2>1 DEF Chosen
  <2>3. QED
    BY <2>2 DEF Adds
<1>3. PICK g : Adds(g, Counts, S)
  BY AddsExists
<1>4. sums(iter)
  <2> HIDE DEF sums
  <2> QED
    BY <1>2, <1>3
<1> HIDE DEF iter, sums
<1>5. QED
  BY <1>1, <1>2, <1>4, SumIs

LEMMA WholeIs ==
  ASSUME NEW I, IsFiniteSet(I), NEW up, NEW count
  PROVE  Whole([i \in I |-> <<up[i], count[i]>>]) = <<Sum(up, I), Sum(count, I)>>
<1> DEFINE parts == [i \in I |-> <<up[i], count[i]>>]
           sums(f, at) == f = [s \in SUBSET I |->
             IF s = {} THEN 0
             ELSE parts[CHOOSE x \in s : TRUE][at] + f[s \ {CHOOSE x \in s : TRUE}]]
           iter(at) == CHOOSE f : sums(f, at)
           half(at) == IF at = 1 THEN up ELSE count
<1>1. Whole(parts) = <<iter(1)[I], iter(2)[I]>>
  <2>1. DOMAIN parts = I
    OBVIOUS
  <2> HIDE DEF parts
  <2>2. QED
    BY <2>1 DEF Whole, SumOver, MapThenSumSet, MapThenFoldSet
<1>2. ASSUME NEW at \in {1, 2} PROVE iter(at)[I] = Sum(half(at), I)
  <2>1. ASSUME NEW f PROVE sums(f, at) <=> Adds(f, half(at), I)
    <3>1. \A s \in SUBSET I : s # {} => half(at)[Chosen(s)] = parts[CHOOSE x \in s : TRUE][at]
      BY ChosenIn DEF Chosen
    <3> HIDE DEF parts, half
    <3>2. [s \in SUBSET I |->
             IF s = {} THEN 0
             ELSE parts[CHOOSE x \in s : TRUE][at] + f[s \ {CHOOSE x \in s : TRUE}]]
          = [s \in SUBSET I |-> IF s = {} THEN 0 ELSE half(at)[Chosen(s)] + f[s \ {Chosen(s)}]]
      BY <3>1 DEF Chosen
    <3>3. QED
      BY <3>2 DEF Adds
  <2>2. PICK g : Adds(g, half(at), I)
    BY AddsExists
  <2>3. sums(iter(at), at)
    <3> HIDE DEF sums, half
    <3> QED
      BY <2>1, <2>2
  <2> HIDE DEF iter, sums, half
  <2>4. QED
    BY <2>1, <2>3, SumIs
<1>3. QED
  BY <1>1, <1>2

\* Rows divided among the points of a chart: the points come to what all the rows do.
LEMMA PartsAddUp ==
  ASSUME TallyInv, NEW S \in SUBSET Present, NEW I, IsFiniteSet(I),
         NEW at, \A k \in S : at[k] \in I
  PROVE  Whole([i \in I |-> Reading({k \in S : at[k] = i})]) = Reading(S)
<1> DEFINE Of(i) == {k \in S : at[k] = i}
           up == [i \in I |-> Sum(Ups, Of(i))]
           count == [i \in I |-> Sum(Counts, Of(i))]
<1>1. S \in SUBSET RowKeys /\ IsFiniteSet(S)
  BY RowsFinite, FS_Subset DEF Present
<1>2. \A k \in S : Ups[k] \in Int /\ Counts[k] \in Int
  <2>1. \A k \in S : rows[k] \in Tally
    BY <1>1 DEF TallyInv, Present
  <2>2. QED
    BY <1>1, <2>1 DEF Ups, Counts, Total, Tally
<1>3. Sum(up, I) = Sum(Ups, S) /\ Sum(count, I) = Sum(Counts, S)
  BY <1>1, <1>2, SumOfParts
<1>4. \A i \in I : Reading(Of(i)) = <<up[i], count[i]>>
  <2>1. ASSUME NEW i \in I PROVE Reading(Of(i)) = <<Sum(Ups, Of(i)), Sum(Counts, Of(i))>>
    <3>1. Of(i) \in SUBSET RowKeys /\ IsFiniteSet(Of(i))
      BY <1>1, FS_Subset
    <3> HIDE DEF Of
    <3>2. QED
      BY <3>1, UpOfIs, ChecksOfIs DEF Reading
  <2>2. QED
    BY <2>1
<1>5. [i \in I |-> Reading(Of(i))] = [i \in I |-> <<up[i], count[i]>>]
  BY <1>4
<1>6. Reading(S) = <<Sum(Ups, S), Sum(Counts, S)>>
  BY <1>1, UpOfIs, ChecksOfIs DEF Reading
<1>7. Whole([i \in I |-> <<up[i], count[i]>>]) = <<Sum(up, I), Sum(count, I)>>
  <2> HIDE DEF up, count
  <2> QED
    BY WholeIs
<1>8. QED
  BY <1>3, <1>5, <1>6, <1>7

\* Every reader of the last n days.
AgreeOver(n) ==
  /\ Whole(Series(n)) = Totals(n)
  /\ Whole(ByRegion(n)) = Totals(n)
  /\ Whole(ByMonitor(n)) = Totals(n)
  /\ Whole(History(n)) = Totals(n)

LEMMA ViewsDivide ==
  ASSUME TallyInv, ScopeIsWhole, NEW n \in Nat \ {0}
  PROVE  AgreeOver(n)
<1> DEFINE S == {k \in Present : InRange(k, n)}
<1>1. Scope(n) = S /\ \A k \in S : k[2] \in Regions
  BY DEF ScopeIsWhole
<1>2. S \in SUBSET Present /\ \A k \in S : k \in RowKeys
  BY DEF Present
<1>3. Totals(n) = Reading(S)
  BY <1>1 DEF Totals
<1>4. Whole(Series(n)) = Reading(S)
  <2> DEFINE I == {x \in Days : x > today - n /\ x <= today}
             at == [k \in S |-> k[3]]
  <2>1. IsFiniteSet(I) /\ \A k \in S : at[k] \in I
    BY <1>2, RowsFinite, FS_Subset DEF RowKeys, InRange
  <2>2. \A i : {k \in S : at[k] = i} = {k \in S : k[3] = i}
    OBVIOUS
  <2>3. Series(n) = [i \in I |-> Reading({k \in S : at[k] = i})]
    BY <1>1, <2>2 DEF Series
  <2> HIDE DEF I, at, S
  <2>4. QED
    BY <1>2, <2>1, <2>3, PartsAddUp
<1>5. Whole(ByRegion(n)) = Reading(S)
  <2> DEFINE at == [k \in S |-> k[2]]
  <2>1. IsFiniteSet(Regions) /\ \A k \in S : at[k] \in Regions
    BY <1>1, RollupAssumption
  <2>2. \A i : {k \in S : at[k] = i} = {k \in Present : InRange(k, n) /\ k[2] = i}
    OBVIOUS
  <2>3. ByRegion(n) = [i \in Regions |-> Reading({k \in S : at[k] = i})]
    BY <2>2 DEF ByRegion
  <2> HIDE DEF at, S
  <2>4. QED
    BY <1>2, <2>1, <2>3, PartsAddUp
<1>6. Whole(ByMonitor(n)) = Reading(S) /\ Whole(History(n)) = Reading(S)
  <2> DEFINE at == [k \in S |-> k[1]]
  <2>1. IsFiniteSet(Monitors) /\ \A k \in S : at[k] \in Monitors
    BY <1>2, RollupAssumption DEF RowKeys
  <2>2. \A i : /\ {k \in S : at[k] = i} = {k \in Present : InRange(k, n) /\ k[1] = i}
               /\ {k \in S : at[k] = i} = {k \in S : k[1] = i}
    OBVIOUS
  <2>3. ByMonitor(n) = [i \in Monitors |-> Reading({k \in S : at[k] = i})]
    BY <1>1, <2>2 DEF ByMonitor
  <2>4. History(n) = [i \in Monitors |-> Reading({k \in S : at[k] = i})]
    BY <2>2 DEF History
  <2> HIDE DEF at, S
  <2>5. QED
    BY <1>2, <2>1, <2>3, <2>4, PartsAddUp
<1>7. QED
  BY <1>3, <1>4, <1>5, <1>6 DEF AgreeOver

\* packages/monitoring/src/rollup: the daily series, the regional breakdown, the one by
\* monitor and the public history add up to what the summary says, over any number of
\* days, whichever writers overlap, fail or are interrupted.
THEOREM ReadersCountAlike ==
  RollupSpec => [](\A n \in Nat \ {0} : AgreeOver(n)) /\ []ReadersAgree
<1>1. (\A n \in Nat \ {0} : AgreeOver(n)) => ReadersAgree
  <2>1. {1, LastDay + 1} \subseteq Nat \ {0}
    BY RollupAssumption
  <2>2. QED
    BY <2>1 DEF AgreeOver, ReadersAgree, ViewsAgree
<1>2. TallyInv /\ ScopeIsWhole => \A n \in Nat \ {0} : AgreeOver(n)
  BY ViewsDivide
<1>3. QED
  BY <1>1, <1>2, TallyInit, TallyNext, OneScope, PTL DEF RollupSpec
=============================================================================
