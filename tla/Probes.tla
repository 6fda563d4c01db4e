------------------------------- MODULE Probes -------------------------------
(***************************************************************************)
(* One check of a target: the probe of its type is run, what it saw is     *)
(* validated, and a failing attempt is repeated before it is believed      *)
(* (packages/monitoring/src/execute.ts, assertions.ts, probes).  Checks    *)
(* run side by side and share the cached directory of registries.          *)
(*                                                                         *)
(* The network is the environment: any request may be answered, refused or *)
(* cut off.  Latency is left out, as is how an assertion compares: whether *)
(* it holds is part of what the probe saw.                                 *)
(***************************************************************************)
EXTENDS Integers, FiniteSets

CONSTANTS Checks,         \* the checks that run side by side
          Targets,        \* the monitor configurations tried, as Snapshot records
          Mirrors,        \* the registry's servers for a domain, in number
          MaxRedirects,   \* redirects followed (5 in the code)
          MaxRuns         \* bound: checks started

Types == {"HTTP", "KEYWORD", "SSL", "TCP", "PORT", "PING", "HEARTBEAT", "DNS", "DOMAIN"}
Http == {"HTTP", "KEYWORD"}
Sources == {"STATUS_CODE", "RESPONSE_TIME", "HEADER", "BODY_TEXT", "BODY_JSON",
            "SSL_EXPIRY_DAYS", "DOMAIN_EXPIRY_DAYS", "DNS_RECORD"}
Expiries == {"none", "expired", "soon", "later"}

\* type, whether its url or host is set, and what is expected of the target
Snapshot == [type : Types, configured : BOOLEAN, retries : Nat, followRedirects : BOOLEAN,
             expectsStatus : BOOLEAN, keyword : {"none", "required", "forbidden"},
             assertions : SUBSET Sources]
\* What a probe brings home.
Facts == [status : {"none", "expected", "other"}, keyword : BOOLEAN,
          cert : Expiries, domain : Expiries, broken : SUBSET Sources]
Blank == [status |-> "none", keyword |-> FALSE, cert |-> "none", domain |-> "none", broken |-> {}]

ASSUME ProbesAssumption ==
  /\ Targets \subseteq Snapshot
  /\ Mirrors \in Nat \ {0} /\ MaxRedirects \in Nat /\ MaxRuns \in Nat

VARIABLES directory,   \* bootstrapCache: "none", "listed" or "empty"
          check,       \* each check: its monitor and where it is
          runs

pvars == <<directory, check, runs>>

\* A signal, and for a failure whether the registry's servers are to blame for it.
Unreachable(errorType) ==
  [reachable |-> FALSE, errorType |-> errorType, facts |-> Blank, registry |-> FALSE]
RegistryDown(errorType) == [Unreachable(errorType) EXCEPT !.registry = TRUE]
Reached(facts) ==
  [reachable |-> TRUE, errorType |-> "none", facts |-> facts, registry |-> FALSE]

\* phase: "idle", "asking" the target, "mirrors", "classify", "done"; late: the
\* timer has fired; failed: attempts that failed; status: the last attempt's.
Fresh(m) == [monitor |-> m, phase |-> "asking", attempt |-> 0, hop |-> 0, late |-> FALSE,
             signal |-> Unreachable("none"), failed |-> 0, status |-> "none"]

ProbesInit ==
  /\ directory = "none"
  /\ LET m == CHOOSE m \in Targets : TRUE
     IN  check = [c \in Checks |-> [Fresh(m) EXCEPT !.phase = "idle"]]
  /\ runs = 0

-----------------------------------------------------------------------------
(* Judging an attempt. *)

StatusForUnreachable(errorType) ==
  CASE errorType = "timeout" -> "TIMEOUT"
    [] errorType \in {"config", "error"} -> "ERROR"
    [] OTHER -> "DOWN"

\* An expiry nobody made an assertion about: past is an error, near a warning.
Expiry(days, own) ==
  IF own THEN {} ELSE CASE days = "expired" -> {"error"} [] days = "soon" -> {"warn"} [] OTHER -> {}

Soft == {"RESPONSE_TIME", "SSL_EXPIRY_DAYS", "DOMAIN_EXPIRY_DAYS"}

\* evaluateValidations: the severities of what is violated.
Violations(m, facts) ==
  (IF m.expectsStatus /\ facts.status = "other" THEN {"error"} ELSE {})
  \cup (IF m.keyword # "none" /\ facts.keyword # (m.keyword = "required") THEN {"error"} ELSE {})
  \cup Expiry(facts.cert, "SSL_EXPIRY_DAYS" \in m.assertions)
  \cup Expiry(facts.domain, "DOMAIN_EXPIRY_DAYS" \in m.assertions)
  \cup {IF s \in Soft THEN "warn" ELSE "error" : s \in m.assertions \cap facts.broken}

\* classifySignal
Judged(m, signal) ==
  LET found == Violations(m, signal.facts)
  IN  CASE ~signal.reachable -> StatusForUnreachable(signal.errorType)
        [] signal.reachable /\ "error" \in found -> "DOWN"
        [] signal.reachable /\ found = {"warn"} -> "DEGRADED"
        [] OTHER -> "UP"

IsSuccess(status) == status \in {"UP", "DEGRADED"}

\* executeCheck: a failure is tried again while retries are left.
Again(k) == ~IsSuccess(k.status) /\ k.attempt < k.monitor.retries

Classify(c) ==
  LET k == check[c]
      judged == [k EXCEPT !.status = Judged(k.monitor, k.signal),
                          !.failed = @ + (IF IsSuccess(Judged(k.monitor, k.signal)) THEN 0 ELSE 1)]
  IN  /\ k.phase = "classify"
      /\ check' = [check EXCEPT ![c] =
           IF Again(judged)
             THEN [judged EXCEPT !.phase = "asking", !.attempt = @ + 1, !.hop = 0, !.late = FALSE]
             ELSE [judged EXCEPT !.phase = "done"]]
      /\ UNCHANGED <<directory, runs>>

-----------------------------------------------------------------------------
(* The probes. *)

\* The errors each probe tells apart when its request fails by itself.
ErrorsOf(type) ==
  CASE type \in Http -> {"dns", "refused", "timeout", "tls", "connect", "error", "blocked"}
    [] type \in {"TCP", "PORT", "PING"} -> {"dns", "refused", "timeout", "connect", "blocked"}
    [] type = "SSL" -> {"dns", "refused", "timeout", "tls", "blocked"}
    [] type = "DNS" -> {"dns", "timeout", "error", "blocked"}
    [] type = "HEARTBEAT" -> {"no_ping", "timeout"}

\* What a reachable target of each type may show.
FactsOf(m) ==
  LET broken == SUBSET m.assertions
  IN  CASE m.type \in Http ->
             [status : {"expected", "other"}, keyword : BOOLEAN, cert : Expiries,
              domain : {"none"}, broken : broken]
        [] m.type = "SSL" ->
             [status : {"none"}, keyword : {FALSE}, cert : Expiries \ {"none"},
              domain : {"none"}, broken : broken]
        [] m.type = "DOMAIN" ->
             [status : {"none"}, keyword : {FALSE}, cert : {"none"},
              domain : Expiries \ {"none"}, broken : broken]
        [] OTHER -> {[Blank EXCEPT !.broken = b] : b \in broken}

Asking(c) == check[c].phase = "asking"
Signals(c, signal) == check' = [check EXCEPT ![c].signal = signal, ![c].phase = "classify"]

\* A monitor without its url, host or port is not probed.
NotConfigured(c) ==
  /\ Asking(c) /\ ~check[c].monitor.configured
  /\ Signals(c, Unreachable("config"))
  /\ UNCHANGED <<directory, runs>>

\* Network errors are told apart; whatever comes after the deadline is a timeout.
RequestFails(c) ==
  /\ Asking(c) /\ check[c].monitor.configured /\ check[c].monitor.type # "DOMAIN"
  /\ \E e \in ErrorsOf(check[c].monitor.type) : Signals(c, Unreachable(e))
  /\ UNCHANGED <<directory, runs>>

\* The timer of the attempt fires: the request is destroyed.  A page of which
\* the head has come counts as come, cut off where it is (http.ts:98-99).
DeadlinePasses(c) ==
  LET m == check[c].monitor
  IN  /\ Asking(c) /\ m.configured /\ m.type \notin {"DOMAIN", "HEARTBEAT"}
      /\ \/ Signals(c, Unreachable("timeout"))
         \/ m.type \in Http /\ \E f \in FactsOf(m) : Signals(c, Reached(f))
      /\ UNCHANGED <<directory, runs>>

Answered(c) ==
  LET m == check[c].monitor
  IN  /\ Asking(c) /\ m.configured /\ m.type # "DOMAIN"
      /\ \E f \in FactsOf(m) : Signals(c, Reached(f))
      /\ UNCHANGED <<directory, runs>>

\* Another address, when the monitor follows them; the last one is the answer.
Redirected(c) ==
  LET m == check[c].monitor
  IN  /\ Asking(c) /\ m.configured /\ m.type \in Http /\ m.followRedirects
      /\ check[c].hop < MaxRedirects
      /\ check' = [check EXCEPT ![c].hop = @ + 1]
      /\ UNCHANGED <<directory, runs>>

-----------------------------------------------------------------------------
(* The domain probe: the directory of registries, then the registry's servers. *)

Domain(c) == check[c].monitor.type = "DOMAIN" /\ check[c].monitor.configured

\* From the cache, or asked for; what comes is kept, "not found" as no registries.
FindsRegistry(c) ==
  /\ Asking(c) /\ Domain(c)
  /\ directory' \in IF directory = "none" THEN {"listed", "empty"} ELSE {directory}
  /\ IF directory' = "empty"
       THEN Signals(c, Unreachable("config"))
       ELSE check' = [check EXCEPT ![c].phase = "mirrors"]
  /\ UNCHANGED runs

DirectoryFails(c) ==
  /\ Asking(c) /\ Domain(c) /\ directory = "none"
  /\ \E e \in {"timeout", "error", "blocked"} : Signals(c, Unreachable(e))
  /\ UNCHANGED <<directory, runs>>

AtMirrors(c) == check[c].phase = "mirrors"

\* The record, without an expiry date perhaps; or none, which is final.
MirrorAnswers(c) ==
  /\ AtMirrors(c)
  /\ \/ \E f \in FactsOf(check[c].monitor) : Signals(c, Reached(f))
     \/ \E e \in {"dns", "error"} : Signals(c, Unreachable(e))
  /\ UNCHANGED <<directory, runs>>

\* Mutant: the first server that fails decides.
MirrorFailsAtOnce(c) ==
  /\ AtMirrors(c)
  /\ Signals(c, RegistryDown("error"))
  /\ UNCHANGED <<directory, runs>>

\* A server fails: the next one is asked, late or not; after the last, its
\* error is the answer, or a timeout when the deadline has passed.
MirrorFails(c) ==
  LET k == check[c]
  IN  /\ AtMirrors(c)
      /\ IF k.hop + 1 < Mirrors
           THEN check' = [check EXCEPT ![c].hop = @ + 1]
           ELSE \E e \in IF k.late THEN {"timeout", "blocked"} ELSE {"timeout", "error", "blocked"} :
                  check' = [check EXCEPT ![c].signal = RegistryDown(e), ![c].phase = "classify",
                                         ![c].hop = @ + 1]
      /\ UNCHANGED <<directory, runs>>

\* The timer fires: the request under way is destroyed.  The next ones no longer
\* hear of it (domain.ts:71).
RegistryIsLate(c) ==
  LET k == check[c]
  IN  /\ AtMirrors(c) /\ ~k.late
      /\ check' = [check EXCEPT ![c] =
           IF k.hop + 1 < Mirrors
             THEN [k EXCEPT !.late = TRUE, !.hop = @ + 1]
             ELSE [k EXCEPT !.late = TRUE, !.hop = @ + 1, !.phase = "classify",
                            !.signal = RegistryDown("timeout")]]
      /\ UNCHANGED <<directory, runs>>

\* The day the directory was kept for is over.
DirectoryExpires ==
  /\ directory # "none"
  /\ directory' = "none"
  /\ UNCHANGED <<check, runs>>

-----------------------------------------------------------------------------
Start(c) ==
  /\ check[c].phase \in {"idle", "done"} /\ runs < MaxRuns
  /\ \E m \in Targets : check' = [check EXCEPT ![c] = Fresh(m)]
  /\ runs' = runs + 1
  /\ UNCHANGED directory

Step(c) ==
  \/ NotConfigured(c) \/ RequestFails(c) \/ DeadlinePasses(c) \/ Answered(c) \/ Redirected(c)
  \/ FindsRegistry(c) \/ DirectoryFails(c) \/ MirrorAnswers(c) \/ MirrorFails(c) \/ RegistryIsLate(c)
  \/ Classify(c)

ProbesNext == (\E c \in Checks : Start(c) \/ Step(c)) \/ DirectoryExpires

ProbesSpec == ProbesInit /\ [][ProbesNext]_pvars

-----------------------------------------------------------------------------
(* A check reports a failure only when every attempt it was allowed failed,  *)
(* and an attempt blames the registry's servers only when every one of them  *)
(* failed it: no single refusal, redirect or late answer raises an alarm     *)
(* (execute.ts:61-91, domain.ts:215-232).                                    *)
AlarmIsUnanimous ==
  \A c \in Checks :
    LET k == check[c]
    IN  /\ k.phase = "done" /\ ~IsSuccess(k.status) => k.failed = k.monitor.retries + 1
        /\ k.phase \in {"classify", "done"} /\ k.signal.registry => k.hop = Mirrors
=============================================================================
