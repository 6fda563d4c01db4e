---------------------------- MODULE IncidentBoard ----------------------------
(***************************************************************************)
(* What the incidents of one monitor promise to their readers (the         *)
(* escalation engine, the status pages, the humans on call), with no job,  *)
(* request or race in sight:                                               *)
(*                                                                         *)
(*   - an incident is opened, perhaps acknowledged, and resolved for good; *)
(*   - no incident is opened while another one of the monitor is active;   *)
(*   - its opening is announced at most once, and escalated at most once   *)
(*     after it was announced.                                             *)
(*                                                                         *)
(* CheckPipeline implements this as long as nobody acknowledges through    *)
(* the API; CheckPipelineProofs proves it for every number of jobs,        *)
(* requests and faults.                                                    *)
(***************************************************************************)
EXTENDS Naturals

CONSTANT Incident

VARIABLES
  status,      \* NONE, OPEN, ACKNOWLEDGED or RESOLVED
  announced,   \* how often the opening was announced
  escalated    \* how often an escalation was started

boardVars == <<status, announced, escalated>>

Init ==
  /\ status = [i \in Incident |-> "NONE"]
  /\ announced = [i \in Incident |-> 0]
  /\ escalated = [i \in Incident |-> 0]

Open(i) ==
  /\ status[i] = "NONE"
  /\ \A k \in Incident : status[k] \in {"NONE", "RESOLVED"}
  /\ status' = [status EXCEPT ![i] = "OPEN"]
  /\ UNCHANGED <<announced, escalated>>

Acknowledge(i) ==
  /\ status[i] = "OPEN"
  /\ status' = [status EXCEPT ![i] = "ACKNOWLEDGED"]
  /\ UNCHANGED <<announced, escalated>>

Resolve(i) ==
  /\ status[i] \in {"OPEN", "ACKNOWLEDGED"}
  /\ status' = [status EXCEPT ![i] = "RESOLVED"]
  /\ UNCHANGED <<announced, escalated>>

Announce(i) ==
  /\ status[i] # "NONE"
  /\ announced[i] = 0
  /\ announced' = [announced EXCEPT ![i] = 1]
  /\ UNCHANGED <<status, escalated>>

Escalate(i) ==
  /\ announced[i] = 1
  /\ escalated[i] = 0
  /\ escalated' = [escalated EXCEPT ![i] = 1]
  /\ UNCHANGED <<status, announced>>

Next ==
  \E i \in Incident :
    Open(i) \/ Acknowledge(i) \/ Resolve(i) \/ Announce(i) \/ Escalate(i)

Spec == Init /\ [][Next]_boardVars

=============================================================================
