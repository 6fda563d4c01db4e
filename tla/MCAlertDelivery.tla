--------------------------- MODULE MCAlertDelivery ---------------------------
(***************************************************************************)
(* An instance for TLC of the two ways a message leaves the system, alerts *)
(* to channels and incidents to integrations, each on a queue of its own.  *)
(* They share no state, so the instance explores each and not their        *)
(* product: "part" says which of them moves.                               *)
(***************************************************************************)
EXTENDS AlertDelivery

CONSTANTS Target, Event, Told, Test, MaxTroubles

\* The integration's dispatcher, rows, jobs and workers.
VARIABLES integration, told, history, jobs, sender, accepted, troubles, part

Integrations ==
  INSTANCE IntegrationDelivery WITH
    Call <- Told, call <- told, row <- history, queue <- jobs,
    worker <- sender, sent <- accepted, mishaps <- troubles

integrationVars == <<integration, told, history, jobs, sender, accepted, troubles>>

\* The integrations that rest are all on.
MCInit ==
  /\ part \in {"alerts", "integrations"}
  /\ Init /\ Integrations!Init
  /\ part = "alerts" => \A t \in Target : integration[t] = "on"

MCNext ==
  \/ part = "alerts" /\ Next /\ UNCHANGED <<integrationVars, part>>
  \/ part = "integrations" /\ Integrations!Next /\ UNCHANGED <<vars, part>>

\* The fairness of AlertDelivery, of the part that moves.
MCSpec ==
  /\ MCInit /\ [][MCNext]_<<vars, integrationVars, part>>
  /\ \A w \in Worker :
       WF_vars(part = "alerts" /\ ((\E d \in Delivery : Take(w, d)) \/ Process(w)))
  /\ \A d \in Delivery : WF_vars(part = "alerts" /\ Recover(d))

\* See IntegrationDelivery.
HonestHistory    == Integrations!HonestHistory
SentOncePerEvent == Integrations!SentOncePerEvent
NobodyForgotten  == Integrations!NobodyForgotten
=============================================================================
