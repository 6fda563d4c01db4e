---------------------------- MODULE MCEscalation ----------------------------
\* Instances of Escalation for TLC.
EXTENDS Escalation

CONSTANTS w1, ann, chat, rota     \* model values

OneWorker   == {w1}
OneUser     == {ann}
OneChannel  == {chat}

\* Two steps that are repeated once, and a single step.
SomePolicies ==
  {[steps |-> <<{ann, rota}, {chat}>>, repeatCount |-> 1],
   [steps |-> <<{ann}>>, repeatCount |-> 0]}
=============================================================================
