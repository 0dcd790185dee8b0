--------------------------- MODULE MCAgentAction ---------------------------
(* Instances of AgentAction for TLC. *)
EXTENDS AgentAction, TLC

CONSTANTS w1, w2,       \* two replicas
          c1, c2        \* contents: the plan writes c1 with automatic approval,
                        \* c2 with another decision

ByDecision == [d \in Decisions |-> IF d = "auto" THEN {c1} ELSE {c2}]

\* A rollout restart; a webhook call; a simulated runbook.
RestartOnly == [c \in {c1, c2} |-> "kubernetes"]
WebhookOnly == [c \in {c1, c2} |-> "notification"]
SimulationOnly == [c \in {c1, c2} |-> "simulated"]

\* Replicas are interchangeable.
Replicas == Permutations(Workers)

=============================================================================
