----------------------------- MODULE MCPipeline -----------------------------
(* Instances of RemediationPipeline for TLC. *)
EXTENDS RemediationPipeline, TLC

CONSTANTS w1,       \* a replica
          c1, c2    \* contents: the plan writes c1 with automatic approval,
                    \* c2 with another decision

ByDecision == [d \in Decisions |-> IF d = "auto" THEN {c1} ELSE {c2}]

WebhookOnly == [c \in {c1, c2} |-> "notification"]
SimulationOnly == [c \in {c1, c2} |-> "simulated"]

Result(d) == [decision |-> d, crd |-> FALSE,
              content |-> IF d = "auto" THEN c1 ELSE c2]

\* The built-in guardrails: any decision; automatic approval.
AnyDecision == {Result(d) : d \in Decisions}
AutoOnly == {Result("auto")}

=============================================================================
