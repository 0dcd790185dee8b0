-------------------------- MODULE MCInvestigation --------------------------
(* Instances of InvestigationRequest for TLC. *)
EXTENDS InvestigationRequest

CONSTANTS w1,           \* a replica
          k1, k2        \* two root-cause claims

Seen(records, complete, normal, mechanism, supports, contradicts) ==
    [records |-> records, complete |-> complete,
     normal |-> normal, mechanism |-> mechanism, supports |-> supports,
     contradicts |-> contradicts]

Silent == Seen(FALSE, FALSE, FALSE, {}, {}, {})
Normal == Seen(TRUE, TRUE, TRUE, {}, {}, {})
Mixed == Seen(TRUE, TRUE, FALSE, {k1}, {k1}, {k2})

AllObservations == {Silent, Normal, Mixed}
OneObservation == {Mixed}

SpecOf(valid, profile, create) ==
    [valid |-> valid, profile |-> profile, createRiskSignal |-> create,
     maxDepth |-> 0, allowRiskSignalSource |-> FALSE]

AllSpecs == {SpecOf(TRUE, TRUE, TRUE), SpecOf(FALSE, FALSE, TRUE)}
OneSpec == {SpecOf(TRUE, FALSE, FALSE)}

TooDeep == [kind |-> "RiskRule", uid |-> TRUE, depth |-> 1]

AllAnnotations == {NoLineage, TooDeep}
NoAnnotations == {NoLineage}

AllAnswers == {{}, {k1, k2}}

=============================================================================
