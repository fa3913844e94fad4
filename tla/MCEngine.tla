------------------------------ MODULE MCEngine ------------------------------
(* Small instances of Engine. *)
EXTENDS EngineStore

CONSTANTS s1, n1, r1, o1, f1, d1, drifted

ScopeOne == {s1}
SubjectOne == {n1}
ReporterOne == {r1}

Strict == [version |-> 1, require_current_epoch |-> TRUE, max_age |-> 1,
           require_independent_verification |-> TRUE]
Lax == [version |-> 2, require_current_epoch |-> FALSE, max_age |-> 0,
        require_independent_verification |-> FALSE]

PolicyTwo == {Strict, Lax}
PolicyLax == {Lax}

EpochTwo == 1..2
EpochThree == 1..3
GenOne == {1}
GenTwo == {1, 2}
IdsTwo == 1..2
TimeOne == {1}

\* Every subject drifts.
AllDrift(p, digest, body) == Subjects

=============================================================================
