------------------------------- MODULE MCTools -------------------------------
(* A small instance of Tools. *)
EXTENDS Tools

CONSTANTS s1, n1, r1, o1, d1, drifted

ScopeOne == {s1}
SubjectOne == {n1}
ReporterOne == {r1}

Strict == [version |-> 1, require_current_epoch |-> TRUE, max_age |-> 1,
           require_independent_verification |-> TRUE]
Lax == [version |-> 2, require_current_epoch |-> FALSE, max_age |-> 0,
        require_independent_verification |-> FALSE]

PolicyTwo == {Strict, Lax}

EpochTwo == 1..2
GenTwo == {1, 2}
IdsOne == {1}
TimeOne == {1}

\* One fence identity, whatever --below is.
FenceOne == {1}
OneFence(below) == 1

\* Every subject drifts.
AllDrift(p, digest, body) == Subjects

=============================================================================
