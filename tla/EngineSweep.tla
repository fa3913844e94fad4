---------------------------- MODULE EngineSweep ----------------------------
(***************************************************************************)
(* The engine with a record of what its restarts found: the attempts that  *)
(* CommitRestartFencing collected beyond Issued, those a process may have  *)
(* been carrying out when it died.  `found' is a history variable: no step *)
(* of the engine reads it.                                                 *)
(***************************************************************************)
EXTENDS Engine

VARIABLE found

sweepVars == <<vars, found>>

\* The attempts the sweep of this boot has still to interrupt.
ToInterrupt ==
    IF phase = "fencing"
    THEN {i \in op.sweep : SweepTarget(i) = "Interrupted"} ELSE {}

SweepSpec ==
    /\ Init /\ found = {}
    /\ [][Next /\ found' = found \cup ToInterrupt]_sweepVars

\* README: an attempt in flight when a process died is reported as INTERRUPTED
\* and its outcome as ambiguous (CommitRestartFencing): once an engine serves
\* again, so is every attempt that a restart found in flight and that is still
\* retained.
InterruptedIsReported ==
    Serving =>
      \A i \in found \cap Held(attempts) :
        /\ attempts[i].state = "Interrupted"
        /\ \E m \in DOMAIN outcomes : /\ outcomes[m].attempt = i
                                      /\ outcomes[m].ambiguous
=============================================================================
