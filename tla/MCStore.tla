------------------------------ MODULE MCStore ------------------------------
(***************************************************************************)
(* Small instances of DurableStore for TLC.                                *)
(***************************************************************************)
EXTENDS DurableStore

CONSTANTS a, b

\* A state that tells every sequence of records apart: replaying one twice,
\* skipping one or swapping two shows (none is longer than MaxSequence, so the
\* bound in Extended only keeps TraceStates finite).
TraceRecords == {a, b}
TraceStates == UNION {[1 .. n -> {a, b}] : n \in 0 .. MaxSequence + 1}
NoRecords == <<>>
Extended(s, r) == IF Len(s) <= MaxSequence THEN Append(s, r) ELSE s
AnySize(s) == TRUE
=============================================================================
