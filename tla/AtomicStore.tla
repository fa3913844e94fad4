----------------------------- MODULE AtomicStore -----------------------------
(***************************************************************************)
(* What the durable store promises its caller (store.hpp, journal.hpp): a  *)
(* mutation that was acknowledged survives every crash, one whose append   *)
(* failed is settled one way or the other by the next open, and nothing    *)
(* else ever changes the state. Files, snapshots and compaction do not     *)
(* appear: they must be invisible.                                         *)
(***************************************************************************)
CONSTANTS Records,        \* the mutations a caller may append
          States,         \* the states of the tables
          Empty,          \* the state of a store just created
          Apply(_, _),    \* the state after one more record
          None

VARIABLES durable,        \* the state every acknowledged mutation made
          doubt,          \* a mutation whose append failed, or None
          visible         \* the state an open store shows, or None

vars == <<durable, doubt, visible>>

Init == durable = Empty /\ doubt = None /\ visible = None

Commit(r) ==
    /\ visible # None /\ doubt = None
    /\ durable' = Apply(durable, r)
    /\ visible' = durable'
    /\ UNCHANGED doubt

\* A caller may give the store up with the append that failed, as Boot does.
Fail(r) ==
    /\ visible # None /\ doubt = None
    /\ doubt' = r
    /\ visible' \in {visible, None}
    /\ UNCHANGED durable

Stop ==
    /\ visible # None
    /\ visible' = None
    /\ UNCHANGED <<durable, doubt>>

\* Opening settles the doubtful mutation; until the store is open nobody sees
\* which way.
Settled == doubt # None /\ durable' = Apply(durable, doubt)

Settle ==
    /\ visible = None
    /\ Settled
    /\ doubt' = None
    /\ UNCHANGED visible

Recover ==
    /\ visible = None
    /\ Settled \/ UNCHANGED durable
    /\ visible' = durable'
    /\ doubt' = None

Next == (\E r \in Records : Commit(r) \/ Fail(r)) \/ Stop \/ Settle \/ Recover

Spec == Init /\ [][Next]_vars
=============================================================================
